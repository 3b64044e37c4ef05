CONSTANTS
    Processes = {1}
    Threads = {1, 2}
    Emails = {"alice"}
    Passwords = {"p", "q"}
    MaxCrashes = 0
    MaxRows = 3
SPECIFICATION Spec
INVARIANTS
    RegisteredCanLogin
