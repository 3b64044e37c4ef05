CONSTANTS
    Processes = {1, 2}
    Threads = {1}
    Emails = {"alice"}
    Passwords = {"p", "q"}
    MaxCrashes = 0
    MaxRows = 3
SPECIFICATION Spec
INVARIANTS
    TablesBeforeServing
