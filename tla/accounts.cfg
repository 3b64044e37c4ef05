CONSTANTS
    Processes = {1, 2}
    Threads = {1, 2}
    Emails = {"alice"}
    Passwords = {"p", "q"}
    MaxCrashes = 2
    MaxRows = 3
SPECIFICATION Spec
INVARIANTS
    DuplicatesOverlap
