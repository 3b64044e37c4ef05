CONSTANTS
    Processes = {1}
    Threads = {1}
    Emails = {"alice"}
    Passwords = {"p", "q"}
    MaxCrashes = 1
    MaxRows = 3
SPECIFICATION FairSpec
PROPERTIES
    ComesUp
