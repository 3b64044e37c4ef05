CONSTANTS
    Kinds = {"binary"}
    Conns = {1}
    BufferSize = 2
    DialFails = TRUE
    Sequential = TRUE
    MaxUp = 5
    MaxDown = 3
SPECIFICATION Spec
INVARIANTS
    FailedDialIsContained
