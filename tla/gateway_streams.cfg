CONSTANTS
    Kinds = {"binary", "smart", "unified"}
    Conns = {1}
    BufferSize = 2
    DialFails = TRUE
    Sequential = TRUE
    MaxUp = 5
    MaxDown = 3
SPECIFICATION FairSpec
INVARIANTS
    TypeOK
PROPERTIES
    ImplementsDuplexStream
    ClosedTogether
