CONSTANTS
    BufferSize = 2
    MaxMessage = 2
    MaxUp = 3
    MaxDown = 3
SPECIFICATION FairSpec
INVARIANTS
    TypeOK
    AnswersBeforeClose
    LastMessageForwarded
PROPERTIES
    ImplementsDuplexStream
    BridgeEnds
