CONSTANTS
    Kinds = {"binary"}
    Conns = {1}
    BufferSize = 2
    DialFails = FALSE
    Sequential = FALSE
    MaxUp = 5
    MaxDown = 3
SPECIFICATION Spec
INVARIANTS
    AnswersIntact
