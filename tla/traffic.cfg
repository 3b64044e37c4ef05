SPECIFICATION FairSpec
CONSTANTS
    Messages <- MCMessages
    ValidTokens <- Valid
    MaxTokenSize = 3
    Disconnects = TRUE
INVARIANT BufferIsRemainder
PROPERTY ImplementsRequestStream
PROPERTY AnswersArrive
