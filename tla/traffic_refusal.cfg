SPECIFICATION FairSpec
CONSTANTS
    Messages <- MCMessages
    ValidTokens <- Valid
    MaxTokenSize = 3
    Disconnects = FALSE
PROPERTY RefusalsArrive
