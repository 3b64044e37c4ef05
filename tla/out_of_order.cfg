CONSTANTS
    c1 = c1  c2 = c2  s1 = s1  s2 = s2  a = a  b = b
    alice = alice  bob = bob  tokenA = tokenA  tokenB = tokenB  tokenX = tokenX
    Users <- OneUser
    NoUser = NoUser
    ChunkIndexes = {0, 1}
    Contents = {a}
    NoChunk = NoChunk
    Conns = {c1}
    Sessions = {s1}
    Tokens <- OneToken
    TokenUser <- OneTokenUser
    TokenDuration <- OneTokenDuration
    InitRequests <- TwoChunks
    MAX_FILE_SIZE = 40
    MIN_CHUNK_SIZE = 1
    MAX_CHUNK_SIZE = 20
    SESSION_TIMEOUT = 2
    FINISHED_TIMEOUT = 1
    Faults = {}
    IndexInRange = TRUE
    PromptHandlers = TRUE
    LastRequest = 1
    MaxTime = 0
    MaxRestarts = 0
SPECIFICATION Spec
INVARIANTS
    NoFailureWithoutFault
