CONSTANTS
    c1 = c1  c2 = c2  s1 = s1  s2 = s2  a = a  b = b
    alice = alice  bob = bob  tokenA = tokenA  tokenB = tokenB  tokenX = tokenX
    Users <- OneUser
    NoUser = NoUser
    ChunkIndexes = {0}
    Contents = {a}
    NoChunk = NoChunk
    Conns = {c1}
    Sessions = {s1}
    Tokens <- OneToken
    TokenUser <- OneTokenUser
    TokenDuration <- OneTokenDuration
    InitRequests <- OneChunk
    MAX_FILE_SIZE = 40
    MIN_CHUNK_SIZE = 1
    MAX_CHUNK_SIZE = 20
    SESSION_TIMEOUT = 2
    FINISHED_TIMEOUT = 1
    Faults = {"refused"}
    IndexInRange = TRUE
    PromptHandlers = TRUE
    LastRequest = 2
    MaxTime = 4
    MaxRestarts = 0
SPECIFICATION Spec
INVARIANTS
    NoOrphanedUpload
