CONSTANTS
    c1 = c1  c2 = c2  s1 = s1  s2 = s2  a = a  b = b
    alice = alice  bob = bob  tokenA = tokenA  tokenB = tokenB  tokenX = tokenX
    Users <- TwoUsers
    NoUser = NoUser
    ChunkIndexes = {0, 1}
    Contents = {a, b}
    NoChunk = NoChunk
    Conns = {c1}
    Sessions = {s1}
    Tokens <- AllTokens
    TokenUser <- AllTokenUser
    TokenDuration <- AllTokenDuration
    InitRequests <- ManyInits
    MAX_FILE_SIZE = 40
    MIN_CHUNK_SIZE = 1
    MAX_CHUNK_SIZE = 20
    SESSION_TIMEOUT = 2
    FINISHED_TIMEOUT = 1
    Faults = {"refused", "lost"}
    IndexInRange = FALSE
    PromptHandlers = FALSE
    LastRequest = 2
    MaxTime = 1
    MaxRestarts = 1
SPECIFICATION Spec
SYMMETRY ConnsAndContents
INVARIANTS
    PartsMatchReceived
    RecordedPartsStored
PROPERTIES
    OnlyOwnerChangesSession
