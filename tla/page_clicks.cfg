CONSTANTS
    c1 = c1  c2 = c2  c3 = c3  s1 = s1  s2 = s2  u3 = u3  a = a  b = b  alice = alice  tokenA = tokenA
    Users = {alice}
    NoUser = NoUser
    ChunkIndexes = {0, 1}
    Contents = {a, b}
    NoChunk = NoChunk
    Conns = {c1}
    Sessions = {s1}
    Tokens = {tokenA}
    TokenUser <- OneTokenUser
    TokenDuration <- OneTokenDuration
    InitRequests <- OnlyDeclared
    MAX_FILE_SIZE = 40
    MIN_CHUNK_SIZE = 2
    MAX_CHUNK_SIZE = 40
    SESSION_TIMEOUT = 2
    FINISHED_TIMEOUT = 1
    Faults = {"refused", "lost"}
    IndexInRange = TRUE
    PromptHandlers = TRUE
    LastRequest = 1
    MaxTime = 0
    MaxRestarts = 1
    FileSize = 3
    CHUNK_SIZE = 2
    Clicks = {"pause", "resume", "cancel"}
    MaxClicks = 3
    Disconnects = TRUE
    MaxUploads = 1
    PromptReads = TRUE
    Files <- Alternating
    ConnOf <- OneEach
SPECIFICATION FairSystemSpec
INVARIANTS
    PageTypeOK
    CompletedIsFile
    ProgressIsReal
PROPERTIES
    UploadEnds
