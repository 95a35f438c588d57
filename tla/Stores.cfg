SPECIFICATION MCSpec
CONSTANTS
    a = a
    b = b
    Callers <- MCCallers
    Options <- MCOptions
    ToolResults <- MCToolResults
    NoSnapshot = NoSnapshot
    Overlap = FALSE
    MaxMessages <- MCMaxMessages
    MaxClears = 1
    MaxFaults = 1
    FileCallers = {c1, c2}
    FileOldCursors = FALSE
    FileOptions <- MCFileOptions
    MaxFileMessages = 4
    MaxFileFaults = 1
    MaxCrashes = 1
    MaxFileClears = 1
    MaxTroubles = 1
    SaveAttempts = 2
    Memories <- MCCallers
    Pruning = {a}
    Thresholds = {0, 3}
    SummarySize = 2
    MaxKvMessages <- MCKvMessages
    OldCursors = FALSE
    DbClients <- MCCallers
    DbPruning = {a}
    DbThresholds = {0, 3}
    DbSummarySize = 2
    DbMessages <- MCDbMessages
    MaxDbTroubles = 1
    ClearRaces = FALSE
    ToolCallers = {c1, c2}
    MaxInstances = 2
    MissedFactor = 1
    TTL = 2
    Window = 1
    CacheCallers = {c1, c2}
    Conversations = {"t", "u", "v"}
    Near <- MCNear
    BadConversations = {"u"}
    Contracts = {"free", "schema"}
    Overfetch = 0
    MaxEntries = 2
    Ingestions = {i1, i2}
    SourceChunks = 3
    EmbedBatch = 2
    StoreBatch = 1
    ChunkPayload <- MCChunkPayload
    Conditions <- MCConditions
    TopK = 1
    MaxStoreFaults = 1
    MaxStoreClears = 1
SYMMETRY MCSymmetry
INVARIANTS
    CursorsAreStable
    LoadsWhatWasSaid
    MemoryIsFile
    ReadsAsSaved
    ServesOnlyWhatFits
    IngestsInOrder
    QueriesAgree
    NobodyFailsForAnother
PROPERTIES
    KeepsConversation
    LosesToOthersOnly
    HandleIsCurrent
CHECK_DEADLOCK FALSE
