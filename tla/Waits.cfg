SPECIFICATION MCSpec
CONSTANTS
    MaxChunks = 2
    KeepaliveInterval = 2
    InactivityTimeout = 4
    MaxDelay = 1
    MaxRun = 2
    MaxPubFaults = 1
    Runes <- MCRunes
    UTFMax = 2
    MaxRunes = 4
    Overhead = 2
    Limits = {1, 4, 5, 8}
    Runs = {r1}
    ToolResults = {}
    NoSnapshot = NoSnapshot
    Concurrent = FALSE
    Checkpoint = TRUE
    MaxIterations = 0
    MaxRounds = 3
    CallsPerRound = 1
    MaxCompactions = 2
    MaxFaults = 1
    MaxLost = 0
    Starts = {s1, s2}
    Drains = {d1}
    Requests = {q1}
    None = None
    OneServes = TRUE
    ZeroBudget = TRUE
INVARIANTS
    AnswerIsDeserved
    SplitIsInvisible
PROPERTIES
    WaitsEnd
CHECK_DEADLOCK FALSE
