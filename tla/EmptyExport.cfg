SPECIFICATION MCSpec
CONSTANTS
    MaxCalls = 3
    MaxParallelTools = 2
    Requests <- MCRequests
    Written <- MCWritten
    DenyRules = {"d"}
    AskRules = {"b"}
    Fallback = "Ask"
    HasAsker = TRUE
    Allows = {"b"}
    Grants = {"a"}
    Runs = {r1, r2}
    PermCalls = {p1, p2}
    Shells = {s1}
    ToolCalls = {t1, t2}
    MaxBytes = 4
    RuneStarts = {1, 3, 4}
    MaxBackgroundOutput = 2
    Foreground = {c1, c2}
    Names = {"x"}
    Values = {"", "v"}
    Dirs = {"d1", "d2"}
    StartEnv <- MCStartEnv
    Asked = {0, 3}
    DefaultTimeout = 0
    FixedTimeout = 0
    MaxTimeout = 2
    EmptyExports = TRUE
    FileReads = {1, 2}
    Touches = {"between"}
    MaxVersions = 4
    LLMCallers = {l1, l2}
    Streaming = {l1}
    MaxAttempts = 2
    RequestsPerSecond = 1
    MaxConcurrent = 1
    MaxLLMChunks = 1
INVARIANT CarriesEachChange
CHECK_DEADLOCK FALSE
