SPECIFICATION MCSpec
CONSTANTS
    None = None
    s1 = s1
    s2 = s2
    d1 = d1
    r1 = r1
    r2 = r2
    Starts <- MCStarts
    Drains <- MCDrains
    Requests <- MCRequests
    root = root
    toolSpan = toolSpan
    callSpan = callSpan
    NoSpan = NoSpan
    Spans <- MCSpans
    ParentSpan <- MCParentSpan
    EndCalls <- MCEndCalls
    QueueSize = 1
    OneServes = TRUE
    ZeroBudget = FALSE
    Replies <- MCReplies
    Configs <- MCConfigs
    Foreign <- MCForeign
    Filters <- MCFilters
    PromptRequests <- MCPrompts
    Plain <- MCPlain
    ServerLimit = 6
    ClientLimit = 5
    MaxToken = 2
    MaxServed = 2
    MaxCancels = 2
    DefaultMax = 4
    MaxAttempts = 3
    InitialBackoff = 2
    MaxBackoff = 5
    MaxPrices = 2
    Clients = {"anthropic", "openai", "google"}
    MaxTurnCalls = 2
    MaxAnswers = 2
    Wires = {"openai", "google"}
    MaxIndexes = 2
    CleanCuts = FALSE
SYMMETRY MCSymmetry
INVARIANTS
    TypeOK
    GateIsExact
    NothingLeftBehind
    WorkIsNotAbandoned
    PromptsFindTheirAgent
    ToolReportsTheRun
    AnyProviderMeansTheSame
    StreamedAsBuffered
    StrictAndTheSame
    TraceIsExact
PROPERTIES
    ReadyMeansServing
    KeepsContract
CHECK_DEADLOCK FALSE
