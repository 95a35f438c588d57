SPECIFICATION MCSpec
CONSTANTS
    r1 = r1
    r2 = r2
    NoSnapshot = NoSnapshot
    Runs <- MCRuns
    ToolResults = {}
    Concurrent = FALSE
    Checkpoint = TRUE
    MaxCompactions = 2
    MaxLost = 1
    MaxIterations = 2
    MaxRounds = 2
    CallsPerRound = 1
    MaxFaults = 1
    MaxTurns = 2
    MaxTurnCompactions = 1
    MaxToolRounds = 1
    RoundCalls = 2
    History <- MCHistory
    Texts <- MCTexts
    TextSizes = {1, 9}
    MaxNumbered = 5
    KeepRecent = 3
    KeepTokens = 0
    AgentBudget = 6
    DefaultBudget = 9
    SummaryTokens = 1
    KeptResult = 4
    CutNote = 2
    CharsPerToken = 2
    MessageOverhead = 1
    ImageTokens = 2
SYMMETRY Symmetry
INVARIANT OverlapForgetsNothing
CHECK_DEADLOCK FALSE
