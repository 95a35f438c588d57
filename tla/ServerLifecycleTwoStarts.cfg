CONSTANTS
    None = None
    Starts = {s1, s2}
    Drains = {d1}
    Requests = {r1}
    OneServes = FALSE
    ZeroBudget = FALSE
SPECIFICATION FairSpec
PROPERTIES DrainEnds
CHECK_DEADLOCK FALSE
