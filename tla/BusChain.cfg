SPECIFICATION FairSpec
CONSTANTS
    Publishers = {p1, p2}
    MaxEvents = 5
    MaxDepth = 2
    MaxBudget = 1
    k1 = k1
    t1 = t1
    Keys = {k1}
    Traces = {t1}
    None = None
    Requests <- ChainRequests
    DayLength = 1
    MaxTime = 1
    MaxCrashes = 1
INVARIANTS
    ChainDepthBounded
    SiblingBudget
PROPERTIES
    AcceptedIsRouted
