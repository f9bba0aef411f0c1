SPECIFICATION Spec
CONSTANTS
    Publishers = {p1, p2}
    MaxEvents = 4
    MaxDepth = 1
    MaxBudget = 2
    k1 = k1
    t1 = t1
    Keys = {k1}
    Traces = {t1}
    None = None
    Requests <- DedupeRequests
    DayLength = 2
    MaxTime = 3
    MaxCrashes = 1
INVARIANTS
    SuppressedHasOriginal
    CountsCoverDuplicates
    DedupeRaceBound
    
PROPERTIES
    KeepsTheLedger
SYMMETRY PublisherSymmetry
