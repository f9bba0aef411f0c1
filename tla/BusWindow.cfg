SPECIFICATION Spec
CONSTANTS
    Publishers = {p1}
    MaxEvents = 4
    MaxDepth = 1
    MaxBudget = 2
    k1 = k1
    t1 = t1
    Keys = {k1}
    Traces = {t1}
    None = None
    Requests <- DedupeRequests
    DayLength = 4
    MaxTime = 3
    MaxCrashes = 0
PROPERTIES
    DedupeWithinWindow
