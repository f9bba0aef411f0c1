SPECIFICATION Spec
CONSTANTS
    Assignments = {a1}
    Tasks = {w1}
    Callers = {c1, c2}
    None = None
    MaxIters = 1
    MaxRetries = 0
    Answers <- AskOnly
    MaxBatch = 3
    MaxTurns = 1
    MaxRows = 1
    MaxCalls = 2
    MaxFaults = 0
    MaxCrashes = 0
PROPERTIES
    ExecutesOnlyWhatAwaits
