SPECIFICATION FairSpec
CONSTANTS
    Assignments = {a1}
    Tasks = {w1, w2}
    Callers = {c1, c2}
    None = None
    MaxIters = 1
    MaxRetries = 1
    Answers <- MixedAnswers
    MaxBatch = 3
    MaxTurns = 1
    MaxRows = 4
    MaxCalls = 2
    MaxFaults = 1
    MaxCrashes = 1
INVARIANTS
    BatchAccounted
    ToldOnlyWhatHappened
    OncePerAttempt
    TurnsPerAttempt
PROPERTIES
    KeepsTheLifecycle
    DecisionResumes
