SPECIFICATION FairSpec
CONSTANTS
    None = None
    Calls = {d1}
    Deployments <- MCDeployments
    MaxStarts = 2
    MaxErrors = 1
    MaxExits = 1
    MaxLines = 2
    Cap = 2
    LongLines = {1}
    MaxCommands = 3
    MaxTrims = 1
    Contents = {1, 2}
    MaxCopies = 2
    MaxHappenings = 2
    JobNames = {"digest", "backup"}
    ConfigJobs <- MCConfigJobs
    MaxEdits = 2
INVARIANTS
    ManagerOwnsRunning
    StopTakesTheChild
    OnceInOrder
PROPERTIES
    QuietAfterStop
    NothingTakenIsLost
    Respawns
    DisableReturns
    NewestIsPublished
