SPECIFICATION FairSpec
CONSTANTS
    Lanes = {"interactive", "ambient"}
    None = None
    MaxTasks = 2
    MaxAdmins = 2
    Scenarios <- MCScenarios
INVARIANTS
    SlotsAccounted
    ReservedForInteractive
    OneHolder
    ManagerConsistent
PROPERTIES
    InteractiveIsServed
