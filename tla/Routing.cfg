SPECIFICATION Spec
CONSTANTS
    e1 = e1
    a1 = a1
    a2 = a2
    a3 = a3
    user = user
    logs = logs
    bus = bus
    fact = fact
    Events = {e1}
    Agents = {a1, a2, a3}
    Shapes <- EventShapes
    RuleTable <- Table
    SystemTopics = {bus}
    UseClassifier = TRUE
    MaxFanOut = 2
    None = None
    MaxAnswer = 3
    MaxToggles = 3
    MaxErrors = 1
INVARIANTS
    OneRowPerAgent
    AgentWasUp
    PriorityWins
    StatusTellsOfRows
