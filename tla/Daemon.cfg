SPECIFICATION FairSpec
CONSTANTS
    None = None
    Missing = Missing
    Setups <- AllSetups
    Facts <- SomeFacts
    DefaultAgents <- SomeAgents
    DefaultRules <- SomeRules
    Broadcasts = {b1, b2}
    Channels = {events}
    DefaultChannels = {events}
    MaxSubscribers = 3
    Usable <- SomeUsable
INVARIANTS
    ServesWhole
    SameFiles
    NobodyIsSkipped
PROPERTIES
    Recovers
