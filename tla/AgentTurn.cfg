SPECIFICATION FairSpec
CONSTANTS
    Turns = {t1, t2}
    Users = {t1, t2}
    Worlds <- AllWorlds
    None = None
    Nothing = Nothing
    Keys <- ThreeKeys
    Values = {v1, v2}
    Memories = {m1, m2}
    MemoryRow <- TwoRows
    DEFAULT_TOKEN_BUDGET = 4096
    SystemTokens <- Prompts
    EntryTokens = 20
    MemoryTokens = 60
    RefTokens = 65
    UserTokens = 200
    ReplyTokens = 250
    RecallLimit = 1
    RecentLimit = 20
    Commands = {ls, rm, vim}
    Blocklisted = {rm}
    Allowlisted = {ls}
    m1 = m1
    m2 = m2
    ls = ls
    rm = rm
    vim = vim
    v1 = v1
    v2 = v2
INVARIANTS
    RoomForTheEvent
    KnowledgeIsConsistent
    NothingBlockedRuns
    BrowserIsShared
PROPERTIES
    RunsAreAnswered
