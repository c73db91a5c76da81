SPECIFICATION FairSession
CONSTANTS
    None = None
    Patience = 3
    MaxFaults = 2
    Hosts = {athena, apollo, mars}
    Target = athena
    Unphased = {mars}
    Known = {apollo, ceres}
INVARIANTS
    OkMeansRebooted
    KeysRemoved
    PlanIsComplete
    NoteHasToken
PROPERTIES
    RolesKept
    CommandEnds
CHECK_DEADLOCK FALSE
