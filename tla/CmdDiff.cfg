SPECIFICATION FairSpec
CONSTANTS
    arges = arges
    brontes = brontes
    mars = mars
    Host = {arges, brontes, mars}
    Remote = {arges, brontes}
    VersionLike <- Starts
    Version = {1, 2, 3}
    Target = 3
    Closure <- Closures
    Systems <- Before
    Invocations <- SomeCalls
    Limit = 2
    Retries = 1
    MaxChanges = 1
    MaxFaults = 2
INVARIANTS
    NoteIsExact
    RebootAnnounced
PROPERTY
    DiffEnds
CHECK_DEADLOCK FALSE
