SPECIFICATION FairSpec
CONSTANTS
    c1 = c1
    c2 = c2
    None = None
    Service = "grafana"
    Client <- MCClient
    Unit <- MCUnit
    Name <- MCName
    Aliases <- MCAliases
    Wants <- MCWants
    Stored <- MCStored
    IdleAfter = 4
    RenewEvery = 2
    LookupMax = 2
INVARIANTS
    OwnAnswer
    IdleExitHarmless
PROPERTIES
    ConnectionEnds
    TokenRecovers
CHECK_DEADLOCK FALSE
