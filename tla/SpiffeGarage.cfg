SPECIFICATION FairSpec
CONSTANTS
    Client <- MCClient
    None = None
    ID <- MCID
    Caller <- MCCaller
    a = a
    n = n
    x = x
    y = y
    MaxKeys = 3
    Drain = 1
    ShutdownLimit = 3
    Grace = 1
INVARIANTS
    OwnKey
    ShutdownIsGraceful
PROPERTY
    ShutdownEnds
CHECK_DEADLOCK FALSE
