SPECIFICATION FairWaitSpec
CONSTANTS
    gitlab = gitlab
    launchpad = launchpad
    Service = {gitlab, launchpad}
    Interval <- Intervals
    ProbeTimeout = 2
    Delay = 4
    MaxFlips = 2
INVARIANTS
    OkMeansAnswered
PROPERTY
    WaitEnds
CHECK_DEADLOCK FALSE
