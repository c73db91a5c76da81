SPECIFICATION FairSpec
CONSTANTS
    apollo = apollo
    demeter = demeter
    hades = hades
    Host = {apollo, demeter, hades, mars}
    mars = mars
    None = None
    Version = {1, 2, 3}
    Initial = 1
    Local = {mars}
    Phase <- Phases
    Rank <- Ranks
    AutoReboot = {apollo, demeter}
    Kernel <- Kernels
    Invocations <- SomeCalls
    Limit = 2
    Retries = 1
    MaxRuns = 2
    MaxFaults = 2
INVARIANTS
    NothingMissing
    SettledRunsTarget
    KernelFits
PROPERTIES
    ReadyBeforeAnyChange
    ImplementsPhasedRollout
    RunEnds
CHECK_DEADLOCK FALSE
