SPECIFICATION FairSpec
CONSTANTS
    Starts <- MonthEnds
    Intervals <- ManyIntervals
    Minutes <- ManyMinutes
    Earliest <- BeginningOfTime
    Horizon = 470
    Lags <- ManyLags
INVARIANTS
    ReturnsNextOccurrence
    ComputesAdvance
PROPERTIES
    CallEnds
CHECK_DEADLOCK FALSE
