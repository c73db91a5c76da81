SPECIFICATION FairSpec
CONSTANTS
    t1 = t1
    t2 = t2
    t3 = t3
    r1 = r1
    r2 = r2
    w1 = w1
    w2 = w2
    NULL = NULL
    TaskId = {t1}
    ReminderId = {r1}
    Web = {w1, w2}
    Periods = {0}
    Snoozes <- AnySnooze
    Horizon = 1
    MaxFaults = 1
    SerialToggles = FALSE
PROPERTIES
    HandlersEnd
    ReminderFires
    NoticeArrives
CHECK_DEADLOCK FALSE
