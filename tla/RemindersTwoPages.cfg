SPECIFICATION Spec
CONSTANTS
    t1 = t1
    t2 = t2
    t3 = t3
    r1 = r1
    r2 = r2
    w1 = w1
    w2 = w2
    NULL = NULL
    TaskId = {t1, t2}
    ReminderId = {r1}
    Web = {w1, w2}
    Periods = {NULL, 1}
    Snoozes = {1}
    Horizon = 2
    MaxFaults = 1
    SerialToggles = FALSE
SYMMETRY Symmetry
PROPERTY CompletedToggleRefused
