CONSTANTS
    MaxStarts = 2
    MaxHups = 1
    HupAnytime = TRUE
    QuitEnabled = FALSE
    StartMayFail = FALSE
SPECIFICATION Spec
INVARIANT EndsForReason
CHECK_DEADLOCK FALSE
