CONSTANTS
    MaxStarts = 4
    MaxHups = 3
    HupAnytime = FALSE
    QuitEnabled = TRUE
    StartMayFail = TRUE
SPECIFICATION FairSpec
INVARIANTS TypeOK EndsForReason ServingHasEventLoop RestartsByHup
PROPERTIES ShutdownEndsInstance
CHECK_DEADLOCK FALSE
