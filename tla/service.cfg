\* Three callers at the gate, crashes, failures and deadlines anywhere.
CONSTANTS
    Nobody = Nobody
    WatchdogLimit = 2
    EventCap = 1
SPECIFICATION ServiceSpec
INVARIANTS
    RestartOnce
    StopIsComplete
    FailedStartIsUndone
    ShutdownIsFinal
CHECK_DEADLOCK FALSE
