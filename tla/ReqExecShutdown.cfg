CONSTANTS
    w1 = w1  w2 = w2  r1 = r1  r2 = r2  r3 = r3
    Workers <- MCWorkers
    EventLoop = loop
    Requests <- MCRequests3
    HeadRequests <- MCHead
    Faults = {"execute", "release", "push", "issue", "process"}
    NoRequest = NoRequest
    NoThread = NoThread
SPECIFICATION ShutdownSpec
INVARIANTS RunningIsCounted HaltedIffWaiting NothingLost OnlyDelegatedLost
PROPERTY GoesDown
CHECK_DEADLOCK FALSE
