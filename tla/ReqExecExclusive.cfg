CONSTANTS
    w1 = w1  w2 = w2  r1 = r1  r2 = r2  r3 = r3  r4 = r4
    Workers <- MCWorkers
    EventLoop = loop
    Requests <- MCRequests3
    HeadRequests <- MCHead
    Faults = {}
    NoRequest = NoRequest
    NoThread = NoThread
SPECIFICATION QuietSpec
SYMMETRY Symmetry3
INVARIANT ExclusiveAccess
CHECK_DEADLOCK FALSE
