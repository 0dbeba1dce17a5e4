CONSTANTS
    w1 = w1  w2 = w2  r1 = r1  r2 = r2  r3 = r3  r4 = r4
    Workers <- MCWorkers
    EventLoop = loop
    Requests <- MCRequests4
    HeadRequests <- MCHead
    Faults = {}
    NoRequest = NoRequest
    NoThread = NoThread
SPECIFICATION QuietFairSpec
INVARIANTS TypeOK RunningIsCounted HaltedIffWaiting WaitingHasProcessor AnsweredOnce
PROPERTIES ResumeAfterAnswers ImplementsFairService
CHECK_DEADLOCK FALSE
