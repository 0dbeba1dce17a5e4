SPECIFICATION Spec
CONSTANTS
    t1 = t1  t2 = t2  a = a  b = b  c1 = c1  c2 = c2
    Threads <- MCThreads
    Names <- MCNames
    Contexts <- MCContexts
    Commands <- CommandKinds
    Faults <- MCFaults
    NoThread = NoThread
    NoName = NoName
    Lost = Lost
SYMMETRY Symmetry
INVARIANTS
    TypeOK
    MutualExclusion
    
    TransactionsEndOnce
    LocksGivenBack
    OnlySwapsDeadlock
CHECK_DEADLOCK FALSE
