SPECIFICATION Spec
CONSTANTS
    Threads = {worker, loop, main}
    NofSlots = 2
    NoThread = NoThread
INVARIANTS
    TypeOK
    SeparatePrefixes
    OnePrefix
    OverflowWhenFull
