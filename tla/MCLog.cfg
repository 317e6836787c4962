SPECIFICATION Spec
CONSTANTS
    Proc = {p1, p2, p3}
    Block = {b1, b2}
    Value = {0, 1}
    None = None
    LOGSIZE = 4
    MAXOPBLOCKS = 2
    nlog = 4
    MaxOps = 3
    MaxCrash = 2
INVARIANTS ReturnedMeansDurable SleeperHasWaker 
PROPERTIES ImplementsAtomicDisk
CHECK_DEADLOCK FALSE
