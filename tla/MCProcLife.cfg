SPECIFICATION Spec
CHECK_DEADLOCK FALSE
CONSTANTS
    NPROC = 3
    Handler = {}
    Spinlock <- Locks
    Chan <- Channels
    NFILE = 3
    NOFILE = 2
    PIPESIZE = 2
    CountMod = 4
    Start <- Shell
    Length = {1, 3}
    MaxCalls = 3
INVARIANTS NoLostWakeup RefsCounted PipeOutlivesUsers FreedIsOffCpu
PROPERTIES SleepIsAtomic ImplementsByteStream NobodyStuck
