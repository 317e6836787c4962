SPECIFICATION Spec
CONSTANTS
    NPROC = 2
    CPU <- TwoCpus
    Priorities = {20}
    MaxTicks = 1
    MaxPid = 3
    MaxCalls = 2
INVARIANTS NothingBetterSkipped OneCpuPerProcess ChargedOncePerTick
CHECK_DEADLOCK FALSE
VIEW WithoutRbi
