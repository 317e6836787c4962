SPECIFICATION Spec
CHECK_DEADLOCK FALSE
CONSTANTS
    NPROC = 3
    Handler <- Handlers
    Spinlock <- Locks
    Slock <- SleepLocks
    Chan <- Channels
    NUM = 8
    IdxMod = 8
    Buf <- Buffers
    Block <- BlockNumbers
    Value <- Values
    LockOf <- BufferLock
    BootCache <- Boot
    BootOrder <- Order
    Plan <- Plans
    Killable = {1}
    MaxPinned = 1
INVARIANTS  DescriptorsAccounted
PROPERTIES ImplementsBlocks CallsReturn
