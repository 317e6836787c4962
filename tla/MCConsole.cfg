SPECIFICATION Spec
CHECK_DEADLOCK FALSE
CONSTANTS
    NPROC = 2
    Handler <- Handlers
    Spinlock <- Locks
    Chan <- Channels
    INPUT_BUF_SIZE = 3
    UART_TX_BUF_SIZE = 2
    IdxMod = 6
    FifoSize = 2
    Script <- Scripts
    Killable = {1}
INVARIANTS OutputInOrder
PROPERTIES ImplementsLineInput NothingLeftWaiting
