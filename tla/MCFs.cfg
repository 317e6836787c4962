SPECIFICATION Spec
CONSTANTS
    NPROC = 2
    NFILE = 2
    NINODE = 5
    NINODES = 5
    FSSIZE = 10
    nmeta = 1
    NDIRECT = 1
    NINDIRECT = 3
    BSIZE = 2
    IPB = 1
    MAXOPBLOCKS = 6
    LOGSIZE = 12
    Files <- FilesAtBoot
    Made <- MadeAtBoot
    Shared = {TRUE, FALSE}
    Plan <- Plans
    MaxCrashes = 1
INVARIANTS TableFaithful BlocksAccounted OpFitsReservation FsckClean NoPanic NobodyStuck
