CONSTANTS
    BProc = {1}
    Inode = {1}
    Opens <- OneFile
    NBLOCKS = 16
    NDIRECT = 12
    NINDIRECT = 128
    BSIZE = 1
    LOGSIZE = 30
    MAXOPBLOCKS = 10
    Lengths = {13}
    MaxCalls = 1
SPECIFICATION BSpec
INVARIANT OpBlocksFit
CHECK_DEADLOCK FALSE
