CONSTANTS
    FsProc = {"p", "q"}
    Parent = "p"
    NINODES = 9
    NINODE = 6
    NFILE = 2
    NOFILE = 2
    Image <- MkfsImage
    Programs <- MCPrograms
    BProc = {1, 2}
    Inode = {1, 2}
    Opens <- MCOpens
    NBLOCKS = 6
    NDIRECT = 1
    NINDIRECT = 2
    BSIZE = 2
    LOGSIZE = 6
    MAXOPBLOCKS = 2
    Lengths = {1, 4}
    MaxCalls = 2
    VProc = {1, 2}
    VInitProc = 1
    NFRAME = 13
    NENTRIES = 3
    PGSIZE = 2
    VWRAP = 100
    Images <- MCImages
    Sbrks <- MCSbrks
    CReader = {1, 2}
    Nobody = 0
    INPUT_BUF = 2
    CUINT = 4
    CLen = 2
    ROWS = 3
    COLS = 1
    HDR = 8
    MINCORE = 3
    MAXUNITS = 11
    Requests = {0, 1, 16}
    FSSIZE = 17
    MkBSIZE = 2
    MkNDIRECT = 1
    MkNINDIRECT = 2
    MkNINODES = 4
    MkLOGSIZE = 1
    IPB = 2
    NARGS = 2
    Byte = {1, 2}
    NCPU = 3
    LowFrames = 4
    HighFrames = 4
SPECIFICATION StoreSpec
INVARIANTS
    RefsExact
    InUseNotFree
    NoInodeDeadlock
    TestsPass
    BlocksOwned
    ReadsBack
    PagesAccounted
    SizeMapped
    ConsoleSound
    HeapSound
    ImageSound
    BootSound
PROPERTIES
    ConsoleIsLines
CHECK_DEADLOCK FALSE
