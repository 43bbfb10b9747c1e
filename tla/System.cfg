CONSTANTS
    Cpu = {1, 2}
    NoCpu = 0
    SLock = {1, 2}
    IntrLock = {2}
    CProc = {1, 2}
    NBUF = 3
    DBlock = {1, 2, 3, 4}
    Asks <- MCAsks
    Nested <- MCNested
    WBlock = {1}
    MaxPinned = 1
    PipeWriter = {"v", "w"}
    PipeReader = {"r"}
    NoOne = "none"
    PIPESIZE = 2
    UINT = 4
    Byte = {0, 1}
    Writes <- MCWrites
    ReadLen = 1
    NSH = 4
    NFD = 5
    NPIPES = 2
    MAXARGS = 3
    Commands <- MCCommands
    GBUF = 4
    Patterns <- MCPatterns
    Texts <- MCTexts
SPECIFICATION SysSpec
INVARIANTS
    SpinExclusion
    InterruptsBalanced
    BuffersSound
    SeesLatest
    NoLostWakeup
    Parses
    GrepRight
    LogSound
PROPERTIES
    PipeIsQueue
    IoCompletes
    SleepersWoken
    Prompts
CHECK_DEADLOCK FALSE
