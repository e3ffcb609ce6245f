SPECIFICATION Spec
CONSTANTS
    t1 = t1
    t2 = t2
    f1 = f1
    f2 = f2
    NULL = NULL
    Tasks <- TwoTasks
    \* The indices of the kfifo wrap around after four bytes.
    FifoSize = 2
    FifoModulus = 4
    DemoBytes = 1
    FifoBytes = 5
    ProcSize = 3
    MaxWrites = 2
    Files <- TwoFiles
    Users <- UsersOfFiles
    DeviceNum = 2
    MemSize = 2
    UintModulus = 4
    MaxDrift = 1
    Demos <- TwoTasks
    Base = t1
    Majors <- TwoMajors
    HighMem = TRUE
    MaxLost = 2
    MaxCalls = 2
    MaxFiles = 2
    MaxBinds = 2
    SIZE = 1
    Byte <- OneByte
    MaxCount = 1
    CallsOf <- ReadOrWrite
    MaxOpens = 4
    MaxLoads = 2
    MaxOpened = 4
    ArmTasks <- OneTask
    NEnts = 2
    Uses0 <- FirstMinor
    Uses1 <- SecondMinor
INVARIANTS TypeOK StructuresSound DriversSound InOwnMemory NothingLeft
\* A demo ends unloaded, failed to load, or halted; a task of 4.fifo may keep the
\* spin lock, or be dead.
CHECK_DEADLOCK FALSE
