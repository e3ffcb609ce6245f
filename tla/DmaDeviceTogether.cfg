SPECIFICATION ClientSpec
CONSTANTS
    t1 = t1
    t2 = t2
    Tasks <- MCTasks
    Uses <- Together
    NEnts = 2
INVARIANT CleanUnload
CHECK_DEADLOCK FALSE
