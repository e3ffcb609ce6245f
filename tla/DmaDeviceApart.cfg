SPECIFICATION ClientSpec
CONSTANTS
    t1 = t1
    t2 = t2
    Tasks <- MCTasks
    Uses <- Apart
    NEnts = 2
INVARIANTS TypesOK NoLeak TouchesLive MappingsBacked CleanUnload ProgramsClean
CHECK_DEADLOCK FALSE
