SPECIFICATION Spec
CONSTANTS
    f1 = f1
    f2 = f2
    d1 = d1
    d2 = d2
    NULL = NULL
    MaxFiles = 2
    Files <- TwoFiles
    Order <- FiveThreads
    Data <- TwoObjects
INVARIANT TimerRemoved
\* See ThreadDemos.cfg.
CHECK_DEADLOCK FALSE
