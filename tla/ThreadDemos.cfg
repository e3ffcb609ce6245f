SPECIFICATION FairSpec
CONSTANTS
    f1 = f1
    f2 = f2
    d1 = d1
    d2 = d2
    NULL = NULL
    MaxFiles = 2
    Files <- TwoFiles
    Order <- FiveThreads
    Data <- TwoObjects
INVARIANTS TypeOK ThreadsJoined WorkOnLiveItems FlushedWorkDone NothingLeft InitIdle ReadsLiveData LoadedAfterWork
PROPERTIES CallsReturn UnloadReturns TimerGoesOn
\* A demo ends unloaded, or failed to load; the wait queue demo may hang in
\* kthread_stop.
CHECK_DEADLOCK FALSE
