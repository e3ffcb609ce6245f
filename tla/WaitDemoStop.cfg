SPECIFICATION FairSpec
CONSTANT MaxFiles = 2
PROPERTIES StopReturns
\* A module ends unloaded, or failed to load, or hangs in kthread_stop.
CHECK_DEADLOCK FALSE
