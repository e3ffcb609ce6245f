SPECIFICATION Spec
CONSTANTS
    Head = Head
    Nil = Nil
    OwnLock = OwnLock
    OtherLock = OtherLock
    Sleepers = {s1, s2, s3}
    Wakers = {w}
    RemoveLock = OtherLock
INVARIANTS WakesAll
\* A walk that runs off the list ends in an oops: there the task stops.
CHECK_DEADLOCK FALSE
