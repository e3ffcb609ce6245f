SPECIFICATION FairSpec
CONSTANTS
    Head = Head
    Nil = Nil
    OwnLock = OwnLock
    OtherLock = OtherLock
    Sleepers = {s1, s2, s3}
    Wakers = {w}
    RemoveLock = OwnLock
INVARIANTS Ring WalkIsSafe
PROPERTIES ImplementsQueue WalkEnds
