SPECIFICATION Spec
CONSTANTS
    t1 = t1
    t2 = t2
    t3 = t3
    e = e
    s = s
    NoTask = NoTask
    NoLock = NoLock
    lock = lock
    cond = cond
    Task = {t1, t2}
    Root = t1
    Event = {}
    Socket = {}
    Lock <- OneLock
    Cond <- OneCond
    LockOf <- LockOfCond
    Ops = {"spawn", "cancel", "lock", "condition"}
    CancelParkedOnly = TRUE
    WaitForSpawned = TRUE
CHECK_DEADLOCK FALSE
\* Both are violated; TLC reports the first.  Without it, it reports the second.
INVARIANT
    MutualExclusion
PROPERTY
    AssertionsHold
