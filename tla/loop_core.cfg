SPECIFICATION Spec
CONSTANTS
    t1 = t1
    t2 = t2
    t3 = t3
    e = e
    s = s
    NoTask = NoTask
    NoLock = NoLock
    lock = lock
    cond = cond
    Task = {t1, t2, t3}
    Root = t1
    Event = {e}
    Socket = {s}
    Lock <- OneLock
    Cond <- OneCond
    LockOf <- LockOfCond
    Ops = {"spawn", "join", "cancel", "sleep", "socket", "event", "lock", "condition"}
    CancelParkedOnly = TRUE
    WaitForSpawned = TRUE
CHECK_DEADLOCK FALSE
INVARIANTS
    OnePlace
    InsideOwns
    OwnerWillRelease
    NoWaiterOnFreeLock
PROPERTIES
    FifoHandOver
    ImplementsFutures
