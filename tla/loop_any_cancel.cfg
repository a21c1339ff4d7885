SPECIFICATION FairSpec
CONSTANTS
    t1 = t1
    t2 = t2
    t3 = t3
    e = e
    s = s
    NoTask = NoTask
    NoLock = NoLock
    lock = lock
    cond = cond
    Task = {t1, t2}
    Root = t1
    Event = {e}
    Socket = {s}
    Lock <- OneLock
    Cond <- OneCond
    LockOf <- LockOfCond
    Ops = {"spawn", "join", "create", "cancel", "sleep", "socket", "event", "lock", "condition", "exit"}
    CancelParkedOnly = FALSE
    WaitForSpawned = TRUE
CHECK_DEADLOCK FALSE
INVARIANTS
    TypeOK
    NothingLeftBehind
    NoWaiterOnSetEvent
PROPERTIES
    QueuedIsServed
    FirstCancelReaches
