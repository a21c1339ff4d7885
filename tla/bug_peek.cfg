SPECIFICATION Spec
CONSTANTS
    t1 = t1
    t2 = t2
    t3 = t3
    a = a
    b = b
    NoTask = NoTask
    NoItem = NoItem
    queueLock = queueLock
    notEmpty = notEmpty
    notFull = notFull
    Task = {t1, t2, t3}
    Item = {a, b}
    Variants <- Peeked
    MaxCauses = 1
    Event = {}
    Lock <- QueueLocks
    Cond <- QueueConds
    LockOf <- QueueLockOf
CHECK_DEADLOCK FALSE
INVARIANT
    NobodyForgotten
