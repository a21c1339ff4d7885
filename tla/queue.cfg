SPECIFICATION FairSpec
CONSTANTS
    t1 = t1
    t2 = t2
    t3 = t3
    a = a
    b = b
    NoTask = NoTask
    NoItem = NoItem
    queueLock = queueLock
    notEmpty = notEmpty
    notFull = notFull
    Task = {t1, t2, t3}
    Item = {a, b}
    Variants <- AllVariants
    MaxCauses = 2
    Event = {}
    Lock <- QueueLocks
    Cond <- QueueConds
    LockOf <- QueueLockOf
CHECK_DEADLOCK FALSE
INVARIANTS
    OwnsInside
    NoGetterForgotten
    NoPutterForgotten
    EachItemOnce
    MapAgrees
PROPERTIES
    ImplementsBoundedQueue
    ClosedEndsCalls
    LockServed
