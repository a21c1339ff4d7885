SPECIFICATION Spec
CONSTANTS
    t1 = t1
    t2 = t2
    t3 = t3
    NoTask = NoTask
    latchLock = latchLock
    latchEvent = latchEvent
    Task = {t1, t2, t3}
    InitialCount = 0
    MaxCount = 2
    Calls = {"wait", "count_down", "set_count"}
    ArmAnyTime = TRUE
    Event <- LatchEvents
    Lock <- LatchLocks
    Cond = {}
    LockOf <- NoLockOf
CHECK_DEADLOCK FALSE
PROPERTY
    PassesAtZero
