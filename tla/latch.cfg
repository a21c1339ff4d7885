SPECIFICATION FairSpec
CONSTANTS
    t1 = t1
    t2 = t2
    t3 = t3
    NoTask = NoTask
    latchLock = latchLock
    latchEvent = latchEvent
    Task = {t1, t2, t3}
    InitialCount = 2
    MaxCount = 3
    Calls = {"wait", "count_down", "countdown_nowait", "set_count"}
    ArmAnyTime = FALSE
    Event <- LatchEvents
    Lock <- LatchLocks
    Cond = {}
    LockOf <- NoLockOf
CHECK_DEADLOCK FALSE
PROPERTIES
    PassesAtZero
    WaitEnds
