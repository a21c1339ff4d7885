SPECIFICATION Spec
CONSTANTS
    Main = Main
    NoTask = NoTask
    None = None
    queueLock = queueLock
    notEmpty = notEmpty
    notFull = notFull
    Node = {"far", "near", "side", "user", "s1", "s2", "s3", "s4"}
    Generator = {}
    Flows <- TwoPaths
    Orders <- Listed
    Slow = {}
    Limit = 3
    MaxChunks = 0
    Stubborn = {}
    Terse = {}
    Unsummed = {}
    Unfed = {}
    Event = {}
    Lock <- FlowLocks
    Cond <- FlowConds
    LockOf <- FlowLockOf
    Task <- FlowTasks
CHECK_DEADLOCK FALSE
INVARIANTS
    SameNumberOfRuns
