SPECIFICATION FairSpec
CONSTANTS
    n1 = n1
    n2 = n2
    n3 = n3
    Main = Main
    NoTask = NoTask
    queueLock = queueLock
    notEmpty = notEmpty
    notFull = notFull
    Node = {n1, n2, n3}
    Flows <- SmallFlows
    Orders <- AnyOrder
    Slow = {n1, n2, n3}
    Limit = 3
    None = None
    Generator = {}
    MaxChunks = 0
    Stubborn = {}
    Terse = {}
    Unsummed = {}
    Unfed = {}
    Event = {}
    Lock <- FlowLocks
    Cond <- FlowConds
    LockOf <- FlowLockOf
    Task <- FlowTasks
CHECK_DEADLOCK FALSE
INVARIANTS
    TypeOK
    EveryNodeRuns
    RunsOnce
    InputsAreFresh
PROPERTIES
    FlowEnds
