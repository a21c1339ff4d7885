SPECIFICATION FairSpec
CONSTANTS
    n1 = n1
    n2 = n2
    n3 = n3
    Main = Main
    NoTask = NoTask
    None = None
    queueLock = queueLock
    notEmpty = notEmpty
    notFull = notFull
    Node = {n1, n2, n3}
    Generator = {n1, n2}
    Flows <- SomeFlows
    Orders <- AnyOrder
    Slow = {n2, n3}
    Limit = 3
    MaxChunks = 3
    Stubborn = {}
    Terse = {}
    Unsummed = {}
    Unfed = {}
    Event = {}
    Lock <- FlowLocks
    Cond <- FlowConds
    LockOf <- FlowLockOf
    Task <- FlowTasks
CHECK_DEADLOCK FALSE
INVARIANTS
    CountersExact
    NoConsumerForgotten
    EveryChunkRead
PROPERTIES
    ChunksInOrder
    FlowEnds
