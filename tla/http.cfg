SPECIFICATION FairSpec
CONSTANTS
    BufSize = 6
    Exchanges <- AllExchanges
CHECK_DEADLOCK FALSE
INVARIANTS
    BodyIsWhatWasSent
    NothingSkipped
    ChunksAsSent
    MessagesAsSent
PROPERTY
    CallEnds
