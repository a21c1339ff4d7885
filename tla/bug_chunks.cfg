SPECIFICATION Spec
CONSTANTS
    BufSize = 20
    Exchanges <- OneStream
CHECK_DEADLOCK FALSE
INVARIANT
    EveryChunk
