SPECIFICATION FairSpec
CONSTANTS
    BufSize = 2
    Exchanges <- OpenStream
CHECK_DEADLOCK FALSE
PROPERTY
    DoneEnds
