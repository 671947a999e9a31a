SPECIFICATION FairSpec
CONSTANTS
    Base = 2
    BufLen = 8
    MaxConnections = 1
    Streams <- MCStreams
INVARIANTS
    TypeOK
    InFrame
    OnlyRealErrors
PROPERTIES
    WholePackets
    AllReturned
CHECK_DEADLOCK FALSE
