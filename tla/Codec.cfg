SPECIFICATION Spec
CONSTANTS
    NULL = NULL
    CharIsSigned = FALSE
    Packets <- MCPackets
    BufferLengths <- MCBufferLengths
    MaxCount = 2
    Topics <- MCTopics
    TopicFilters <- MCTopicFilters
    MaxPackets = 2
INVARIANTS
    TypeOK
    ArrivesAsSent
    FitsBuffer
    RefusedOnlyIfFull
    HandlersAsSubscribed
CHECK_DEADLOCK FALSE
