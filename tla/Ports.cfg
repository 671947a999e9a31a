SPECIFICATION FairSpec
CONSTANTS
    Ports <- MCPorts
    Streams <- MCStreams
    Starts <- MCStarts
    Base = 3
    MAX_MQTT_PACKET_SIZE = 7
    max_tries = 2
    Timeout = 2
    ClockSize = 22
    SendLength = 2
    MaxCalls = 2
    Horizon = 9
INVARIANTS
    TypeOK
    ReadIntact
    SentIsWritten
    TimerTellsTime
    InTime
PROPERTIES
    ReadsPackets
    ReadReturns
CHECK_DEADLOCK FALSE
