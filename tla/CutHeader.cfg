SPECIFICATION Spec
CONSTANTS
    t1 = t1
    Topics = {}
    MaxFaults = 3
    MaxPublish = 3
    InMsgs = {}
    InTopic <- MCNoMap
    InQoS <- MCNoMap
    ServerIds = {}
    ReceiveMaximum = 0
    MayRefuse = TRUE
    MAX_PACKET_ID = 2
    MAX_MESSAGE_HANDLERS = 1
    MAX_INCOMING_QOS2_MESSAGES = 1
    KeepAlive = TRUE
    CharIsSigned = TRUE
    DefaultHandler = TRUE
    ReuseId = FALSE
    CutHeaders = TRUE
    CleanModes <- MCPersistent
INVARIANTS
    ConnectedMeansAccepted
