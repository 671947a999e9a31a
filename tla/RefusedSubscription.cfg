SPECIFICATION Spec
CONSTANTS
    t1 = t1
    Topics <- MCTopics
    MaxFaults = 1
    MaxPublish = 1
    InMsgs <- MCNoMsgs
    InTopic <- MCNoMap
    InQoS <- MCNoMap
    ServerIds = {}
    ReceiveMaximum = 0
    MayRefuse = TRUE
    MAX_PACKET_ID = 2
    MAX_MESSAGE_HANDLERS = 1
    MAX_INCOMING_QOS2_MESSAGES = 1
    KeepAlive = TRUE
    CharIsSigned = TRUE
    DefaultHandler = TRUE
    ReuseId = FALSE
    CutHeaders = FALSE
    CleanModes <- MCAnyClean
PROPERTIES
    HandlerMeansGranted
