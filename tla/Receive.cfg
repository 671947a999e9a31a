SPECIFICATION Spec
CONSTANTS
    t1 = t1
    Topics <- MCTopics
    MaxFaults = 3
    MaxPublish = 0
    InMsgs <- MCTwoMsgs
    InTopic <- MCOneTopic
    InQoS <- MCAllQoS2
    ServerIds <- MCServerIds
    ReceiveMaximum = 2
    MayRefuse = FALSE
    MAX_PACKET_ID = 2
    MAX_MESSAGE_HANDLERS = 1
    MAX_INCOMING_QOS2_MESSAGES = 2
    KeepAlive = FALSE
    CharIsSigned = TRUE
    DefaultHandler = TRUE
    ReuseId = FALSE
    CutHeaders = FALSE
    CleanModes <- MCPersistent
INVARIANTS
    AcknowledgedWasDelivered
PROPERTIES
    DeliveredOnce
