SPECIFICATION FairSpec
CONSTANTS
    t1 = t1
    Topics <- MCTopics
    MaxFaults = 1
    MaxPublish = 0
    InMsgs <- MCOneMsg
    InTopic <- MCOneTopic
    InQoS <- MCAllQoS2
    ServerIds <- MCServerIds
    ReceiveMaximum = 1
    MayRefuse = FALSE
    MAX_PACKET_ID = 2
    MAX_MESSAGE_HANDLERS = 1
    MAX_INCOMING_QOS2_MESSAGES = 2
    KeepAlive = TRUE
    CharIsSigned = TRUE
    DefaultHandler = TRUE
    ReuseId = FALSE
    CutHeaders = FALSE
    CleanModes <- MCPersistent
PROPERTIES
    DeliveredOnceInTheEnd
