SPECIFICATION FairSpec
CONSTANTS
    t1 = t1
    Topics <- MCNoMsgs
    MaxFaults = 3
    MaxPublish = 2
    InMsgs <- MCNoMsgs
    InTopic <- MCNoMap
    InQoS <- MCNoMap
    ServerIds <- MCServerIds
    ReceiveMaximum = 1
    MayRefuse = TRUE
    MAX_PACKET_ID = 2
    MAX_MESSAGE_HANDLERS = 1
    MAX_INCOMING_QOS2_MESSAGES = 2
    KeepAlive = FALSE
    CharIsSigned = TRUE
    DefaultHandler = TRUE
    ReuseId = FALSE
    CutHeaders = FALSE
    CleanModes <- MCAnyClean
INVARIANTS
    ConnectedMeansAccepted
    ConnectedMeansNothingStored
PROPERTIES
    CallsReturn
    StoredIsReceived
