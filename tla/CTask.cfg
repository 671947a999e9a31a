SPECIFICATION FairSpec
CONSTANTS
    t1 = t1
    a1 = a1
    a2 = a2
    task = task
    none = none
    Topics <- MCTopics
    MaxFaults = 1
    MaxPublish = 2
    InMsgs <- MCOneMsg
    InTopic <- MCOneTopic
    InQoS <- MCAllQoS2
    ServerIds <- MCServerIds
    ReceiveMaximum = 1
    MayRefuse = TRUE
    MAX_PACKET_ID = 1
    MAX_MESSAGE_HANDLERS = 1
    CharIsSigned = TRUE
    CleanModes <- MCClean
    KeepAlives = {FALSE}
    TaskModes <- MCAnyBuild
    Apps <- MCTwoApps
    Connector = a1
    Task = task
    NoOne = none
INVARIANTS
    TypeOK
    SucceededWasReceived
PROPERTIES
    MessagesReachHandlers
    CallsReturn
