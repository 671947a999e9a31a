SPECIFICATION Spec
CONSTANTS
    a = a
    b = b
    NoClient = NoClient
    Clients = {a}
    Interval <- One
    Language = "C++"
    MaxYield = 2
    MaxIdle = 1
    Latency = 2
    MaxUnread = 2
    Horizon = 14
INVARIANTS
    TypeOK
    LiveIsKept
    DeadIsNoticed
    HeardInTime
PROPERTIES
    AnswerHasAnInterval
