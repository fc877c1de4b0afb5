SPECIFICATION GatewaySpec
CONSTANTS
    h = h
    g = g
    s = s
    t1 = t1
    NoEvent = NoEvent
    Callers = {h, s}
    HttpCallers = {h}
    RpcCallers = {}
    StreamCallers = {s}
    Enabled <- EitherWay
    AgeLimited = {TRUE}
    Impatient = {}
    Types = {t1}
    Event <- OneEvent
    Partitions = {1}
    HashPartition <- OnePartition
    MaxRetries = 1
    MaxSends = 2
    MaxFailovers = 0
    MaxLate = 0
PROPERTIES
    CallsEnd
    CloseCompletes
    ShutdownEnds
CHECK_DEADLOCK FALSE
