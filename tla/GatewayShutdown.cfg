SPECIFICATION GatewaySpec
CONSTANTS
    h = h
    g = g
    s = s
    t1 = t1
    NoEvent = NoEvent
    Callers = {h, g, s}
    HttpCallers = {h}
    RpcCallers = {g}
    StreamCallers = {s}
    Enabled <- EitherWay
    AgeLimited = {TRUE}
    Impatient = {g, s}
    Types = {t1}
    Event <- OneEvent
    Partitions = {1}
    HashPartition <- OnePartition
    MaxRetries = 0
    MaxSends = 2
    MaxFailovers = 0
    MaxLate = 0
INVARIANTS
    OnlyAbandonedPanic
    ExitAbandonsNoCall
CHECK_DEADLOCK FALSE
