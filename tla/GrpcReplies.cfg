SPECIFICATION StreamSpec
CONSTANTS
    h1 = h1
    h2 = h2
    t1 = t1
    t2 = t2
    NilEvent = NilEvent
    NoEvent = NoEvent
    Callers = {h1}
    Types = {t1, t2}
    Event <- Events
    Partitions = {1, 2}
    HashPartition <- SplitPartition
    Requests <- AnyRequest
    Scripts <- StreamScripts
    Window = 1
    MaxIds = 4
    MaxRetries = 1
    MaxSends = 2
    MaxFailovers = 1
INVARIANTS
    OffsetsFollowBatch
    RepliesCanBeCounted
    AcksInOrder
PROPERTIES
    RPCEnds
    StreamEnds
CHECK_DEADLOCK FALSE
