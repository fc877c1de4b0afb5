SPECIFICATION GrpcSpec
CONSTANTS
    h1 = h1
    h2 = h2
    t1 = t1
    t2 = t2
    NilEvent = NilEvent
    NoEvent = NoEvent
    Callers = {h1, h2}
    Types = {t1}
    Event <- Events
    Partitions = {1}
    HashPartition <- SamePartition
    Requests <- BatchRequests
    MaxIds = 3
    MaxRetries = 0
    MaxSends = 2
    MaxFailovers = 1
SYMMETRY HandlerSymmetry
INVARIANTS
    GrpcTypeOK
    ResultsAnswerItems
    BatchEnd
PROPERTIES
    CancelStopsBatch
CHECK_DEADLOCK FALSE
