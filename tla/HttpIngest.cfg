SPECIFICATION HttpSpec
CONSTANTS
    h1 = h1
    h2 = h2
    t1 = t1
    BadItem = BadItem
    NoEvent = NoEvent
    Callers = {h1, h2}
    Types = {t1}
    Event <- Events
    Partitions = {1}
    HashPartition <- SamePartition
    Requests <- MixedRequests
    MaxBatch = 2
    MaxIds = 3
    MaxRetries = 1
    MaxSends = 1
    MaxFailovers = 1
SYMMETRY HandlerSymmetry
INVARIANTS
    HttpTypeOK
    AcceptedDurable
    BatchPrefix
    RefusedStoresNothing
    NoPartialAnswer
CHECK_DEADLOCK FALSE
