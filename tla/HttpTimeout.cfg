SPECIFICATION DeadlineSpec
CONSTANTS
    h1 = h1
    h2 = h2
    t1 = t1
    BadItem = BadItem
    NoEvent = NoEvent
    Callers = {h1}
    Types = {t1}
    Event <- Events
    Partitions = {1}
    HashPartition <- SamePartition
    Requests <- MixedRequests
    MaxBatch = 2
    MaxIds = 3
    MaxRetries = 0
    MaxSends = 1
    MaxFailovers = 0
PROPERTIES
    DeadlineStopsBatch
CHECK_DEADLOCK FALSE
