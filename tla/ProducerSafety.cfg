SPECIFICATION Spec
CONSTANTS
    c1 = c1
    c2 = c2
    t1 = t1
    NoEvent = NoEvent
    Callers = {c1, c2}
    Types = {t1}
    Event <- SameType
    Partitions = {1}
    HashPartition <- SamePartition
    MaxRetries = 1
    MaxSends = 1
    MaxFailovers = 1
SYMMETRY CallerSymmetry
INVARIANTS
    TypeOK
    AckedDurable
    OnlyAdmittedStored
    CopiesBounded
    OneRecordPerCall
PROPERTIES
    ImplementsAtLeastOnce
CHECK_DEADLOCK FALSE
