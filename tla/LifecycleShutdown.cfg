SPECIFICATION FairSpec
CONSTANTS
    Enabled <- EitherWay
    AgeLimited <- EitherWay
    MaxHandlers = 2
INVARIANTS
    TypeOK
    CloseIsLast
PROPERTIES
    ShutdownEnds
CHECK_DEADLOCK FALSE
