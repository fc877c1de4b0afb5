SPECIFICATION Spec
CONSTANTS
    Enabled <- EitherWay
    AgeLimited <- EitherWay
    MaxHandlers = 2
INVARIANTS
    ShutdownTimesOut
CHECK_DEADLOCK FALSE
