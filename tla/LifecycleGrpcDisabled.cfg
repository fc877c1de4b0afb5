SPECIFICATION Spec
CONSTANTS
    Enabled <- EitherWay
    AgeLimited <- EitherWay
    MaxHandlers = 2
INVARIANTS
    ServesUntilToldToStop
CHECK_DEADLOCK FALSE
