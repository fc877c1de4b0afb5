SPECIFICATION Spec
CONSTANTS
    Enabled <- EitherWay
    AgeLimited <- EitherWay
    MaxHandlers = 2
INVARIANTS
    RPCsDrained
CHECK_DEADLOCK FALSE
