SPECIFICATION MwSpec
CONSTANTS
    w1 = w1
    w2 = w2
    Workers = {w1, w2}
    Requests <- MixedRequests
    Burst = 2
    Cost = 2
    MaxBytes = 2
    MaxTime = 3
    MaxRequests = 5
SYMMETRY WorkerSymmetry
INVARIANTS
    MwTypeOK
    RateBounded
    MetricsAgree
    OversizeRefused
CHECK_DEADLOCK FALSE
