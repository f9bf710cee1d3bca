SPECIFICATION Spec
CONSTANTS
    Workers = {w1, w2, w3, w4}
    Users = {}
    NumTransfers = 3
    MaxRequests = 0
    MaxConcurrent = 2
    Chunks = {c1}
    Tokens = {k1, k2, k3, k4, k5, k6, k7, k8, k9, k10}
    MayCrash = FALSE
    MayFail = FALSE
SYMMETRY WorkerSymmetry
INVARIANT
    ConcurrencyLimit
CHECK_DEADLOCK FALSE
