SPECIFICATION Spec
CONSTANTS
    Workers = {w1, w2}
    Users = {u1}
    NumTransfers = 1
    MaxRequests = 1
    MaxConcurrent = 2
    Chunks = {c1}
    Tokens = {k1, k2, k3, k4, k5}
    MayCrash = TRUE
    MayFail = TRUE
SYMMETRY WorkerSymmetry
INVARIANTS
    SenderInv
    CompletedIsConfirmed
    NoOrphan
