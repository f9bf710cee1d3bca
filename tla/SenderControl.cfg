SPECIFICATION FairSpec
CONSTANTS
    Workers = {w1}
    Users = {u1}
    NumTransfers = 1
    MaxRequests = 4
    MaxConcurrent = 2
    Chunks = {c1}
    Tokens = {k1, k2, k3, k4, k5}
    MayCrash = FALSE
    MayFail = TRUE
PROPERTIES
    PausedStaysPaused
    CancelledWorkerEnds
CHECK_DEADLOCK FALSE
