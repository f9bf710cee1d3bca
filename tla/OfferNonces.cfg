SPECIFICATION Spec
CONSTANTS
    Handlers = {h1, h2}
    Nonces = {n1, n2}
    t1 = t1
    Transfers = {t1}
    TransferOf <- OfOne
    TicksPerSecond = 2
    Skew = 1
    Retention = 4
    MaxDelay = 2
    MaxTime = 11
SYMMETRY NonceSymmetry
CHECK_DEADLOCK FALSE
INVARIANTS
    AcceptedOnce
    TransferMadeOnce
