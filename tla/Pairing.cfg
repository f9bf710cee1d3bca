SPECIFICATION Spec
CONSTANTS
    Devices = {a, b}
    Requests = {r1, r2}
    MayRestart = TRUE
    MaxMessages = 1
SYMMETRY PairingSymmetry
CHECK_DEADLOCK FALSE
INVARIANTS
    PendingHasSession
    TrustNeedsBothConfirmations
PROPERTY
    PromiseKept
