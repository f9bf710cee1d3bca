SPECIFICATION Spec
CONSTANTS
    Transfers = {t1, t2}
    user = user
    MaxSuffix = 2
SYMMETRY TransferSymmetry
INVARIANTS
    DeliveredIsThere
PROPERTY
    KeepBothKeeps
