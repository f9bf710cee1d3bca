SPECIFICATION Spec
CONSTANTS
    Uploads = {u1, u2}
    Managers = {m1, m2}
    Cleaner = cleaner
    Paths = {a, b}
SYMMETRY StagingSymmetry
CONSTRAINT Promised
VIEW PromisedView
INVARIANTS
    ActiveIsExact
    PromotedIsComplete
    AcknowledgedKept
PROPERTY
    PromotedOnce
