SPECIFICATION Spec
CONSTANTS
    Ids = {i1, i2}
    Keys = {k1, k2}
    none = none
    Names = {n1, n2}
    MaxPolicy = 2
    unset = unset
    Handlers = {h1, h2}
    HostName = n1
    MaxRequests = 2
INVARIANTS
    IdentityIsPermanent
    StartIsNeverRefused
    NothingRunsUnaccepted
    NoLostWakeup
    StaleNameIsDue
    NamesAgreeInTurn
    RuntimeInv
PROPERTY PromiseKept
