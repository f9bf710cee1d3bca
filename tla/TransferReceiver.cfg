SPECIFICATION FairSpec
CONSTANTS
    c1 = c1
    c2 = c2
    Handlers = {h1, h2}
    NumFiles = 2
    Chunks = {c1}
    FileOf <- OneAndEmpty
    MayChange = TRUE
    Tokens = {k1}
INVARIANTS
    IndInv
    NoBytesWithoutConsent
    ChunkRowBacked
    CompletedMeansDelivered
    AllVerifiedBeforeAnyCommit
    DeliveredIsVerifiedInTurn
PROPERTIES
    TerminalIsFinalInTurn
    LifecycleKept
    RequestsReturn
