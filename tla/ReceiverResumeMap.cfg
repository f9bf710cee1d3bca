SPECIFICATION Spec
CONSTANTS
    c1 = c1
    c2 = c2
    Handlers = {h1}
    NumFiles = 2
    Chunks = {c1, c2}
    FileOf <- TwoFiles
    MayChange = FALSE
    Tokens = {k1}
INVARIANT
    ResumeMapTruthful
