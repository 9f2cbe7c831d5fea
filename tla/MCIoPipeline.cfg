SPECIFICATION Spec
CONSTANTS
    BuffSize = 10
    Behind <- MCBehind
    Inputs <- MCInputs
    TOPK = 2
    QueryFiles <- MCQueryFiles
    Concurrency = 2
    MaxChunks = 4
    Reuse = FALSE
    MemsetLate = FALSE
    BlockDim = 2
    Junk = {2, 9}
INVARIANTS
    TypeOK
    ChunksAreLines
    GlobalTopk
PROPERTIES
    RunsToEnd
