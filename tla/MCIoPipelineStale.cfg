SPECIFICATION Spec
CONSTANTS
    BuffSize = 10
    Behind <- MCBehind
    Inputs <- MCStaleInputs
    TOPK = 2
    QueryFiles <- MCQueryFiles
    Concurrency = 2
    MaxChunks = 4
    Reuse = TRUE
    MemsetLate = FALSE
    BlockDim = 2
    Junk = {2, 9}
INVARIANTS
    GlobalTopk
