SPECIFICATION Spec
CONSTANTS
    BlockDim = 2
    MaxDocSize = 4
    GroupSize = 2
    Inputs <- MCInputs
    Junk <- MCJunk
INVARIANTS
    TypeOK
    SharedHoldsQuery
    ScoredOnce
    ScoresAreTheLoaded
    LoadedMatchReadme
PROPERTIES
    KernelEnds
