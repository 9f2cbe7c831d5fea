SPECIFICATION Spec
CONSTANTS
    BlockDim = 2
    MaxDocSize = 4
    GroupSize = 2
    Inputs <- MCRepeatedInputs
    Junk <- MCJunk
INVARIANTS
    ScoresMatchReadme
