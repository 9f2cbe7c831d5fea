SPECIFICATION Spec
CONSTANTS
    Streams = {0, 1, 2, 3}
    BlockDim = 3
    Junk = {2, 3}
    MaxDocSize = 4
    GroupSize = 2
    MaxQuerySize = 4
    TOPK = 2
    Inputs <- MCInputs
INVARIANTS
    TypeOK
    RaceFree
PROPERTIES
    ServiceSpec
