SPECIFICATION Spec
CONSTANTS
    Concurrency = 2
    TOPK = 2
    Querys <- MCQuerys
    DocChoices <- MCDocs
    MaxDocs = 6
    Device = "cpu"
INVARIANTS
    TypeOK
    ChunksPartition
    ReduceInRange
    GlobalTopk
PROPERTIES
    RunsToEnd
