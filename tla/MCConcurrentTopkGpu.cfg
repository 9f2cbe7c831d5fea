SPECIFICATION Spec
CONSTANTS
    Concurrency = 2
    TOPK = 2
    Querys <- MCPlainQuerys
    DocChoices <- MCPlainDocs
    MaxDocs = 3
    Device = "gpu"
INVARIANTS
    GlobalTopk
