SPECIFICATION Spec
CONSTANTS
    Capacity = 4
    Tokens <- MCTokens
    MaxQuery = 4
    MaxDistinct = 3
INVARIANTS
    TypeOK
    OneCellPerKey
    Reachable
    CellsAgree
    LookupExact
PROPERTIES
    CellsKept
    InsertionsEnd
    LookupsEnd
