SPECIFICATION Spec
CONSTANTS
    Capacity = 4
    Tokens <- MCTokensWithZero
    MaxQuery = 4
    MaxDistinct = 3
INVARIANTS
    LookupExact
