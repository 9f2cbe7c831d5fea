SPECIFICATION Spec
CONSTANTS
    Capacity = 4
    Tokens <- MCTokens
    MaxQuery = 4
    MaxDistinct = 4
PROPERTIES
    LookupsEnd
