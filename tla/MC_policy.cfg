SPECIFICATION Spec
CONSTANTS
    Users <- MCUsers
    Tuples <- MCTuples
    Rows <- MCRows
    Numerals <- MCNumerals
    PolicySets <- MCPolicySets
    CacheSeconds = 1
    MaxEvents = 2
INVARIANTS
    TypeOK
    OnlyEntitledIsShown
    FailsClosed
    GrantsTakeEffect
CHECK_DEADLOCK FALSE
