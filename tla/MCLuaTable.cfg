CONSTANTS
    Keys <- MCKeys
    Values <- MCValues
    WeakValues <- MCWeakValues
    Hash <- MCHash
    Weak = TRUE
    MAXBITS = 3
SPECIFICATION Spec
INVARIANTS
    WellFormed
PROPERTIES
    IsMap
    TraversalEnds
