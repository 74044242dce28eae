\* Every pattern of up to four pieces with every subject of up to three characters.
CONSTANTS
    Chars = {"a", "1"}
    MaxSubject = 3
    Items <- MCItems
    MaxItems = 4
    MAX_CAPTURES = 2
SPECIFICATION Spec
CHECK_DEADLOCK FALSE
INVARIANTS
    FindsAsMeant
    GsubVisitsAll
