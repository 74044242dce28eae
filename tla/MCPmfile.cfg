CONSTANTS
    Pmfiles <- MCPmfiles
    Upper <- MCUpper
    Selectors <- MCSelectors
    NoNumber = NoNumber
    MaxDepth = 5
CHECK_DEADLOCK FALSE
SPECIFICATION Spec
INVARIANTS
    BuiltAsMeant
    RulesApart
PROPERTIES
    EvaluationEnds
