\* Five elements take sort through a partition and a recursive call.
CONSTANTS
    Values = {1, 2, 3}
    AnyValues = {1, 2}
    MaxSize = 5
SPECIFICATION Spec
INVARIANTS
    SortSorts
    NothingLost
    StaysInside
    DepthIsLogarithm
PROPERTIES
    IsList
    SortEnds
CHECK_DEADLOCK FALSE
