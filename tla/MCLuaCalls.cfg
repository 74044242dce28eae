CONSTANTS
    Coroutines = {c1, c2}
    LUA_MAXCCALLS = 4
    EXTRACCALLS = 1
    LUA_MAXCALLS = 4
    BASIC_CI_SIZE = 2
    LoadCollects = FALSE
    MaxSteps = 10
CHECK_DEADLOCK FALSE
SPECIFICATION Spec
SYMMETRY MCSymmetry
INVARIANTS
    FrameIsOurs
    CountersKept
    JumpsToProtected
    ReadyToResume
