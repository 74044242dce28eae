CONSTANTS
    Tables = {t1, t2}
    Udatas = {u1, u2}
    Coroutines = {c}
    Closures = {f}
    Upvals = {v}
    Strings = {s}
    Fixed = {}
    Capturing <- MCAllThreads
    Modes <- MCModes
    LateModes = FALSE
    MaxNested = 2
    MaxCollect = 2
    MaxSteps = 7
CHECK_DEADLOCK FALSE
SPECIFICATION Spec
SYMMETRY MCSymmetry
INVARIANT ReachableIsAlive
