CONSTANTS
    MAXSTACK = 20
    MAXARG_C = 24
    LFIELDS_PER_FLUSH = 2
    StackSize = 40
    MAXTAGLOOP = 2
    MaxSteps = 250
    Programs <- MCPrograms
    Codes <- MCCodes
    Meanings <- MCMeanings
    Precompiled <- MCPrecompiled
    Strings <- MCStrings
SPECIFICATION Spec
INVARIANTS
    
    CompilesChecked
    PrecompiledIsSame
    VmConsistent
