CONSTANTS
    Node <- Any
    Aig = FALSE
    Flatten = FALSE
    Unit = TRUE
    SimplifyOn = TRUE
    RootFacts = FALSE
    Full = TRUE
    SimpleCut = FALSE
    LubyRestart = FALSE
    Enumerate = TRUE
    HasFree = FALSE
    RestartFirst = 100
    FreeVars = {}
    Prefix <- PrefixAE
    Outputs <- Tautology
SPECIFICATION Spec
INVARIANTS BlockHasModel
