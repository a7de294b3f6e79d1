CONSTANTS
    Node <- Any
    Aig = TRUE
    Flatten = TRUE
    Unit = TRUE
    SimplifyOn = FALSE
    RootFacts = FALSE
    Full = FALSE
    SimpleCut = TRUE
    LubyRestart = TRUE
    Enumerate = FALSE
    HasFree = FALSE
    RestartFirst = 2
    FreeVars = {}
    Prefix <- PrefixGaps
    Outputs <- Muxes
SPECIFICATION Spec
INVARIANTS ConstraintsInScope AnswerCorrect
PROPERTIES ImplementsCegar
