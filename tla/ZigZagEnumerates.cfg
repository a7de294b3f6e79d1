CONSTANTS
    Node <- Any
    Aig = FALSE
    Flatten = FALSE
    Unit = TRUE
    SimplifyOn = TRUE
    RootFacts = TRUE
    Full = TRUE
    SimpleCut = FALSE
    LubyRestart = FALSE
    Enumerate = TRUE
    HasFree = TRUE
    RestartFirst = 100
    FreeVars = {5}
    Prefix <- PrefixEAEA
    Outputs <- DeepMuxes
SPECIFICATION FairSpec
INVARIANTS TrailMatchesVals CutFaithful EnumerationExact PrintedMoveWins
PROPERTIES Termination
