CONSTANTS
    Var <- VarEAE
    N = 3
    QLev <- QLevEAE
    QType <- TypesEAE
    Full = TRUE
    MayRestart = TRUE
    Enumerate = TRUE
    Project = {"f"}
SPECIFICATION FairSpec
INVARIANTS AbstractionSound VerdictSound ReportedMovesWin
PROPERTIES LearningShrinks Termination
