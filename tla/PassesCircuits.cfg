CONSTANTS
    Node <- Any
    FirstGate = g
    SecondGate = h
    Aig = FALSE
    Flatten = TRUE
    Unit = TRUE
    VarNames = {x, y}
    GateNames = {g, h, k}
    x = x
    y = y
    g = g
    h = h
    k = k
    GateTypes = {"and", "or"}
    Enumerate = FALSE
    MaxBlocks = 1
    MaxBlockSize = 2
    MaxGates = 3
    MaxArgs = 2
SPECIFICATION Spec
INVARIANTS SimplifyFaithful ReduceFaithful EvalUpAgreesWithEval CutDecides MakePossibleCovers
CONSTRAINT OneFile
CHECK_DEADLOCK FALSE
