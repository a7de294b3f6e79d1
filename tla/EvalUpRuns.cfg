CONSTANTS
    Circuits <- Any
    Roots <- TwoRoots
    Node <- MCNode
    Kind <- MCKind
    Ops <- MCOps
    Compl <- MCCompl
SPECIFICATION FairSpec
INVARIANTS ValuesRight NothingMissed AgreesWithCircuit
PROPERTIES Termination
