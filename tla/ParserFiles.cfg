CONSTANTS
    Node <- Any
    Aig = TRUE
    Flatten = FALSE
    Unit = TRUE
    VarNames = {x, y}
    GateNames = {g, x}
    x = x
    y = y
    g = g
    GateTypes = {"and", "or", "xor", "ite"}
    Enumerate = TRUE
    MaxBlocks = 3
    MaxBlockSize = 2
    MaxGates = 2
    MaxArgs = 3
SPECIFICATION Spec
INVARIANTS PrefixPartition FileMeans
CONSTRAINT GatesAfterOneBlock
CHECK_DEADLOCK FALSE
