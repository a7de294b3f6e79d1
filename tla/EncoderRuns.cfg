CONSTANTS
    Node <- Any
    Sats <- Any
    Aig = FALSE
    Flatten = TRUE
    Unit = TRUE
    Builds <- MCBuilds
    Variables = {1, 3}
    Constraints <- MCConstraints
    MaxConstraints = 3
SPECIFICATION Spec
INVARIANTS ClausesFaithful ConstrsFaithful NumbersApart AnswerDecoded
