------------------------------ MODULE MCEvalUp ------------------------------
(* EvalUpCircuit for two constraints.                                      *)
EXTENDS EvalUpCircuit, TLC

CONSTANTS Roots   \* the constraints

P(v) == C!Literal(v, TRUE)
M(v) == C!Literal(v, FALSE)

\* a gate that another gate and a negation share; a gate of three operands,
\* so that a witness can move twice, one of them a constant
Both == C!MakeAnd({P(1), P(2)})
TwoRoots == {C!MakeOr({Both, M(1), C!FalseNode}), C!MakeAnd({C!MakeNot(Both), P(2)})}

MCNode == LET inside == UNION {C!SubNodes(r) : r \in Roots}
          IN  inside \cup {C!Complement(n) : n \in {n \in inside : C!Type(n) = "LITERAL"}}
MCKind == [n \in MCNode |-> IF C!IsConst(n) THEN "CONST" ELSE C!Type(n)]
MCOps  == [n \in MCNode |->
            CASE C!Type(n) \in {"AND", "OR"} -> C!Operands(n)
              [] C!Type(n) = "NEGATION" -> {C!Operand(n)}
              [] OTHER -> {}]
MCCompl == [n \in {n \in MCNode : C!Type(n) = "LITERAL"} |-> C!Complement(n)]
=============================================================================
