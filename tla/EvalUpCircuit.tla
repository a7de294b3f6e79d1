---------------------------- MODULE EvalUpCircuit ----------------------------
(***************************************************************************)
(* EvalUp on the nodes of circuits, and the evaluation it implements.      *)
(***************************************************************************)
EXTENDS EvalUp

CONSTANTS Circuits   \* all circuits; nothing here enumerates them

C == INSTANCE Circuit WITH Node <- Circuits, Aig <- FALSE, Flatten <- FALSE, Unit <- TRUE

ASSUME CircuitsAssumption ==
    /\ Node \subseteq Circuits
    /\ Kind = [n \in Node |-> IF C!IsConst(n) THEN "CONST" ELSE C!Type(n)]
    /\ Ops = [n \in Node |-> C!Children(n)]
    /\ Compl = [l \in Lit |-> C!Complement(l)]

(* What EvalUp answers is the function of the circuit and the assumptions  *)
(* that Circuit defines, whatever the order of the run and wherever the    *)
(* runs before left the witnesses.                                         *)
Answer(n) == IF n \in DOMAIN vals THEN C!ValueOf(vals[n]) ELSE C!Undefined
AgreesWithCircuit ==
    was_run /\ stage = "idle" =>
        \A n \in seen : ~ C!IsConst(n) => Answer(n) = C!EvalUp(n, assumptions)
=============================================================================
