------------------------------- MODULE Passes -------------------------------
(***************************************************************************)
(* What the passes over circuits promise, stated of every circuit the      *)
(* parser can make: Reduce, Simplify, EvalUp against Eval, FindCut and     *)
(* MakePossible; and the two passes the authors keep beside the ones the   *)
(* solver calls, to compare them with.                                     *)
(***************************************************************************)
EXTENDS Parser

-----------------------------------------------------------------------------
Moves(S) == {{Literal(v, e[v]) : v \in S} : e \in [S -> BOOLEAN]}
Substitutions == UNION {Moves(S) : S \in SUBSET Declared}

(* An assignment with some variables put to what a substitution says.      *)
Under(e, sub) ==
    [v \in Declared |-> IF Assigns(sub, Literal(v, TRUE)) THEN Literal(v, TRUE) \in sub ELSE e[v]]

(* The literal, a node or its negation, that is true for a known value.    *)
TrueOf(n, vals) == IF EvalUp(n, vals) = "TRUE" THEN n ELSE MakeNot(n)

(* FindCutNoRec: the cut by a work list, every node once.  On the list are *)
(* the node and the operands of the unknown nodes popped, and a node that  *)
(* was seen is skipped; the order of the list does not show in a set.      *)
Todo(n, seen, vals) ==
    ({n} \cup UNION {Children(s) : s \in {s \in seen : EvalUp(s, vals) = Undefined}}) \ seen
FindCutNoRec(n, vals) ==
    LET cut[seen \in SUBSET SubNodes(n)] ==
            IF Todo(n, seen, vals) = {} THEN {}
            ELSE LET top == CHOOSE s \in Todo(n, seen, vals) : TRUE
                     rest == cut[seen \cup {top}]
                 IN  IF EvalUp(top, vals) # Undefined THEN {TrueOf(top, vals)} \cup rest
                     ELSE rest
    IN  cut[{}]

(* DbgCmpEval: the two evaluations agree on a node and all below it.       *)
CmpEval(n, vals) == \A s \in SubNodes(n) : EvalUp(s, vals) = Eval(s, vals)

Sides(n) == SubNodes(n) \cup {MakeNot(s) : s \in SubNodes(n)}

-----------------------------------------------------------------------------
(* Simplify changes nothing but the form: also when the SAT solver has     *)
(* fixed nodes, as long as those hold.                                     *)
SimplifyFaithful ==
    \A fixed \in {{}} \cup {{s} : s \in Sides(last_id)} :
        \A e \in Assignments :
            (\A s \in fixed : Holds(s, e)) =>
                Holds(Simplify(last_id, fixed), e) = Holds(last_id, e)

(* Reduce puts the values into the circuit, and leaves none of the         *)
(* variables it puts in.                                                   *)
ReduceFaithful ==
    \A sub \in Substitutions :
        \A r \in {Reduce(last_id, sub)} :
            /\ \A v \in VarsOf(r) : ~ Assigns(sub, Literal(v, TRUE))
            /\ \A e \in Assignments : Holds(r, e) = Holds(last_id, Under(e, sub))

(* EvalUp is right wherever it has a value, and has one wherever Eval has, *)
(* except where a constant is an operand.                                  *)
EvalUpAgreesWithEval ==
    \A sub \in Substitutions :
        \A n \in SubNodes(last_id) :
            /\ EvalUp(n, sub) \in {Undefined, Eval(n, sub)}
            /\ EvalUp(n, sub) # Undefined =>
                \A e \in Assignments : Holds(n, Under(e, sub)) = (EvalUp(n, sub) = "TRUE")
            /\ (\A s \in SubNodes(n) : ~ IsConst(s)) => CmpEval(n, sub)

(* The cut is true under the moves, and the moves are not needed once the  *)
(* cut is true: it decides the circuit just as they do.  The recursive cut *)
(* and the one with a work list are the same, but for the constant TRUE.   *)
CutDecides ==
    \A sub \in Substitutions :
        \A cut \in {FindCut(last_id, sub)} :
            /\ FindCutNoRec(last_id, sub) \ {TrueNode} = cut \ {TrueNode}
            /\ \A e \in Assignments :
                /\ \A n \in cut : Holds(n, Under(e, sub))
                /\ (\A n \in cut : Holds(n, e)) =>
                        Holds(last_id, e) = Holds(last_id, Under(e, sub))

(* MakePossible never excludes a position too many: whatever assignment    *)
(* gives the circuit the wanted value, with the opponent's moves as they   *)
(* were, satisfies it; and it speaks of the variables of dom only.         *)
MakePossibleCovers ==
    \A dom \in SUBSET Declared, wanted \in BOOLEAN :
        \A opp \in UNION {Moves(S) : S \in SUBSET (Declared \ dom)} :
            \A p \in {MakePossible(last_id, wanted, dom, opp)} :
                /\ VarsOf(p) \subseteq dom
                /\ \A e \in Assignments : Holds(last_id, Under(e, opp)) = wanted => Holds(p, e)
=============================================================================
