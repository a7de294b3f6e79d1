------------------------------- MODULE EvalUp -------------------------------
(***************************************************************************)
(* EvalUp (eval_up.cpp): the evaluation of a level's constraints from the  *)
(* inputs up, which is kept from one call of the solver to the next.       *)
(*                                                                         *)
(* A gate gets a value from a single operand that decides it, found        *)
(* through the inverted graph, or when all of its operands have the other  *)
(* value.  For the latter every gate is watched at one operand, its        *)
(* witness: only when the witness gets that value another witness is       *)
(* looked for.  Witnesses stay where the last run left them.               *)
(*                                                                         *)
(* The order in which pending nodes are taken and operands are stored      *)
(* depends on hashes and indices; it is left open.                         *)
(***************************************************************************)
EXTENDS Integers, FiniteSets, Functions

CONSTANTS
    Node,   \* the nodes of the constraints
    Kind,   \* their types; both constants are of kind "CONST"
    Ops,    \* the operands of gates and negations
    Compl   \* the complement of a literal, make_lit(~l)

Lit  == {n \in Node : Kind[n] = "LITERAL"}
Neg  == {n \in Node : Kind[n] = "NEGATION"}
Gate == {n \in Node : Kind[n] \in {"AND", "OR"}}

ASSUME KindAssumption == Kind \in [Node -> {"CONST", "LITERAL", "NEGATION", "AND", "OR"}]
ASSUME OpsAssumption ==
    /\ Ops \in [Node -> SUBSET Node]
    /\ \A n \in Gate : Ops[n] # {}
    /\ \A n \in Neg : \E m \in Node : Ops[n] = {m}
ASSUME ComplAssumption ==
    /\ Compl \in [Lit -> Lit]
    /\ \A l \in Lit : Compl[l] # l /\ Compl[Compl[l]] = l

VARIABLES
    stage,        \* "idle", or inside "init" or "run"
    seen,         \* m_seen: the gates and negations of the inverted graph
    pending,      \* init: the nodes to look at
    may,          \* m_may: may[v][o], the gates watched at o for value v
    was_run,      \* m_was_run
    assumptions,  \* the literals the current run assumes true
    vals,         \* m_vals
    todo          \* m_todo: pairs of a node and its value

vars == <<stage, seen, pending, may, was_run, assumptions, vals, todo>>

NoValues == [n \in {} |-> FALSE]

Init ==
    /\ stage = "idle"
    /\ seen = {} /\ pending = {}
    /\ may = [v \in BOOLEAN |-> [o \in Node |-> {}]]
    /\ was_run = FALSE
    /\ assumptions = {} /\ vals = NoValues /\ todo = {}

-----------------------------------------------------------------------------
(* A constraint is added. *)
StartInit ==
    /\ stage = "idle"
    /\ \E n \in Node : pending' = {n}
    /\ was_run' = FALSE
    /\ stage' = "init"
    /\ UNCHANGED <<seen, may, assumptions, vals, todo>>

(* A gate is decided by one operand of value Deciding(g), or by all of     *)
(* them having the value AllOf(g).                                         *)
Deciding(g) == Kind[g] = "OR"
AllOf(g) == Kind[g] = "AND"

(* A node is new: it joins the graph, a gate with one operand as witness.  *)
InitNode ==
    /\ stage = "init"
    /\ \E n \in pending :
        \/ /\ n \in seen \/ n \notin Gate \cup Neg
           /\ pending' = pending \ {n}
           /\ UNCHANGED <<seen, may>>
        \/ /\ n \in Neg \ seen
           /\ pending' = (pending \ {n}) \cup Ops[n]
           /\ seen' = seen \cup {n}
           /\ UNCHANGED may
        \/ /\ n \in Gate \ seen
           /\ pending' = (pending \ {n}) \cup Ops[n]
           /\ seen' = seen \cup {n}
           /\ \E o \in Ops[n] : may' = [may EXCEPT ![AllOf(n)][o] = @ \cup {n}]
    /\ UNCHANGED <<stage, was_run, assumptions, vals, todo>>

EndInit ==
    /\ stage = "init" /\ pending = {}
    /\ stage' = "idle"
    /\ UNCHANGED <<seen, pending, may, was_run, assumptions, vals, todo>>

-----------------------------------------------------------------------------
(* Substitutions: sets of literals that are assumed true. *)
Consistent == {a \in SUBSET Lit : \A l \in a : Compl[l] \notin a}

StartRun ==
    /\ stage = "idle"
    /\ \E a \in Consistent :
        /\ assumptions' = a
        /\ todo' = (a \X {TRUE}) \cup ({Compl[l] : l \in a} \X {FALSE})
    /\ vals' = NoValues
    /\ stage' = "run"
    /\ UNCHANGED <<seen, pending, may, was_run>>

(* Plausible mistake: a negation passes on the value of its operand.       *)
PushAllSameSign(n, v) ==
    {g \in seen \cap Gate : n \in Ops[g] /\ Deciding(g) = v} \X {v}
    \cup {m \in seen \cap Neg : n \in Ops[m]} \X {v}

(* What n having the value v passes on: to gates it decides and to         *)
(* negations.                                                              *)
PushAll(n, v) ==
    {g \in seen \cap Gate : n \in Ops[g] /\ Deciding(g) = v} \X {v}
    \cup {m \in seen \cap Neg : n \in Ops[m]} \X {~ v}

(* push_may: the gates watched at n for v move to another operand that is  *)
(* not known to have that value; the ones that have none get the value.    *)
\* plausible mistake: any other operand will do
WitnessesAny(g, n, v) == Ops[g] \ {n}
Witnesses(g, n, v) == {o \in Ops[g] \ {n} : ~ (o \in DOMAIN vals /\ vals[o] = v)}
Moving(n, v) == {g \in may[v][n] : Witnesses(g, n, v) # {}}
PushMay(n, v) == (may[v][n] \ Moving(n, v)) \X {v}
Watch(n, v, to) ==
    [may EXCEPT ![v] =
        [o \in Node |->
            IF o = n THEN may[v][n] \ Moving(n, v)
            ELSE may[v][o] \cup {g \in Moving(n, v) : to[g] = o}]]

\* plausible mistake: a node that has its value already is not taken off the stack
PropagateKeeping ==
    /\ stage = "run"
    /\ \E p \in todo :
        /\ p[1] \notin DOMAIN vals
        /\ vals' = [n \in DOMAIN vals \cup {p[1]} |-> IF n = p[1] THEN p[2] ELSE vals[n]]
        /\ todo' = todo \cup PushAll(p[1], p[2]) \cup PushMay(p[1], p[2])
        /\ \E to \in [Moving(p[1], p[2]) -> Node] :
            /\ \A g \in Moving(p[1], p[2]) : to[g] \in Witnesses(g, p[1], p[2])
            /\ may' = Watch(p[1], p[2], to)
    /\ UNCHANGED <<stage, seen, pending, was_run, assumptions>>

Propagate ==
    /\ stage = "run"
    /\ \E p \in todo :
        \/ /\ p[1] \in DOMAIN vals
           /\ todo' = todo \ {p}
           /\ UNCHANGED <<vals, may>>
        \/ /\ p[1] \notin DOMAIN vals
           /\ vals' = [n \in DOMAIN vals \cup {p[1]} |-> IF n = p[1] THEN p[2] ELSE vals[n]]
           /\ todo' = (todo \ {p}) \cup PushAll(p[1], p[2]) \cup PushMay(p[1], p[2])
           /\ \E to \in [Moving(p[1], p[2]) -> Node] :
                /\ \A g \in Moving(p[1], p[2]) : to[g] \in Witnesses(g, p[1], p[2])
                /\ may' = Watch(p[1], p[2], to)
    /\ UNCHANGED <<stage, seen, pending, was_run, assumptions>>

EndRun ==
    /\ stage = "run" /\ todo = {}
    /\ stage' = "idle"
    /\ was_run' = TRUE
    /\ UNCHANGED <<seen, pending, may, assumptions, vals, todo>>

Next == StartInit \/ InitNode \/ EndInit \/ StartRun \/ Propagate \/ EndRun

(* The loops of init and run run to their ends. *)
Fairness == WF_vars(InitNode \/ EndInit \/ Propagate \/ EndRun)
Spec == Init /\ [][Next]_vars
FairSpec == Spec /\ Fairness

-----------------------------------------------------------------------------
TypeOK ==
    /\ stage \in {"idle", "init", "run"}
    /\ seen \subseteq Gate \cup Neg
    /\ pending \subseteq Node
    /\ may \in [BOOLEAN -> [Node -> SUBSET Gate]]
    /\ was_run \in BOOLEAN
    /\ assumptions \in Consistent
    /\ DOMAIN vals \subseteq Node /\ vals \in [DOMAIN vals -> BOOLEAN]
    /\ todo \subseteq Node \X BOOLEAN

(* Every gate of the graph is watched at exactly one place, one of its     *)
(* operands, for the value all of its operands must have: however many     *)
(* runs have moved it, it is never lost and never watched twice.           *)
WatchedOnce ==
    \A g \in Gate, v \in BOOLEAN, o \in Node :
        g \in may[v][o] =>
            /\ g \in seen /\ v = AllOf(g) /\ o \in Ops[g]
            /\ \A q \in Node : g \in may[v][q] => q = o
Watched == \A g \in seen \cap Gate : \E o \in Ops[g] : g \in may[AllOf(g)][o]

(* The total valuations of the nodes that respect gates and assumptions.   *)
Respects(e) ==
    /\ \A l \in Lit : e[Compl[l]] = ~ e[l]
    /\ \A m \in Neg : \A o \in Ops[m] : e[m] = ~ e[o]
    /\ \A g \in Gate : Kind[g] = "AND" => e[g] = (\A o \in Ops[g] : e[o])
    /\ \A g \in Gate : Kind[g] = "OR" => e[g] = (\E o \in Ops[g] : e[o])
    /\ \A l \in assumptions : e[l]

(* A value is never wrong: whatever the other inputs are, a node that has  *)
(* a value has that value.                                                 *)
ValuesRight ==
    \A e \in [Node -> BOOLEAN] :
        Respects(e) => \A n \in DOMAIN vals : vals[n] = e[n]

(* No value is missed once a run has ended: of the gates and negations in  *)
(* the graph each that is determined by the values of its operands has     *)
(* one.                                                                    *)
Determined(n) ==
    \/ n \in Neg /\ Ops[n] \subseteq DOMAIN vals
    \/ n \in Gate /\ \E o \in Ops[n] : o \in DOMAIN vals /\ vals[o] = Deciding(n)
    \/ n \in Gate /\ \A o \in Ops[n] : o \in DOMAIN vals /\ vals[o] = AllOf(n)
NothingMissed ==
    was_run /\ stage = "idle" => \A n \in seen : Determined(n) => n \in DOMAIN vals

(* A constraint's whole circuit is in the graph when init returns.         *)
GraphClosed ==
    stage # "init" => \A n \in seen : \A o \in Ops[n] : o \in Gate \cup Neg => o \in seen

(* Every init and every run ends. *)
Termination == []<>(stage = "idle")
=============================================================================
