------------------------------- MODULE Encoder -------------------------------
(***************************************************************************)
(* One LevelSolver (level_solver.cpp) down to the clauses: the encoding of *)
(* its constraints (EncoderToSAT, VariableManager), what Simplify takes    *)
(* from the SAT solver, and how an answer in numbers becomes one in nodes. *)
(*                                                                         *)
(* ZigZag takes for granted that a model of a level solver is a model of   *)
(* its constraints and its core a set of nodes that contradict them.  Here *)
(* that is what has to come out of the numbers.                            *)
(***************************************************************************)
EXTENDS Circuit, Functions

CONSTANTS
    Sats,           \* the states of a SAT solver with its encoder (as in sat below);
                    \* nothing here enumerates them
    Builds,         \* pairs of a SAT solver and a way to find cuts
    Variables,      \* the numbers of the formula's variables that may be added
    Constraints,    \* the circuits that may be added
    MaxConstraints  \* bound on the constraints added

ASSUME BuildsAssumption ==
    Builds \subseteq {"minisat", "cms", "ipasir"} \X {"last", "simple", "orig"}
ASSUME VariablesAssumption == Variables \subseteq Nat \ {0}
ASSUME ConstraintsAssumption ==
    Constraints # {} /\ Constraints \subseteq Node /\ MaxConstraints \in Nat
ASSUME UnitAssumption == Unit     \* the default of Simplify

VARIABLES
    backend,   \* the SAT solver the program was built with
    find_cut,  \* which cut this solver uses
    vars,      \* the variables added
    constrs,   \* the constraints, simplified
    given,     \* the constraints as they were given
    memo,      \* Simplify's memo
    sat,       \* [last, nvars, clauses, m]: numbers used, numbers declared,
               \* clauses added, and the encoder's memo of literals
    cut2id,    \* the nodes of the last cut by their literals
    answer     \* of the last solve: [solved, move, core], or None

level == <<backend, find_cut>>
solver == <<vars, constrs, given, memo, sat, cut2id, answer>>

None == [solved |-> "none"]
Abs(l) == IF l < 0 THEN - l ELSE l
Joined(f, g) == [x \in DOMAIN f \cup DOMAIN g |-> IF x \in DOMAIN f THEN f[x] ELSE g[x]]

-----------------------------------------------------------------------------
(* Clauses are sets of literals, literals are numbers with a sign.  The    *)
(* SAT solver has a model for every assignment of the numbers in use that  *)
(* satisfies the clauses.                                                  *)
Satisfied(clause, f) == \E l \in clause : Abs(l) \in DOMAIN f /\ (f[Abs(l)] = (l > 0))
Numbers(s) == vars \cup {Abs(s.m[n]) : n \in DOMAIN s.m}
SatModels(s) == {f \in [Numbers(s) -> BOOLEAN] : \A c \in s.clauses : Satisfied(c, f)}

-----------------------------------------------------------------------------
(* The wrappers declare numbers to the SAT solver: IPASIRWrap keeps the    *)
(* largest, MiniSatExt and CMSat1 how many there are.                      *)
IpasirNewVariables(nvars, v) == IF nvars < v THEN v + 1 ELSE nvars
MiniSatNewVariables(nvars, v) == Max({nvars, v + 1})
CMSatNewVariables(nvars, v) == IF nvars > v THEN nvars ELSE nvars + (v + 1 - nvars)
NewVariables(nvars, v) ==
    CASE backend = "ipasir"  -> IpasirNewVariables(nvars, v)
      [] backend = "minisat" -> MiniSatNewVariables(nvars, v)
      [] backend = "cms"     -> CMSatNewVariables(nvars, v)

(* get_model_value: a model has a value for the numbers below its size, and *)
(* what it has no value for counts as false.                               *)
ModelSize(nvars) == IF backend = "ipasir" THEN nvars + 1 ELSE nvars
ModelValue(f, nvars, v) == v < ModelSize(nvars) /\ f[v]

(* EncoderToSAT::alloc gives a variable of the formula its own number and  *)
(* skips the ones below.  Plausible mistake: the number is only declared.  *)
AllocDeclare(s, v) == [s EXCEPT !.nvars = NewVariables(@, v)]
Alloc(s, v) == [s EXCEPT !.last = Max({@, v}), !.nvars = NewVariables(@, v)]

NewLit(s) == [s EXCEPT !.last = @ + 1, !.nvars = NewVariables(@, s.last + 1)]
AddClauses(s, cs) == [s EXCEPT !.clauses = @ \cup cs]
Encoded(s, n, lit) == [s EXCEPT !.m = Joined(@, [k \in {n} |-> lit])]

(* The clauses that make r the AND of lits; an OR is the dual.  Plausible  *)
(* mistake: only one direction, enough for gates that must be true.        *)
GateClausesOneWay(type, r, lits) ==
    IF type = "AND" THEN {{l, - r} : l \in lits} ELSE {lits \cup {- r}}
GateClauses(type, r, lits) ==
    LET sign == IF type = "AND" THEN 1 ELSE -1
    IN  {{sign * l, - sign * r} : l \in lits} \cup {{- sign * l : l \in lits} \cup {sign * r}}

(* The nodes one after the other; their order is that of their IDs, which  *)
(* no clause tells.                                                        *)
Through(encode, s, nodes) ==
    LET after[S \in SUBSET nodes] ==
            IF S = {} THEN s
            ELSE LET n == CHOOSE n \in S : TRUE IN encode[n][after[S \ {n}]]
    IN  after[nodes]

EncodeConst(s, n) ==
    Encoded(AddClauses(s, {{IF n = TrueNode THEN s.last ELSE - s.last}}), n, s.last)
EncodeGate(s, n, r) ==
    Encoded(AddClauses(s, GateClauses(Type(n), r, {s.m[o] : o \in Operands(n)})), n, r)

(* EncoderToSAT: the number of a gate is taken before its operands are     *)
(* visited.                                                                *)
Encoding ==
    LET encode[n \in Node] == [s \in Sats |->
            CASE n \in DOMAIN s.m -> s
              [] n \notin DOMAIN s.m /\ IsConst(n) -> EncodeConst(NewLit(s), n)
              [] n \notin DOMAIN s.m /\ Type(n) = "LITERAL" ->
                    Encoded(s, n, IF Positive(n) THEN LitVar(n) ELSE - LitVar(n))
              [] n \notin DOMAIN s.m /\ Type(n) = "NEGATION" ->
                    LET t == encode[Operand(n)][s] IN Encoded(t, n, - t.m[Operand(n)])
              [] OTHER ->
                    EncodeGate(Through(encode, NewLit(s), Operands(n)), n, s.last + 1)]
    IN  encode
Encode(s, n) == Encoding[n][s]
EncodeAll(s, nodes) == Through(Encoding, s, nodes)

-----------------------------------------------------------------------------
(* EncoderToSAT::get_val, MiniSat only: the value of a node whose literal  *)
(* the SAT solver has fixed.  Plausible mistake: the sign is forgotten.    *)
GetValUnsigned(n, facts) ==
    IF n \in DOMAIN sat.m /\ {sat.m[n], - sat.m[n]} \cap facts # {}
    THEN ValueOf(Abs(sat.m[n]) \in facts) ELSE Undefined
GetVal(n, facts) ==
    IF n \in DOMAIN sat.m /\ {sat.m[n], - sat.m[n]} \cap facts # {}
    THEN ValueOf(sat.m[n] \in facts) ELSE Undefined

(* Simplify::visit asks the SAT solver first, then its memo, which keeps   *)
(* what was found with the facts of earlier constraints.                   *)
Simplified(n, facts) ==
    LET simplified[m \in Node] ==
            IF GetVal(m, facts) # Undefined THEN ConstNode(GetVal(m, facts) = "TRUE")
            ELSE IF m \in DOMAIN memo THEN memo[m]
            ELSE IF IsConst(m) \/ Type(m) = "LITERAL" THEN m
            ELSE IF Type(m) = "NEGATION" THEN RebuildNot(m, simplified[Operand(m)])
            ELSE PropagateUnits(m, {<<o, simplified[o]>> : o \in Operands(m)})
    IN  simplified[n]

(* The nodes a call of Simplify adds to its memo. *)
Visited(n, facts) ==
    LET visited[m \in Node] ==
            IF GetVal(m, facts) # Undefined \/ m \in DOMAIN memo THEN {}
            ELSE {m} \cup UNION {visited[o] : o \in Children(m)}
    IN  visited[n]

(* What the SAT solver may have found out of the nodes in c: any of the    *)
(* literals that are true in all its models.                               *)
FixedLiterals(c) ==
    LET models == SatModels(sat)
        encoded == UNION {{sat.m[n], - sat.m[n]} : n \in SubNodes(c) \cap DOMAIN sat.m}
    IN  IF backend # "minisat" THEN {} ELSE {l \in encoded : \A f \in models : f[Abs(l)] = (l > 0)}

Init ==
    /\ \E build \in Builds : backend = build[1] /\ find_cut = build[2]
    /\ vars = {}
    /\ constrs = {} /\ given = {}
    /\ memo = <<>>
    /\ sat = [last |-> 0, nvars |-> 0, clauses |-> {}, m |-> <<>>]
    /\ cut2id = <<>>
    /\ answer = None

-----------------------------------------------------------------------------
(* LevelSolver::add_var: all variables come before the constraints. *)
AddVar(v) ==
    /\ constrs = {} /\ v \notin vars
    /\ vars' = vars \cup {v}
    /\ sat' = Alloc(sat, v)
    /\ UNCHANGED <<level, constrs, given, memo, cut2id, answer>>

(* LevelSolver::add_constr with options.simplify. *)
AddConstr(c) ==
    /\ Cardinality(given) < MaxConstraints
    /\ c \notin given /\ VarsOf(c) \subseteq vars
    /\ \E facts \in SUBSET FixedLiterals(c) :
        LET strengthening == Simplified(c, facts)
            s == Encode(sat, strengthening)
        IN  /\ memo' = Joined(memo, [n \in Visited(c, facts) |-> Simplified(n, facts)])
            /\ constrs' = constrs \cup {strengthening}
            /\ sat' = AddClauses(s, {{s.m[strengthening]}})
    /\ given' = given \cup {c}
    /\ answer' = None
    /\ UNCHANGED <<level, vars, cut2id>>

(* LevelSolver::find_cut under the moves below the level. *)
Cut(moves) ==
    CASE find_cut = "last"   -> {MakeNot(c) : c \in constrs}
      [] find_cut = "simple" -> moves
      [] find_cut = "orig"   -> UNION {FindCut(c, moves) : c \in constrs}

(* val *)
Move(f, nvars) == {Literal(v, ModelValue(f, nvars, v)) : v \in vars}

(* analyze and learn find the nodes of a conflict, which has the negated   *)
(* assumptions.  Plausible mistake: they look up the literals themselves.  *)
NodesOfSame(conflict, id) == {id[el] : el \in conflict \cap DOMAIN id}
NodesOf(conflict, id) == {id[- el] : el \in conflict}

(* The literals of the cut, with the nodes they stand for.                 *)
CutClause(s, cut) ==
    [el \in {s.m[l] : l \in cut} |-> CHOOSE l \in cut : s.m[l] = el]

(* The SAT solver answers with a model under the assumptions or with a set *)
(* of assumptions that fail, of which the wrappers return the negations.   *)
Under(models, ls) == {f \in models : \A l \in ls : f[Abs(l)] = (l > 0)}
Satisfiable(s, models, assumed) ==
    \E f \in Under(models, assumed) :
        answer' = [solved |-> "sat", move |-> Move(f, s.nvars), core |-> {}]
Conflict(failed) == {- l : l \in failed}
Unsatisfiable(models, id) ==
    \E failed \in SUBSET DOMAIN id :
        /\ Under(models, failed) = {}
        /\ answer' = [solved |-> "unsat", move |-> {}, core |-> NodesOf(Conflict(failed), id)]

(* LevelSolver::solve, and what the level then reads of the answer.        *)
Solve(cut) ==
    LET s == EncodeAll(sat, cut)
        id == CutClause(s, cut)
        models == SatModels(s)
    IN  /\ sat' = s
        /\ cut2id' = id
        /\ Satisfiable(s, models, DOMAIN id) \/ Unsatisfiable(models, id)
        /\ UNCHANGED <<level, vars, constrs, given, memo>>

Moves == UNION {{{Literal(v, e[v]) : v \in S} : e \in [S -> BOOLEAN]} : S \in SUBSET vars}

Next ==
    \/ \E v \in Variables : AddVar(v)
    \/ \E c \in Constraints : AddConstr(c)
    \/ \E cut \in {Cut(moves) : moves \in Moves} : Solve(cut)

Spec == Init /\ [][Next]_<<level, solver>>

-----------------------------------------------------------------------------
Valuations == [vars -> BOOLEAN]
Allow(nodes) == {e \in Valuations : \A c \in nodes : Holds(c, e)}

(* The clauses say what the constraints say: their models are those of the *)
(* constraints, and the literal of every node that was ever encoded has    *)
(* the node's value in them (encoder_to_sat.h:85-102).                     *)
ClausesFaithful ==
    LET models == SatModels(sat)
    IN  /\ {[v \in vars |-> f[v]] : f \in models} = Allow(constrs)
        /\ \A f \in models, n \in DOMAIN sat.m :
            (f[Abs(sat.m[n])] = (sat.m[n] > 0)) = Holds(n, f)

(* Simplifying with facts and with a memo of earlier facts loses nothing   *)
(* and adds nothing: all constraints together still say what they said.    *)
ConstrsFaithful == Allow(constrs) = Allow(given)

(* A number stands for a variable or for one gate or constant, and is one  *)
(* the variable manager has given out: no gate takes a variable's number,  *)
(* also when the variables are not numbered without gaps.                  *)
NumbersApart ==
    LET own == {n \in DOMAIN sat.m : Type(n) \notin {"LITERAL", "NEGATION"}}
    IN  /\ \A n \in own : sat.m[n] \in 1 .. sat.last /\ sat.m[n] \notin vars
        /\ \A n, k \in own : sat.m[n] = sat.m[k] => n = k

(* An answer means what the solving loop takes it for: the move is part of *)
(* a model of the constraints and the cut, and a core is a part of the cut *)
(* that the constraints contradict.                                        *)
AnswerDecoded ==
    /\ answer.solved = "sat" =>
        \A n \in constrs \cup Range(cut2id) : Holds(n, [v \in vars |-> Literal(v, TRUE) \in answer.move])
    /\ answer.solved = "unsat" =>
        answer.core \subseteq Range(cut2id) /\ Allow(constrs \cup answer.core) = {}
=============================================================================
