------------------------------- MODULE ZigZag -------------------------------
(***************************************************************************)
(* The solving loop of cqesto: ZigZag (zigzag.cpp) with one LevelSolver    *)
(* (level_solver.cpp) per level.                                           *)
(*                                                                         *)
(* The constraints of a level are circuits.  A level is solved under the   *)
(* cut of its constraints by the moves below it; the SAT solver returns    *)
(* any model of the constraints and the cut, or any core of the cut.  The  *)
(* program is sequential: what is left open is the SAT solver's choice.    *)
(***************************************************************************)
EXTENDS Circuit, Sequences, Functions

CONSTANTS
    Prefix,       \* a sequence of blocks [type, vars], the formula's prefix
    FreeVars,     \* the free variables (none unless solutions are enumerated)
    Outputs,      \* the matrices to consider, circuits over the variables
    SimplifyOn,   \* options.simplify
    RootFacts,    \* USE_MINISAT: Simplify uses what the SAT solver has fixed
    Full,         \* options.full
    SimpleCut,    \* options.simple_cut
    LubyRestart,  \* options.luby_restart
    Enumerate,    \* options.enumerate
    HasFree,      \* options.has_free: the input declares free variables
    RestartFirst  \* 100 in the code: conflicts before the first restart

ASSUME ZigZagOptionsAssumption ==
    {SimplifyOn, RootFacts, Full, SimpleCut, LubyRestart, Enumerate, HasFree} \subseteq BOOLEAN
\* a variable is declared once (Parser); numbers start at 1
ASSUME PrefixAssumption ==
    /\ Prefix \in Seq([type : {"EXISTENTIAL", "UNIVERSAL"}, vars : SUBSET (Nat \ {0})])
    /\ Len(Prefix) > 0
    /\ \A i \in 1 .. Len(Prefix) : IsFiniteSet(Prefix[i].vars)
    /\ \A i, j \in 1 .. Len(Prefix) : i # j => Prefix[i].vars \cap Prefix[j].vars = {}
ASSUME FreeAssumption ==
    /\ FreeVars # {} => HasFree /\ Enumerate
    /\ FreeVars \in SUBSET (Nat \ {0}) /\ IsFiniteSet(FreeVars)
    /\ \A i \in 1 .. Len(Prefix) : Prefix[i].vars \cap FreeVars = {}
ASSUME RestartAssumption == RestartFirst \in Nat \ {0}

VARIABLES
    output,        \* formula.output; never changes
    lev,           \* solve_: the level whose turn it is
    vals,          \* solve_: the literals decided true so far, a Substitution
    trail,         \* solve_: the decisions [player, lit], in order
    confl_budget,  \* solve_: conflicts left before a restart, -1 for no limit
    curr_restarts, \* solve: restarts so far
    constrs,       \* the constraints of every LevelSolver
    last_solve,    \* solvers[0]: did its last call find a model
    model,         \* solvers[0]: the first level's literals its model makes true
    pc,            \* where the program is: "solve_", "solve", "solve_all", "done"
    status,        \* the answer of the last solve_: "UNDEF", "TRUE" or "FALSE"
    count,         \* solve_all: the solutions counted
    found          \* the solutions blocked, projected

vars == <<output, lev, vals, trail, confl_budget, curr_restarts, constrs, last_solve,
          model, pc, status, count, found>>

-----------------------------------------------------------------------------
(* LevelInfo: the prefix by levels.  When solutions are enumerated the     *)
(* free variables join the first block (ZigZag::ZigZag).                   *)
Pref ==
    IF Enumerate THEN [Prefix EXCEPT ![1].vars = FreeVars \cup @] ELSE Prefix

qlev_count == Len(Pref)
Levels == 0 .. qlev_count - 1
Solvers == 0 .. qlev_count
level_type(l) == Pref[l + 1].type
level_vars(l) == Pref[l + 1].vars
AllVars == UNION {level_vars(l) : l \in Levels}
ASSUME OutputsAssumption == \A c \in Outputs : c \in Node /\ VarsOf(c) \subseteq AllVars
qlev == [v \in AllVars |-> CHOOSE l \in Levels : v \in level_vars(l)]

opponent(q) == IF q = "UNIVERSAL" THEN "EXISTENTIAL" ELSE "UNIVERSAL"
(* Whose turn it is at level l: the last solver belongs to the opponent of *)
(* the last level.                                                         *)
player(l) == IF l < qlev_count THEN level_type(l) ELSE opponent(level_type(qlev_count - 1))

(* LevelSolver: the variables it was given (add_var). *)
dom_vars(l) == {v \in AllVars : qlev[v] <= l}
plvars(l)   == {v \in AllVars : qlev[v] < l /\ level_type(qlev[v]) = player(l)}
aux_vars(l) ==
    IF Full /\ l < qlev_count
    THEN {v \in AllVars : qlev[v] > l /\ level_type(qlev[v]) = level_type(l)}
    ELSE {}

Valuations(S) == [S -> BOOLEAN]
TrueLits(S, e) == {Literal(v, e[v]) : v \in S}

(* The assignments the constraints of a solver still allow, together with  *)
(* a set of nodes.                                                         *)
Models(l, nodes) == {m \in Valuations(AllVars) : \A c \in constrs[l] \cup nodes : Holds(c, m)}

-----------------------------------------------------------------------------
(* LevelSolver::add_constr keeps a constraint as Simplify leaves it.  In   *)
(* the MiniSat build Simplify replaces by a constant any node whose value  *)
(* is fixed in the SAT solver (EncoderToSAT::get_val): a node that is      *)
(* encoded there and has the same value in all of its models.  Which of    *)
(* them the solver has found out by then is its own affair.                *)
Strengthened(c, known) == IF SimplifyOn THEN Simplify(c, known) ELSE c

Encoded(l) == UNION {SubNodes(c) : c \in constrs[l]}
Fixed(l, c) ==
    {n \in SubNodes(c) \cup {MakeNot(s) : s \in SubNodes(c)} :
        /\ {n, MakeNot(n)} \cap Encoded(l) # {}
        /\ \A m \in Models(l, {}) : Holds(n, m)}
Known(l, c) == IF SimplifyOn /\ RootFacts THEN SUBSET Fixed(l, c) ELSE {{}}
AddConstr(l, c) ==
    \E known \in Known(l, c) : constrs' = [constrs EXCEPT ![l] = @ \cup {Strengthened(c, known)}]

-----------------------------------------------------------------------------
(* The constraint a solver gets in ZigZag::init, a set of none or one: the *)
(* matrix as its player wants it, in full mode with the opponent's later   *)
(* variables put to false.                                                 *)
Wanted(l) == IF player(l) = "UNIVERSAL" THEN MakeNot(output) ELSE output

(* Plausible mistake: init goes up the levels.                             *)
FirstConstraintUpwards(l) ==
    LET earlier == {v \in AllVars : qlev[v] < l /\ level_type(qlev[v]) # player(l)}
    IN  {IF l = qlev_count THEN Wanted(l)
         ELSE Reduce(Wanted(l), {Literal(v, FALSE) : v \in earlier})}
FirstConstraint(l) ==
    LET later == {v \in AllVars : qlev[v] > l /\ level_type(qlev[v]) # player(l)}
    IN  IF l = qlev_count THEN {Wanted(l)}
        ELSE IF Full THEN {Reduce(Wanted(l), {Literal(v, FALSE) : v \in later})}
        ELSE IF l = qlev_count - 1 THEN {Wanted(l)} ELSE {}

(* luby with base 3/2, times RestartFirst, rounded down; -1 without        *)
(* restarts.  LubyExponent(x) is the exponent of the base.                 *)
LubyExponent(x) ==
    LET size[k \in Nat] == IF k = 0 THEN 1 ELSE 2 * size[k - 1] + 1
        seq == CHOOSE k \in 0 .. x + 1 : size[k] >= x + 1 /\ (k = 0 \/ size[k - 1] < x + 1)
        walk[k \in 0 .. seq, y \in 0 .. x] ==
            IF size[k] - 1 = y THEN k ELSE walk[k - 1, y % size[k - 1]]
    IN  walk[seq, x]

Restarts == qlev_count > 2 /\ LubyRestart
Budget(restarts) ==
    IF Restarts
    THEN LET k == LubyExponent(restarts) IN (RestartFirst * 3 ^ k) \div 2 ^ k
    ELSE -1

Init ==
    /\ output \in Outputs
    /\ constrs = [l \in Solvers |-> {Strengthened(c, {}) : c \in FirstConstraint(l)}]
    /\ lev = 0 /\ vals = {} /\ trail = <<>>
    /\ curr_restarts = 0 /\ confl_budget = Budget(0)
    /\ last_solve \in BOOLEAN       \* not initialised by the constructor
    /\ model = {}
    /\ pc = "solve_" /\ status = "UNDEF"
    /\ count = 0 /\ found = {}

-----------------------------------------------------------------------------
(* Plausible mistake: learned constraints are not added to the evaluation. *)
CutOfFirst(l) ==
    IF l = qlev_count THEN {MakeNot(c) : c \in constrs[l]}
    ELSE IF SimpleCut THEN vals
    ELSE UNION {FindCut(Strengthened(c, {}), vals) : c \in FirstConstraint(l)}

(* LevelSolver::find_cut: the last solver assumes the contrary of what it  *)
(* knows, the simple cut is the moves themselves.                          *)
Cut(l) ==
    IF l = qlev_count THEN {MakeNot(c) : c \in constrs[l]}
    ELSE IF SimpleCut THEN vals
    ELSE UNION {FindCut(c, vals) : c \in constrs[l]}

(* The moves a model of the SAT solver gives level l, and the decisions they add to the      *)
(* trail (in the order of the block's vector, which is sorted).            *)
Moves(l) == {TrueLits(level_vars(l), m) : m \in Models(l, Cut(l))}
Decisions(l, move) ==
    LET before(n) == Cardinality({m \in move : LitVar(m) < LitVar(n)})
    IN  [i \in 1 .. Cardinality(move) |->
            [player |-> level_type(l), lit |-> CHOOSE n \in move : before(n) = i - 1]]

(* solve_: the level on turn has a solution. *)
HasSolution ==
    /\ pc = "solve_"
    /\ \E move \in Moves(lev) :
        /\ vals' = vals \cup move
        /\ trail' = trail \o Decisions(lev, move)
        /\ IF lev = 0 THEN last_solve' = TRUE /\ model' = move
                      ELSE UNCHANGED <<last_solve, model>>
    /\ lev' = lev + 1
    /\ UNCHANGED <<output, confl_budget, curr_restarts, constrs, pc, status, count, found>>

-----------------------------------------------------------------------------
(* Plausible mistake: the lowest level met decides, not the highest.       *)
AnalyzeLowest(core) ==
    IF core = {} THEN -1 ELSE Min({MaxQLev(n, plvars(lev), qlev) : n \in core})

(* LevelSolver::analyze: the level to go back to.                          *)
Analyze(core) == Max({-1} \cup {MaxQLev(n, plvars(lev), qlev) : n \in core})

(* Plausible mistakes: the decisions of level bt survive; learning with    *)
(* the variables of the level that failed; without the opponent's moves.   *)
KeptThrough(bt) ==
    LET below == {i \in DOMAIN trail : qlev[LitVar(trail[i].lit)] <= bt}
    IN  SubSeq(trail, 1, Max({0} \cup below))
LearnedAbove(core, bt) ==
    MakeOr({MakePossible(MakeNot(n), TRUE, dom_vars(lev), {}) : n \in core})
LearnedWithoutMoves(core, bt) ==
    MakeOr({MakePossible(MakeNot(n), TRUE, dom_vars(bt), {}) : n \in core})

(* The decisions that survive going back to level bt: the trail up to its  *)
(* last decision below bt; and what the opponent had played above it.      *)
Kept(bt) ==
    LET below == {i \in DOMAIN trail : qlev[LitVar(trail[i].lit)] < bt}
    IN  SubSeq(trail, 1, Max({0} \cup below))
Popped(bt) == {trail[i] : i \in Len(Kept(bt)) + 1 .. Len(trail)}
OppMoves(bt) == {d.lit : d \in {d \in Popped(bt) : d.player = opponent(player(lev))}}

(* LevelSolver::learn *)
Learned(core, bt) ==
    MakeOr({MakePossible(MakeNot(n), TRUE, dom_vars(bt), OppMoves(bt)) : n \in core})

(* Every core of the cut the SAT solver may report. *)
Cores == {core \in SUBSET Cut(lev) : Models(lev, core) = {}}

(* What a failed call leaves in solvers[0]: no model. *)
NoteFailure ==
    IF lev = 0 THEN last_solve' = FALSE /\ model' = {}
               ELSE UNCHANGED <<last_solve, model>>

(* solve_: a conflict sends the loop back to an earlier level of the same  *)
(* player, which learns from it.  The loop leaves solve_ for a restart     *)
(* when this was the last conflict of the budget.                          *)
Conflict ==
    /\ pc = "solve_"
    /\ \E core \in Cores :
        \E bt \in {Analyze(core)} \ {-1} :
        \E learned \in {Learned(core, bt)} :
            /\ AddConstr(bt, learned)
            /\ \/ /\ confl_budget # 1
                  /\ lev' = bt
                  /\ trail' = Kept(bt)
                  /\ vals' = vals \ {d.lit : d \in Popped(bt)}
                  /\ confl_budget' = IF confl_budget > 0 THEN confl_budget - 1 ELSE confl_budget
                  /\ UNCHANGED curr_restarts
               \/ /\ confl_budget = 1
                  /\ lev' = 0
                  /\ trail' = <<>>
                  /\ vals' = {}
                  /\ curr_restarts' = curr_restarts + 1
                  /\ confl_budget' = Budget(curr_restarts + 1)
    /\ NoteFailure
    /\ UNCHANGED <<output, pc, status, count, found>>

(* solve_: a conflict that no move of the player takes part in decides.    *)
Decided ==
    /\ pc = "solve_"
    /\ \E core \in Cores : Analyze(core) < 0
    /\ status' = IF player(lev) = "UNIVERSAL" THEN "TRUE" ELSE "FALSE"
    /\ pc' = "solve"
    /\ NoteFailure
    /\ UNCHANGED <<output, lev, vals, trail, confl_budget, curr_restarts, constrs, count, found>>

-----------------------------------------------------------------------------
(* solve prints the model of the first level, if there is one, as a "v"    *)
(* line and returns; solve_all counts a solution, or stops.                *)
PrintsMove == pc = "solve" /\ last_solve

Return ==
    /\ pc = "solve"
    /\ IF Enumerate /\ status = "TRUE"
       THEN pc' = "solve_all" /\ count' = count + 1
       ELSE pc' = "done" /\ UNCHANGED count
    /\ UNCHANGED <<output, lev, vals, trail, confl_budget, curr_restarts, constrs,
                   last_solve, model, status, found>>

(* block_solution excludes the solution just found, projected to the free  *)
(* variables if there are any declared; a variable without a value in the  *)
(* model counts as false.  Then solve starts over.                         *)
Project == IF HasFree THEN FreeVars ELSE level_vars(0)
\* plausible mistake: free variables are ignored
SolutionUnprojected == {Literal(v, Literal(v, TRUE) \in model) : v \in level_vars(0)}
Solution == {Literal(v, Literal(v, TRUE) \in model) : v \in Project}

BlockSolution ==
    /\ pc = "solve_all"
    /\ AddConstr(0, MakeNot(MakeAnd(Solution)))
    /\ found' = found \cup {Solution}
    /\ lev' = 0 /\ vals' = {} /\ trail' = <<>>
    /\ curr_restarts' = 0 /\ confl_budget' = Budget(0)
    /\ pc' = "solve_" /\ status' = "UNDEF"
    /\ UNCHANGED <<output, last_solve, model, count>>

Done == pc = "done" /\ UNCHANGED vars

Next == HasSolution \/ Conflict \/ Decided \/ Return \/ BlockSolution \/ Done

(* One thread, and every SAT call returns.                                 *)
Fairness == WF_vars(Next)
Spec == Init /\ [][Next]_vars
FairSpec == Spec /\ Fairness

-----------------------------------------------------------------------------
(* The game the formula stands for.                                        *)
Assignment(lits) == [v \in {LitVar(n) : n \in lits} |-> Literal(v, TRUE) \in lits]
Matrix == {e \in Valuations(AllVars) : Holds(output, e)}
AllMoves(l) == {TrueLits(level_vars(l), e) : e \in Valuations(AllVars)}

(* The assignments from which the formula is true when the variables below *)
(* level l keep their values and the players choose the others.            *)
MovesFrom(l, e) ==
    {f \in Valuations(AllVars) : \A v \in AllVars \ level_vars(l) : f[v] = e[v]}
Won[l \in Solvers] ==
    IF l = qlev_count THEN Matrix
    ELSE LET next == Won[l + 1]
         IN  {e \in Valuations(AllVars) :
                IF level_type(l) = "EXISTENTIAL" THEN MovesFrom(l, e) \cap next # {}
                                                 ELSE MovesFrom(l, e) \subseteq next}

(* Is the formula true once the moves in lits are made below level l?      *)
Value(l, lits) ==
    \A e \in Valuations(AllVars) : (\A n \in lits : Holds(n, e)) => e \in Won[l]

(* vals and trail tell the same story, and it is that of the levels below  *)
(* lev: whatever is popped when the loop goes back (zigzag.cpp:180-192),   *)
(* exactly the variables of the levels below lev stay decided, level after *)
(* level, each by the player who owns it.                                  *)
TrailMatchesVals ==
    /\ {LitVar(n) : n \in vals} = {v \in AllVars : qlev[v] < lev}
    /\ vals = {d.lit : d \in Range(trail)}
    /\ Len(trail) = Cardinality({v \in AllVars : qlev[v] < lev})
    /\ \A i \in DOMAIN trail :
        /\ trail[i].player = level_type(qlev[LitVar(trail[i].lit)])
        /\ \A j \in 1 .. i - 1 : qlev[LitVar(trail[j].lit)] <= qlev[LitVar(trail[i].lit)]

(* A solver's constraints speak only of variables it was given (add_var),  *)
(* also those it learned: any other variable would share its number with   *)
(* an auxiliary variable of the encoding (encoder_to_sat.h:104-108).       *)
ConstraintsInScope ==
    \A l \in Solvers : \A c \in constrs[l] : VarsOf(c) \subseteq dom_vars(l) \cup aux_vars(l)

(* Solving under the cut is as good as solving under the moves: the cut    *)
(* neither admits a move the moves below rule out nor loses one.           *)
CutFaithful ==
    pc = "solve_" /\ lev < qlev_count =>
        Moves(lev) = {TrueLits(level_vars(lev), m) : m \in Models(lev, vals)}

(* The answer is the truth value of the formula.                           *)
AnswerCorrect == pc = "done" /\ ~ Enumerate => (status = "TRUE") = Value(0, {})

(* The "v" line of a formula the first player wins is a winning move.      *)
PrintedMoveWins ==
    PrintsMove /\ (status = "TRUE") = (level_type(0) = "EXISTENTIAL")
        => Value(1, model) = (status = "TRUE")

(* Enumeration reports every winning first move exactly once, projected,   *)
(* and no other.                                                           *)
EnumerationExact ==
    pc = "done" /\ Enumerate /\ level_type(0) = "EXISTENTIAL" =>
        /\ count = Cardinality(found)
        /\ found = {{n \in move : LitVar(n) \in Project} :
                        move \in {m \in AllMoves(0) : Value(1, m)}}

(* The solving loop implements Cegar: what the constraints of a level      *)
(* still allow is its abstraction.                                         *)
Abstract ==
    INSTANCE Cegar WITH
        Var <- AllVars, N <- qlev_count, QLev <- qlev,
        QType <- [l \in Levels |-> level_type(l)],
        MayRestart <- Restarts,
        matrix <- Matrix,
        vals <- Assignment(vals),
        allowed <- [l \in Solvers |-> Models(l, {})],
        blocked <- {Assignment(s) : s \in found}
ImplementsCegar == Abstract!Spec

(* The program answers.                                                    *)
Termination == <>(pc = "done")

(* block_solution runs only after solvers[0] found a model (the assertion  *)
(* zigzag.cpp:87).                                                         *)
BlockHasModel == pc = "solve_all" => last_solve

(* When solutions are enumerated every "v" line is a winning move of the   *)
(* first block (main.cpp:82-88).                                           *)
EnumeratedMoveWins ==
    Enumerate /\ PrintsMove => Value(1, model) = (level_type(0) = "EXISTENTIAL")
=============================================================================
