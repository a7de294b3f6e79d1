-------------------------------- MODULE Qbf --------------------------------
(***************************************************************************)
(* The game a prenex QBF stands for, as cqesto sees it (qtypes.h,          *)
(* level_info.h).  The prefix is cut into N levels; every variable belongs *)
(* to one level, every level to one player: "EXISTENTIAL" wants the matrix *)
(* true, "UNIVERSAL" wants it false.  The players fix the variables level  *)
(* by level.  A matrix is the set of assignments that satisfy it.          *)
(*                                                                         *)
(* There is one more player's turn than there are levels: the solver of    *)
(* level N has no variable to choose, it only checks that the player of    *)
(* level N - 1 won (zigzag.cpp:22-25).                                     *)
(***************************************************************************)
EXTENDS Integers, Functions

CONSTANTS
    Var,    \* the quantified variables
    N,      \* the number of levels, LevelInfo::qlev_count()
    QLev,   \* the level of every variable, LevelInfo::qlev(v)
    QType   \* the quantifier of every level, LevelInfo::level_type(l)

ASSUME NAssumption == N \in Nat \ {0}
ASSUME QLevAssumption == QLev \in [Var -> 0 .. N - 1]
ASSUME QTypeAssumption == QType \in [0 .. N - 1 -> {"EXISTENTIAL", "UNIVERSAL"}]

-----------------------------------------------------------------------------
Level == 0 .. N - 1     \* the levels that have variables
Turn  == 0 .. N         \* the levels that have a solver

Opponent(q) == IF q = "UNIVERSAL" THEN "EXISTENTIAL" ELSE "UNIVERSAL"

(* The player whose turn it is at level l. *)
Player(l) == IF l < N THEN QType[l] ELSE Opponent(QType[N - 1])

Assign == [Var -> BOOLEAN]

Below(l) == {v \in Var : QLev[v] < l}          \* fixed before level l moves
Upto(l)  == {v \in Var : QLev[v] <= l}         \* fixed once level l has moved
Owned(q) == {v \in Var : QType[QLev[v]] = q}
Agree(a, b, S) == \A v \in S : a[v] = b[v]

(* The assignments a player wants to reach. *)
Good(q, matrix) == IF q = "EXISTENTIAL" THEN matrix ELSE Assign \ matrix

-----------------------------------------------------------------------------
(* A strategy of q from level l on: for each of its variables above l a    *)
(* rule that reads the opponent's variables of the lower levels.           *)
Seen(v) == {u \in Below(QLev[v]) : QType[QLev[u]] # QType[QLev[v]]}
Mine(q, l) == {v \in Owned(q) : QLev[v] > l}
Strategies(q, l) ==
    {s \in [Mine(q, l) -> UNION {[[Seen(v) -> BOOLEAN] -> BOOLEAN] : v \in Mine(q, l)}] :
        \A v \in Mine(q, l) : s[v] \in [[Seen(v) -> BOOLEAN] -> BOOLEAN]}

(* What is played when q follows s above level l and everything else is b. *)
Play(q, l, s, b) ==
    [v \in Var |-> IF v \in Mine(q, l) THEN s[v][Restrict(b, Seen(v))] ELSE b[v]]

(* Player q can force its goal once the variables up to level l are as in  *)
(* p; with l = -1, from the start.                                         *)
Winning(q, l, p, matrix) ==
    \E s \in Strategies(q, l) :
        \A b \in Assign : Agree(b, p, Upto(l)) => Play(q, l, s, b) \in Good(q, matrix)

(* Player q has a winning strategy for the whole game. *)
Wins(q, matrix) == \A p \in Assign : Winning(q, -1, p, matrix)
=============================================================================
