------------------------------- MODULE Cegar -------------------------------
(***************************************************************************)
(* What the solving loop of cqesto promises, without its circuits.         *)
(*                                                                         *)
(* Every level l keeps an abstraction of its player's game: the set        *)
(* allowed[l] of the assignments its constraints still allow.  The loop    *)
(* walks down the levels; at level lev the player extends the moves vals   *)
(* made so far to an allowed assignment.  A player who cannot move learns: *)
(* some of the positions of an earlier level of its own are refuted, the   *)
(* walk goes back to that level and chooses differently.  A player who     *)
(* has no level to go back to has lost the game.  When solutions are       *)
(* enumerated, a winning first move is blocked and the search starts over. *)
(*                                                                         *)
(* ZigZag is the detailed specification (constraints as circuits, cuts,    *)
(* cores, the trail) that implements this one.                             *)
(***************************************************************************)
EXTENDS Qbf

CONSTANTS
    Full,        \* options.full: every abstraction starts from the matrix
    MayRestart,  \* a learned constraint may also restart the walk
    Enumerate,   \* options.enumerate
    Project      \* enumeration: the first-level variables solutions are told apart by

ASSUME OptionsAssumption == {Full, MayRestart, Enumerate} \subseteq BOOLEAN
ASSUME ProjectAssumption == Project \subseteq Upto(0)
ASSUME EnumerateAssumption == Enumerate => QType[0] = "EXISTENTIAL"

VARIABLES
    matrix,   \* the assignments that satisfy the formula; never changes
    lev,      \* the level whose turn it is
    vals,     \* the moves made at the levels below lev
    allowed,  \* the abstraction of every level
    blocked,  \* the solutions reported so far, projected
    status    \* the answer of the current search: "UNDEF", "TRUE" or "FALSE"

vars == <<matrix, lev, vals, allowed, blocked, status>>

TypeOK ==
    /\ matrix \subseteq Assign
    /\ lev \in Turn
    /\ vals \in [Below(lev) -> BOOLEAN]
    /\ allowed \in [Turn -> SUBSET Assign]
    /\ blocked \subseteq [Project -> BOOLEAN]
    /\ status \in {"UNDEF", "TRUE", "FALSE"}

-----------------------------------------------------------------------------
(* Plausible mistake: the ones below l, as if init went up the levels.     *)
LoweredUpwards(l, e) ==
    [v \in Var |-> IF QLev[v] < l /\ QType[QLev[v]] # Player(l) THEN FALSE ELSE e[v]]

(* The opponent's variables above l put to false. *)
Lowered(l, e) ==
    [v \in Var |-> IF QLev[v] > l /\ QType[QLev[v]] # Player(l) THEN FALSE ELSE e[v]]

(* The abstraction a level starts with. *)
FirstAbstraction(l, m) ==
    IF Full
    THEN {e \in Assign : Lowered(l, e) \in Good(Player(l), m)}
    ELSE IF l >= N - 1 THEN Good(Player(l), m) ELSE Assign

Init ==
    /\ matrix \in SUBSET Assign
    /\ lev = 0
    /\ vals = [v \in {} |-> FALSE]
    /\ allowed = [l \in Turn |-> FirstAbstraction(l, matrix)]
    /\ blocked = {}
    /\ status = "UNDEF"

-----------------------------------------------------------------------------
(* What the player on turn could still play if it took back its own moves  *)
(* and the opponent only the moves below level bt.                         *)
Replies(bt) ==
    {e \in allowed[lev] :
        \A v \in Below(lev) :
            QLev[v] >= bt /\ QType[QLev[v]] # Player(lev) => e[v] = vals[v]}

Stuck == ~ \E e \in allowed[lev] : Agree(e, vals, Below(lev))

(* The player on turn extends the moves made so far. *)
Move ==
    /\ status = "UNDEF"
    /\ lev < N
    /\ \E e \in allowed[lev] :
        /\ Agree(e, vals, Below(lev))
        /\ vals' = Restrict(e, Upto(lev))
    /\ lev' = lev + 1
    /\ UNCHANGED <<matrix, allowed, blocked, status>>

(* Plausible mistakes: positions are excluded that were not refuted; the   *)
(* one just refuted need not be among them.                                *)
LearnUnrefuted(bt, R) ==
    /\ status = "UNDEF" /\ Stuck
    /\ bt < lev /\ Player(bt) = Player(lev)
    /\ Restrict(vals, Upto(bt)) \in R
    /\ allowed' = [allowed EXCEPT ![bt] = {e \in @ : Restrict(e, Upto(bt)) \notin R}]
    /\ lev' = bt
    /\ vals' = Restrict(vals, Below(lev'))
    /\ UNCHANGED <<matrix, blocked, status>>
LearnNothing(bt, R) ==
    /\ status = "UNDEF" /\ Stuck
    /\ bt < lev /\ Player(bt) = Player(lev)
    /\ \A e \in Replies(bt) : Restrict(e, Upto(bt)) \notin R
    /\ allowed' = [allowed EXCEPT ![bt] = {e \in @ : Restrict(e, Upto(bt)) \notin R}]
    /\ lev' = bt
    /\ vals' = Restrict(vals, Below(lev'))
    /\ UNCHANGED <<matrix, blocked, status>>

(* The player on turn cannot move: the positions R of its level bt, the    *)
(* one it came through among them, are refuted.                            *)
Learn(bt, R) ==
    /\ status = "UNDEF"
    /\ Stuck
    /\ bt < lev /\ Player(bt) = Player(lev)
    /\ Restrict(vals, Upto(bt)) \in R
    /\ \A e \in Replies(bt) : Restrict(e, Upto(bt)) \notin R
    /\ allowed' = [allowed EXCEPT ![bt] = {e \in @ : Restrict(e, Upto(bt)) \notin R}]
    /\ \/ lev' = bt
       \/ MayRestart /\ lev' = 0
    /\ vals' = Restrict(vals, Below(lev'))
    /\ UNCHANGED <<matrix, blocked, status>>

(* Plausible mistake: the first conflict decides.                          *)
LoseWhenStuck ==
    /\ status = "UNDEF"
    /\ Stuck
    /\ status' = IF Player(lev) = "UNIVERSAL" THEN "TRUE" ELSE "FALSE"
    /\ UNCHANGED <<matrix, lev, vals, allowed, blocked>>

(* The player on turn cannot move whatever it had played: it has lost. *)
Lose ==
    /\ status = "UNDEF"
    /\ Replies(-1) = {}
    /\ status' = IF Player(lev) = "UNIVERSAL" THEN "TRUE" ELSE "FALSE"
    /\ UNCHANGED <<matrix, lev, vals, allowed, blocked>>

(* Enumeration: the first move found is reported, blocked, and the search  *)
(* for another one begins.                                                 *)
Block ==
    /\ Enumerate
    /\ status = "TRUE"
    /\ blocked' = blocked \cup {Restrict(vals, Project)}
    /\ allowed' = [allowed EXCEPT ![0] = {e \in @ : ~ Agree(e, vals, Project)}]
    /\ lev' = 0
    /\ vals' = [v \in {} |-> FALSE]
    /\ status' = "UNDEF"
    /\ UNCHANGED matrix

Finished == status = "FALSE" \/ (status = "TRUE" /\ ~ Enumerate)

Terminated == Finished /\ UNCHANGED vars

Next ==
    \/ Move
    \/ \E bt \in Level : \E R \in SUBSET [Upto(bt) -> BOOLEAN] : Learn(bt, R)
    \/ Lose
    \/ Block
    \/ Terminated

(* One thread runs the loop and nothing in it waits: as long as there is a *)
(* step to take it is taken.                                               *)
Fairness == WF_vars(Next)

Spec == Init /\ [][Next]_vars
FairSpec == Spec /\ Fairness

-----------------------------------------------------------------------------
(* The heart of the loop's soundness: an abstraction never gives up a      *)
(* winning position.  Where the player of a level can still force its goal *)
(* the abstraction has an assignment for the position, whatever was        *)
(* learned at this level and above; only a first move that was already     *)
(* reported is gone.                                                       *)
AbstractionSound ==
    \A l \in Turn, p \in Assign :
        /\ Winning(Player(l), l, p, matrix)
        /\ l = 0 => Restrict(p, Project) \notin blocked
        => \E e \in allowed[l] : Agree(e, p, Upto(l))

(* The moves made so far are all still allowed by the levels that made     *)
(* them: learning at level bt throws away every move from bt on.           *)
MovesAllowed ==
    \A l \in 0 .. lev - 1 : \E e \in allowed[l] : Agree(e, vals, Upto(l))

(* No level allows more than its first abstraction did, and the last       *)
(* player has nothing to choose once the level before it won.              *)
OnlyShrinks ==
    \A l \in {N - 1, N} : allowed[l] \subseteq Good(Player(l), matrix)

(* The solver of the last level never finds a model (the assertion that a  *)
(* level with a solution has variables, zigzag.cpp:158).                   *)
LastLevelLoses == status = "UNDEF" /\ lev = N => Stuck

(* Nothing is blocked unless solutions are enumerated. *)
BlocksOnlySolutions == ~ Enumerate => blocked = {}

(* A solution that is about to be reported has a first move (the assertion *)
(* of block_solution, zigzag.cpp:87), and the universal player cannot      *)
(* refute the formula once that move is made.                              *)
SolutionFound ==
    Enumerate /\ status = "TRUE" =>
        /\ lev > 0
        /\ \A p \in Assign :
            Agree(p, vals, Upto(0)) => ~ Winning("UNIVERSAL", 0, p, matrix)

(* The verdict is right.  TRUE: the universal player has no strategy that  *)
(* refutes the formula.  FALSE: the existential player has no winning      *)
(* strategy or, when solutions are enumerated, none whose first move was   *)
(* not reported.                                                           *)
VerdictSound ==
    /\ status = "TRUE" => ~ Wins("UNIVERSAL", matrix)
    /\ status = "FALSE" =>
        \A p \in Assign :
            Winning("EXISTENTIAL", 0, p, matrix) /\ QType[0] = "EXISTENTIAL"
                => Restrict(p, Project) \in blocked
    /\ status = "FALSE" /\ ~ Enumerate => ~ Wins("EXISTENTIAL", matrix)

(* Every solution reported is one: the universal player cannot refute the  *)
(* formula once the first move is a reported one.                          *)
ReportedMovesWin ==
    \A s \in blocked :
        \E p \in Assign : Restrict(p, Project) = s /\ ~ Winning("UNIVERSAL", 0, p, matrix)

(* A learned constraint takes something away from the level it is given to *)
(* and from no other: this is why the loop ends.                           *)
LearningShrinks ==
    [][ \A l \in Turn :
            /\ allowed'[l] \subseteq allowed[l]
            /\ lev' < lev /\ status = "UNDEF" =>
                \E bt \in Level :
                    /\ allowed'[bt] # allowed[bt]
                    /\ l # bt => allowed'[l] = allowed[l] ]_vars

(* The loop ends with an answer. *)
Termination == <>Finished
=============================================================================
