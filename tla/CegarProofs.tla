---------------------------- MODULE CegarProofs ----------------------------
(***************************************************************************)
(* The solving loop is sound for every prefix, matrix and option.          *)
(*                                                                         *)
(* The invariant that carries the argument is AbstractionSound: a position *)
(* from which a player can still force its goal is never given up.  Its    *)
(* step is lemma StrategySurvives: a winning strategy from a position of   *)
(* level bt, followed while the opponent repeats the moves in vals, leads  *)
(* to a winning position of level lev, and what remains of the strategy    *)
(* wins there.  A player with such a strategy is not stuck after those     *)
(* moves, so Learn cannot refute the position and Lose cannot be taken.    *)
(***************************************************************************)
EXTENDS Cegar, TLAPS

LEMMA PlayerType == \A l \in Turn : Player(l) \in {"EXISTENTIAL", "UNIVERSAL"}
  <1> SUFFICES ASSUME NEW l \in Turn PROVE Player(l) \in {"EXISTENTIAL", "UNIVERSAL"}
    OBVIOUS
  <1>1. CASE l < N
    BY <1>1, NAssumption, QTypeAssumption DEF Player, Turn
  <1>2. CASE l = N
    <2>1. QType[N - 1] \in {"EXISTENTIAL", "UNIVERSAL"}
      BY NAssumption, QTypeAssumption
    <2> QED
      BY <1>2, <2>1, NAssumption DEF Player, Opponent
  <1> QED
    BY <1>1, <1>2, NAssumption DEF Turn

(* The strategy picks a value for every variable. *)
LEMMA PlayType ==
  ASSUME NEW q, NEW l \in Int, NEW s \in Strategies(q, l), NEW b \in Assign
  PROVE  Play(q, l, s, b) \in Assign
  <1> SUFFICES ASSUME NEW v \in Var
               PROVE  (IF v \in Mine(q, l) THEN s[v][Restrict(b, Seen(v))] ELSE b[v]) \in BOOLEAN
    BY DEF Play, Assign
  <1>1. CASE v \in Mine(q, l)
    <2>1. s[v] \in [[Seen(v) -> BOOLEAN] -> BOOLEAN]
      BY <1>1 DEF Strategies
    <2>2. Restrict(b, Seen(v)) \in [Seen(v) -> BOOLEAN]
      BY DEF Restrict, Assign, Seen, Below
    <2> QED
      BY <1>1, <2>1, <2>2
  <1>2. CASE v \notin Mine(q, l)
    BY <1>2 DEF Assign
  <1> QED
    BY <1>1, <1>2

(* What remains of a strategy above a later level is a strategy. *)
LEMMA StrategyRemainder ==
  ASSUME NEW q, NEW k \in Int, NEW l \in Int, k <= l, NEW s \in Strategies(q, k)
  PROVE  [v \in Mine(q, l) |-> s[v]] \in Strategies(q, l)
  <1>1. Mine(q, l) \subseteq Mine(q, k)
    BY QLevAssumption DEF Mine, Owned
  <1>2. \A v \in Mine(q, l) : s[v] \in [[Seen(v) -> BOOLEAN] -> BOOLEAN]
    BY <1>1 DEF Strategies
  <1> DEFINE t == [v \in Mine(q, l) |-> s[v]]
             rules == UNION {[[Seen(v) -> BOOLEAN] -> BOOLEAN] : v \in Mine(q, l)}
  <1>3. \A v \in Mine(q, l) : s[v] \in rules
    BY <1>2
  <1>4. t \in [Mine(q, l) -> rules]
    BY <1>3
  <1> QED
    BY <1>2, <1>4 DEF Strategies

(* A winning strategy of the player on turn from a position p of level bt  *)
(* (from the start if bt = -1) leads, against the moves the opponent made  *)
(* from there on, to an assignment that the abstraction of lev still has.  *)
LEMMA StrategySurvives ==
  ASSUME TypeOK, AbstractionSound,
         NEW bt \in -1 .. lev - 1, lev = 0 => blocked = {},
         NEW p \in Assign,
         \A v \in Var : QLev[v] = bt /\ QType[QLev[v]] # Player(lev) => p[v] = vals[v],
         Winning(Player(lev), bt, p, matrix)
  PROVE  \E e \in Replies(bt) : Agree(e, p, Upto(bt))
  <1> DEFINE q == Player(lev)
             b == [v \in Var |-> IF QLev[v] <= bt \/ QLev[v] >= lev THEN p[v] ELSE vals[v]]
  <1>0. lev \in Turn /\ lev \in Int /\ bt \in Int /\ bt < lev
    BY NAssumption DEF TypeOK, Turn
  <1>1. \A v \in Var : QLev[v] \in 0 .. N - 1
    BY QLevAssumption
  <1>2. PICK s \in Strategies(q, bt) :
            \A c \in Assign : Agree(c, p, Upto(bt)) => Play(q, bt, s, c) \in Good(q, matrix)
    BY DEF Winning
  <1>3. b \in Assign
    <2> SUFFICES ASSUME NEW v \in Var
                 PROVE  (IF QLev[v] <= bt \/ QLev[v] >= lev THEN p[v] ELSE vals[v]) \in BOOLEAN
      BY DEF Assign
    <2>1. CASE QLev[v] <= bt \/ QLev[v] >= lev
      BY <2>1 DEF Assign
    <2>2. CASE ~ (QLev[v] <= bt \/ QLev[v] >= lev)
      <3>1. v \in Below(lev)
        BY <2>2, <1>0, <1>1 DEF Below
      <3> QED
        BY <2>2, <3>1 DEF TypeOK
    <2> QED
      BY <2>1, <2>2
  <1> DEFINE r == Play(q, bt, s, b)
             t == [v \in Mine(q, lev) |-> s[v]]
  <1>4. r \in Assign
    BY <1>0, <1>3, PlayType
  <1>5. t \in Strategies(q, lev)
    BY <1>0, StrategyRemainder
  <1>6. \A v \in Var : v \notin Mine(q, bt) => r[v] = b[v]
    BY DEF Play
  <1>7. \A v \in Var : v \in Mine(q, bt) => r[v] = s[v][Restrict(b, Seen(v))]
    BY DEF Play
  <1> HIDE DEF r, b, t, q
  <1>8. ASSUME NEW c \in Assign, Agree(c, r, Upto(lev))
        PROVE  Play(q, lev, t, c) \in Good(q, matrix)
    <2>1. Agree(c, p, Upto(bt))
      <3> SUFFICES ASSUME NEW v \in Upto(bt) PROVE c[v] = p[v]
        BY DEF Agree
      <3>1. v \in Var /\ v \in Upto(lev) /\ v \notin Mine(q, bt) /\ QLev[v] <= bt
        BY <1>0, <1>1 DEF Upto, Mine
      <3>2. b[v] = p[v]
        BY <3>1 DEF b
      <3> QED
        BY <3>1, <3>2, <1>6, <1>8 DEF Agree
    <2>2. Play(q, bt, s, c) \in Good(q, matrix)
      BY <1>2, <2>1
    <2>3. ASSUME NEW v \in Mine(q, bt), v \notin Mine(q, lev)
          PROVE  c[v] = s[v][Restrict(c, Seen(v))]
      <3>1. v \in Var /\ QLev[v] <= lev /\ QLev[v] > bt /\ QType[QLev[v]] = q
        BY <2>3, <1>0, <1>1 DEF Mine, Owned
      <3>2. c[v] = r[v]
        BY <3>1, <1>8 DEF Agree, Upto
      <3>3. \A u \in Seen(v) : c[u] = b[u]
        <4> SUFFICES ASSUME NEW u \in Seen(v) PROVE c[u] = b[u]
          OBVIOUS
        <4>1. u \in Var /\ QLev[u] < QLev[v] /\ QType[QLev[u]] # q
          BY <3>1 DEF Seen, Below
        <4>2. u \in Upto(lev)
          BY <4>1, <3>1, <1>0, <1>1 DEF Upto
        <4>3. u \notin Mine(q, bt)
          BY <4>1 DEF Mine, Owned
        <4> QED
          BY <4>1, <4>2, <4>3, <1>6, <1>8 DEF Agree
      <3>4. Restrict(c, Seen(v)) = Restrict(b, Seen(v))
        BY <3>3 DEF Restrict
      <3> QED
        BY <3>1, <3>2, <3>4, <1>7, <2>3
    <2>4. \A v \in Var :
            (IF v \in Mine(q, lev) THEN t[v][Restrict(c, Seen(v))] ELSE c[v])
              = (IF v \in Mine(q, bt) THEN s[v][Restrict(c, Seen(v))] ELSE c[v])
      <3> SUFFICES ASSUME NEW v \in Var
                   PROVE  (IF v \in Mine(q, lev) THEN t[v][Restrict(c, Seen(v))] ELSE c[v])
                            = (IF v \in Mine(q, bt) THEN s[v][Restrict(c, Seen(v))] ELSE c[v])
        OBVIOUS
      <3>1. CASE v \in Mine(q, lev)
        <4>1. v \in Mine(q, bt)
          BY <3>1, <1>0, <1>1 DEF Mine, Owned
        <4>2. t[v] = s[v]
          BY <3>1 DEF t
        <4> QED
          BY <3>1, <4>1, <4>2
      <3>2. CASE v \notin Mine(q, lev) /\ v \in Mine(q, bt)
        BY <3>2, <2>3
      <3>3. CASE v \notin Mine(q, lev) /\ v \notin Mine(q, bt)
        BY <3>3
      <3> QED
        BY <3>1, <3>2, <3>3
    <2>5. Play(q, lev, t, c) = Play(q, bt, s, c)
      BY <2>4 DEF Play
    <2> QED
      BY <2>2, <2>5
  <1>9. Winning(q, lev, r, matrix)
    BY <1>5, <1>8 DEF Winning
  <1>10. PICK e \in allowed[lev] : Agree(e, r, Upto(lev))
    <2>1. lev = 0 => Restrict(r, Project) \notin blocked
      OBVIOUS
    <2> QED
      BY <1>0, <1>4, <1>9, <2>1 DEF AbstractionSound, q
  <1>11. Agree(e, p, Upto(bt))
    <2> SUFFICES ASSUME NEW v \in Upto(bt) PROVE e[v] = p[v]
      BY DEF Agree
    <2>1. v \in Var /\ v \in Upto(lev) /\ v \notin Mine(q, bt) /\ QLev[v] <= bt
      BY <1>0, <1>1 DEF Upto, Mine
    <2>2. b[v] = p[v]
      BY <2>1 DEF b
    <2> QED
      BY <2>1, <2>2, <1>6, <1>10 DEF Agree
  <1>12. ASSUME NEW v \in Below(lev), QLev[v] >= bt, QType[QLev[v]] # Player(lev)
         PROVE  e[v] = vals[v]
    <2>1. v \in Var /\ v \in Upto(lev) /\ v \notin Mine(q, bt)
      BY <1>12, <1>0, <1>1 DEF Upto, Below, Mine, Owned, q
    <2>2. CASE QLev[v] = bt
      <3>1. b[v] = p[v]
        BY <2>1, <2>2, <1>0 DEF b
      <3> QED
        BY <2>1, <2>2, <3>1, <1>6, <1>10, <1>12 DEF Agree
    <2>3. CASE QLev[v] # bt
      <3>1. b[v] = vals[v]
        BY <2>1, <2>3, <1>0, <1>1, <1>12 DEF b, Below
      <3> QED
        BY <2>1, <3>1, <1>6, <1>10 DEF Agree
    <2> QED
      BY <2>2, <2>3
  <1> QED
    BY <1>10, <1>11, <1>12 DEF Replies

-----------------------------------------------------------------------------
(* Once the loop has an answer and a first move, the loser has no winning  *)
(* strategy after that move.                                               *)
Loser == IF status = "TRUE" THEN "UNIVERSAL" ELSE "EXISTENTIAL"
FirstMoveDecides ==
    status # "UNDEF" /\ lev > 0 =>
        \A p \in Assign : Agree(p, vals, Upto(0)) => ~ Winning(Loser, 0, p, matrix)

(* The first level does not allow what was reported. *)
ReportedOnce == \A e \in allowed[0] : Restrict(e, Project) \notin blocked

(* The inductive invariant. *)
IInv ==
    /\ TypeOK
    /\ AbstractionSound
    /\ MovesAllowed
    /\ OnlyShrinks
    /\ BlocksOnlySolutions
    /\ SolutionFound
    /\ VerdictSound
    /\ ReportedMovesWin
    /\ FirstMoveDecides
    /\ ReportedOnce

LEMMA FirstAbstractionType ==
  ASSUME NEW l \in Turn, NEW m \in SUBSET Assign
  PROVE  FirstAbstraction(l, m) \subseteq Assign
  BY DEF FirstAbstraction, Good

(* The first abstractions are sound: the play a strategy gives when the    *)
(* opponent puts all of its later variables to false is in them.           *)
LEMMA FirstAbstractionSound ==
  ASSUME NEW m \in SUBSET Assign, NEW l \in Turn, NEW p \in Assign,
         Winning(Player(l), l, p, m)
  PROVE  \E e \in FirstAbstraction(l, m) : Agree(e, p, Upto(l))
  <1> DEFINE q == Player(l)
             b == [v \in Var |-> IF QLev[v] > l THEN FALSE ELSE p[v]]
  <1>1. \A v \in Var : QLev[v] \in 0 .. N - 1
    BY QLevAssumption
  <1>2. l \in Int
    BY NAssumption DEF Turn
  <1>3. PICK s \in Strategies(q, l) :
            \A c \in Assign : Agree(c, p, Upto(l)) => Play(q, l, s, c) \in Good(q, m)
    BY DEF Winning
  <1>4. b \in Assign
    BY DEF Assign
  <1>5. Agree(b, p, Upto(l))
    <2> SUFFICES ASSUME NEW v \in Upto(l) PROVE b[v] = p[v]
      BY DEF Agree
    <2>1. v \in Var /\ ~ (QLev[v] > l)
      BY <1>1, <1>2 DEF Upto
    <2> QED
      BY <2>1
  <1> DEFINE e == Play(q, l, s, b)
  <1>6. e \in Assign /\ e \in Good(q, m)
    BY <1>2, <1>3, <1>4, <1>5, PlayType
  <1>7. \A v \in Var : v \notin Mine(q, l) => e[v] = b[v]
    BY DEF Play
  <1> HIDE DEF e
  <1>8. Agree(e, p, Upto(l))
    <2> SUFFICES ASSUME NEW v \in Upto(l) PROVE e[v] = p[v]
      BY DEF Agree
    <2>1. v \in Var /\ QLev[v] <= l
      BY DEF Upto
    <2>2. v \notin Mine(q, l)
      BY <2>1, <1>1, <1>2 DEF Mine
    <2> QED
      BY <2>1, <2>2, <1>7, <1>5 DEF Agree
  <1>9. Lowered(l, e) = e
    <2>1. ASSUME NEW v \in Var, QLev[v] > l, QType[QLev[v]] # Player(l)
          PROVE  e[v] = FALSE
      <3>1. v \notin Mine(q, l)
        BY <2>1 DEF Mine, Owned
      <3> QED
        BY <3>1, <2>1, <1>7
    <2>2. [v \in Var |-> e[v]] = e
      BY <1>6 DEF Assign
    <2>3. Lowered(l, e) = [v \in Var |-> e[v]]
      BY <2>1 DEF Lowered
    <2> QED
      BY <2>2, <2>3
  <1> QED
    BY <1>6, <1>8, <1>9 DEF FirstAbstraction

LEMMA InitIInv == Init => IInv
  <1> SUFFICES ASSUME Init PROVE IInv
    OBVIOUS
  <1>1. matrix \in SUBSET Assign /\ lev = 0 /\ blocked = {} /\ status = "UNDEF"
    BY DEF Init
  <1>2. \A l \in Turn : allowed[l] = FirstAbstraction(l, matrix)
    BY DEF Init
  <1>3. TypeOK
    <2>1. allowed \in [Turn -> SUBSET Assign]
      BY <1>1, FirstAbstractionType DEF Init
    <2>2. lev \in Turn
      BY <1>1, NAssumption DEF Turn
    <2>3. Below(0) = {}
      BY QLevAssumption DEF Below
    <2>4. vals \in [Below(lev) -> BOOLEAN]
      BY <1>1, <2>3 DEF Init
    <2> QED
      BY <1>1, <2>1, <2>2, <2>4 DEF TypeOK
  <1>4. AbstractionSound
    <2> SUFFICES ASSUME NEW l \in Turn, NEW p \in Assign, Winning(Player(l), l, p, matrix)
                 PROVE  \E e \in allowed[l] : Agree(e, p, Upto(l))
      BY DEF AbstractionSound
    <2> QED
      BY <1>1, <1>2, FirstAbstractionSound
  <1>5. MovesAllowed
    BY <1>1 DEF MovesAllowed
  <1>6. OnlyShrinks
    <2> SUFFICES ASSUME NEW l \in {N - 1, N} PROVE allowed[l] \subseteq Good(Player(l), matrix)
      BY DEF OnlyShrinks
    <2>1. l \in Turn /\ l \in Int /\ l >= N - 1
      BY NAssumption DEF Turn
    <2>2. \A e \in Assign : Lowered(l, e) = e
      <3> SUFFICES ASSUME NEW e \in Assign PROVE Lowered(l, e) = e
        OBVIOUS
      <3>1. \A v \in Var : ~ (QLev[v] > l)
        BY <2>1, QLevAssumption, NAssumption
      <3>2. Lowered(l, e) = [v \in Var |-> e[v]]
        BY <3>1 DEF Lowered
      <3> QED
        BY <3>2 DEF Assign
    <2>3. CASE Full
      BY <1>2, <2>1, <2>2, <2>3 DEF FirstAbstraction
    <2>4. CASE ~ Full
      BY <1>2, <2>1, <2>4 DEF FirstAbstraction
    <2> QED
      BY <2>3, <2>4
  <1>7. BlocksOnlySolutions
    BY <1>1 DEF BlocksOnlySolutions
  <1>8. SolutionFound
    BY <1>1 DEF SolutionFound
  <1>9. VerdictSound /\ ReportedMovesWin
    BY <1>1 DEF VerdictSound, ReportedMovesWin
  <1>10. FirstMoveDecides /\ ReportedOnce
    BY <1>1 DEF FirstMoveDecides, ReportedOnce
  <1> QED
    BY <1>3, <1>4, <1>5, <1>6, <1>7, <1>8, <1>9, <1>10 DEF IInv

-----------------------------------------------------------------------------
(* One lemma per action. *)

LEMMA BelowUpto ==
  ASSUME NEW l \in Int
  PROVE  Below(l + 1) = Upto(l) /\ Below(l) \subseteq Upto(l) /\ Below(0) = {}
  BY QLevAssumption DEF Below, Upto

LEMMA MoveIInv == IInv /\ Move => IInv'
  <1> SUFFICES ASSUME IInv, Move PROVE IInv'
    OBVIOUS
  <1>1. lev \in Turn /\ lev \in Int /\ lev < N /\ lev' = lev + 1
    BY NAssumption DEF IInv, TypeOK, Move, Turn
  <1>2. UNCHANGED <<matrix, allowed, blocked, status>> /\ status = "UNDEF"
    BY DEF Move
  <1>3. PICK e \in allowed[lev] : Agree(e, vals, Below(lev)) /\ vals' = Restrict(e, Upto(lev))
    BY DEF Move
  <1>4. TypeOK'
    <2>1. lev + 1 \in Turn
      BY <1>1, NAssumption DEF Turn
    <2>2. e \in Assign
      BY <1>1, <1>3 DEF IInv, TypeOK
    <2>3. Restrict(e, Upto(lev)) \in [Upto(lev) -> BOOLEAN]
      BY <2>2 DEF Restrict, Assign, Upto
    <2>4. vals' \in [Below(lev') -> BOOLEAN]
      BY <1>1, <1>3, <2>3, BelowUpto
    <2> QED
      BY <1>1, <1>2, <2>1, <2>4 DEF IInv, TypeOK
  <1>5. AbstractionSound'
    BY <1>2 DEF IInv, AbstractionSound
  <1>6. MovesAllowed'
    <2> SUFFICES ASSUME NEW l \in 0 .. lev
                 PROVE  \E f \in allowed[l] : Agree(f, vals', Upto(l))
      BY <1>1, <1>2 DEF MovesAllowed
    <2>1. CASE l = lev
      BY <1>3, <2>1 DEF Agree, Restrict
    <2>2. CASE l < lev
      <3>1. PICK f \in allowed[l] : Agree(f, vals, Upto(l))
        BY <1>1, <1>2, <2>2 DEF IInv, MovesAllowed
      <3>2. \A v \in Upto(l) : v \in Below(lev) /\ v \in Upto(lev)
        BY <1>1, <2>2, QLevAssumption DEF Upto, Below
      <3>3. \A v \in Upto(l) : vals'[v] = vals[v]
        BY <1>3, <3>2 DEF Agree, Restrict
      <3> QED
        BY <3>1, <3>3 DEF Agree
    <2> QED
      BY <1>1, <2>1, <2>2
  <1> QED
    BY <1>2, <1>4, <1>5, <1>6 DEF IInv, OnlyShrinks, BlocksOnlySolutions, SolutionFound,
      VerdictSound, ReportedMovesWin, FirstMoveDecides, ReportedOnce

(* What a level learns never takes a winning position away. *)
LEMMA LearnSound ==
  ASSUME IInv, NEW bt \in Level, NEW R, Learn(bt, R)
  PROVE  AbstractionSound'
  <1> SUFFICES ASSUME NEW l \in Turn, NEW p \in Assign, Winning(Player(l), l, p, matrix),
                      l = 0 => Restrict(p, Project) \notin blocked
               PROVE  \E e \in allowed'[l] : Agree(e, p, Upto(l))
    BY DEF AbstractionSound, Learn
  <1>1. PICK e \in allowed[l] : Agree(e, p, Upto(l))
    BY DEF IInv, AbstractionSound
  <1>2. bt \in Int /\ lev \in Int /\ 0 <= bt /\ bt < lev /\ bt < N /\ bt \in Turn
    BY NAssumption DEF IInv, TypeOK, Learn, Level, Turn
  <1>3. allowed' = [allowed EXCEPT ![bt] = {f \in @ : Restrict(f, Upto(bt)) \notin R}]
    BY DEF Learn
  <1>4. CASE l # bt
    BY <1>1, <1>3, <1>4 DEF IInv, TypeOK
  <1>5. CASE l = bt
    <2>1. Winning(Player(lev), bt, p, matrix)
      BY <1>5 DEF Learn
    <2>2. \A v \in Var : QLev[v] = bt /\ QType[QLev[v]] # Player(lev) => p[v] = vals[v]
      BY <1>2 DEF Learn, Player
    <2>3. PICK f \in Replies(bt) : Agree(f, p, Upto(bt))
      BY <1>2, <2>1, <2>2, StrategySurvives DEF IInv
    <2>4. Restrict(f, Upto(bt)) \notin R
      BY DEF Learn
    <2>5. Restrict(e, Upto(bt)) = Restrict(f, Upto(bt))
      BY <1>1, <1>5, <2>3 DEF Agree, Restrict
    <2>6. e \in allowed'[bt]
      BY <1>1, <1>2, <1>3, <1>5, <2>4, <2>5 DEF IInv, TypeOK
    <2> QED
      BY <1>1, <1>5, <2>6
  <1> QED
    BY <1>4, <1>5

LEMMA LearnIInv == ASSUME IInv, NEW bt \in Level, NEW R, Learn(bt, R) PROVE IInv'
  <1>1. bt \in Int /\ lev \in Int /\ 0 <= bt /\ bt < lev /\ bt < N /\ bt \in Turn
    BY NAssumption DEF IInv, TypeOK, Learn, Level, Turn
  <1>2. allowed' = [allowed EXCEPT ![bt] = {f \in @ : Restrict(f, Upto(bt)) \notin R}]
    BY DEF Learn
  <1>3. PICK k \in 0 .. bt : lev' = k
    BY <1>1 DEF Learn
  <1>4. vals' = Restrict(vals, Below(k))
    BY <1>3 DEF Learn
  <1>5. UNCHANGED <<matrix, blocked, status>> /\ status = "UNDEF"
    BY DEF Learn
  <1>6. \A l \in Turn : allowed'[l] \subseteq allowed[l]
    BY <1>2 DEF IInv, TypeOK
  <1>7. \A v \in Below(k) : v \in Below(lev)
    BY <1>1, <1>3, QLevAssumption DEF Below
  <1>8. TypeOK'
    <2>1. lev' \in Turn
      BY <1>1, <1>3, NAssumption DEF Turn
    <2>2. vals' \in [Below(lev') -> BOOLEAN]
      BY <1>3, <1>4, <1>7 DEF IInv, TypeOK, Restrict
    <2>3. allowed' \in [Turn -> SUBSET Assign]
      BY <1>2, <1>6 DEF IInv, TypeOK
    <2> QED
      BY <1>5, <2>1, <2>2, <2>3 DEF IInv, TypeOK
  <1>9. AbstractionSound'
    BY LearnSound
  <1>10. MovesAllowed'
    <2> SUFFICES ASSUME NEW l \in 0 .. k - 1
                 PROVE  \E e \in allowed'[l] : Agree(e, vals', Upto(l))
      BY <1>3 DEF MovesAllowed
    <2>1. l # bt /\ l \in Turn /\ l \in 0 .. lev - 1
      BY <1>1, NAssumption DEF Turn
    <2>2. allowed'[l] = allowed[l]
      BY <1>2, <2>1 DEF IInv, TypeOK
    <2>3. PICK e \in allowed[l] : Agree(e, vals, Upto(l))
      BY <1>5, <2>1 DEF IInv, MovesAllowed
    <2>4. \A v \in Upto(l) : v \in Below(k)
      BY QLevAssumption DEF Upto, Below
    <2>5. \A v \in Upto(l) : vals'[v] = vals[v]
      BY <1>4, <2>4 DEF Restrict
    <2> QED
      BY <2>2, <2>3, <2>5 DEF Agree
  <1>11. OnlyShrinks'
    <2>1. N - 1 \in Turn /\ N \in Turn
      BY NAssumption DEF Turn
    <2> QED
      BY <1>5, <1>6, <2>1 DEF IInv, OnlyShrinks
  <1>12. ReportedOnce'
    <2>1. 0 \in Turn
      BY NAssumption DEF Turn
    <2> QED
      BY <1>5, <1>6, <2>1 DEF IInv, ReportedOnce
  <1> QED
    BY <1>5, <1>8, <1>9, <1>10, <1>11, <1>12 DEF IInv, BlocksOnlySolutions, SolutionFound, VerdictSound,
      ReportedMovesWin, FirstMoveDecides

(* A player with no reply left has no winning strategy from the start, nor *)
(* from the opponent's first move.                                         *)
LEMMA Cornered ==
  ASSUME IInv, Replies(-1) = {}, NEW bt \in {-1, 0}, bt < lev, lev = 0 => blocked = {},
         NEW p \in Assign,
         \A v \in Var : QLev[v] = bt /\ QType[QLev[v]] # Player(lev) => p[v] = vals[v]
  PROVE  ~ Winning(Player(lev), bt, p, matrix)
  <1> SUFFICES ASSUME Winning(Player(lev), bt, p, matrix) PROVE FALSE
    OBVIOUS
  <1>1. bt \in -1 .. lev - 1
    BY NAssumption DEF IInv, TypeOK, Turn
  <1>2. PICK e \in Replies(bt) : TRUE
    BY <1>1, StrategySurvives DEF IInv
  <1>3. e \in allowed[lev]
    BY DEF Replies
  <1>4. ASSUME NEW v \in Below(lev), QType[QLev[v]] # Player(lev)
        PROVE  e[v] = vals[v]
    <2>1. QLev[v] >= bt
      BY QLevAssumption DEF Below
    <2> QED
      BY <1>4, <2>1 DEF Replies
  <1>5. e \in Replies(-1)
    BY <1>3, <1>4 DEF Replies
  <1> QED
    BY <1>5

LEMMA LoseIInv == IInv /\ Lose => IInv'
  <1> SUFFICES ASSUME IInv, Lose PROVE IInv'
    OBVIOUS
  <1>1. UNCHANGED <<matrix, lev, vals, allowed, blocked>> /\ Replies(-1) = {}
    BY DEF Lose
  <1>2. lev \in Turn /\ lev \in Int /\ lev >= 0
    BY NAssumption DEF IInv, TypeOK, Turn
  <1>3. Player(lev) \in {"EXISTENTIAL", "UNIVERSAL"}
    BY <1>2, PlayerType
  <1>4. status' = IF Player(lev) = "UNIVERSAL" THEN "TRUE" ELSE "FALSE"
    BY DEF Lose
  <1>5. lev = 0 => Player(lev) = QType[0]
    BY NAssumption DEF Player
  <1>6. ASSUME lev = 0 => ~ Enumerate, NEW p \in Assign
        PROVE  ~ Winning(Player(lev), -1, p, matrix)
    <2>1. \A v \in Var : QLev[v] # -1
      BY QLevAssumption
    <2>2. lev = 0 => blocked = {}
      BY <1>6 DEF IInv, BlocksOnlySolutions
    <2> QED
      BY <1>1, <1>2, <2>1, <2>2, Cornered
  <1>7. ASSUME lev > 0, NEW p \in Assign, Agree(p, vals, Upto(0)) \/ Player(lev) = QType[0]
        PROVE  ~ Winning(Player(lev), 0, p, matrix)
    <2>1. \A v \in Var : QLev[v] = 0 /\ QType[QLev[v]] # Player(lev) => p[v] = vals[v]
      BY <1>7 DEF Agree, Upto
    <2> QED
      BY <1>1, <1>2, <1>7, <2>1, Cornered
  <1>8. TypeOK'
    BY <1>1, <1>4 DEF IInv, TypeOK
  <1>9. SolutionFound'
    <2> SUFFICES ASSUME Enumerate, status' = "TRUE"
                 PROVE  /\ lev > 0
                        /\ \A p \in Assign :
                            Agree(p, vals, Upto(0)) => ~ Winning("UNIVERSAL", 0, p, matrix)
      BY <1>1 DEF SolutionFound
    <2>1. Player(lev) = "UNIVERSAL"
      BY <1>4
    <2>2. lev > 0
      BY <2>1, <1>2, <1>5, EnumerateAssumption
    <2> QED
      BY <1>7, <2>1, <2>2
  <1>10. VerdictSound'
    <2>1. status' = "TRUE" => ~ Wins("UNIVERSAL", matrix)
      <3> SUFFICES ASSUME status' = "TRUE" PROVE ~ Wins("UNIVERSAL", matrix)
        OBVIOUS
      <3>1. Player(lev) = "UNIVERSAL"
        BY <1>4
      <3>2. lev = 0 => ~ Enumerate
        BY <3>1, <1>5, EnumerateAssumption
      <3>3. [v \in Var |-> FALSE] \in Assign
        BY DEF Assign
      <3> QED
        BY <1>6, <3>1, <3>2, <3>3 DEF Wins
    <2>2. ASSUME status' = "FALSE", NEW p \in Assign, Winning("EXISTENTIAL", 0, p, matrix),
                 QType[0] = "EXISTENTIAL"
          PROVE  Restrict(p, Project) \in blocked
      <3>1. Player(lev) = "EXISTENTIAL"
        BY <2>2, <1>3, <1>4
      <3>2. lev = 0
        BY <2>2, <3>1, <1>2, <1>7
      <3>3. SUFFICES ASSUME Restrict(p, Project) \notin blocked PROVE FALSE
        OBVIOUS
      <3>4. PICK e \in allowed[lev] : Agree(e, p, Upto(lev))
        BY <1>2, <2>2, <3>1, <3>2, <3>3 DEF IInv, AbstractionSound
      <3>5. Below(lev) = {}
        BY <3>2, QLevAssumption DEF Below
      <3>6. e \in Replies(-1)
        BY <3>4, <3>5 DEF Replies
      <3> QED
        BY <1>1, <3>6
    <2>3. status' = "FALSE" /\ ~ Enumerate => ~ Wins("EXISTENTIAL", matrix)
      <3> SUFFICES ASSUME status' = "FALSE", ~ Enumerate PROVE ~ Wins("EXISTENTIAL", matrix)
        OBVIOUS
      <3>1. Player(lev) = "EXISTENTIAL"
        BY <1>3, <1>4
      <3>2. [v \in Var |-> FALSE] \in Assign
        BY DEF Assign
      <3> QED
        BY <1>6, <3>1, <3>2 DEF Wins
    <2> QED
      BY <1>1, <2>1, <2>2, <2>3 DEF VerdictSound
  <1>11. FirstMoveDecides'
    <2> SUFFICES ASSUME lev > 0, NEW p \in Assign, Agree(p, vals, Upto(0))
                 PROVE  ~ Winning(Loser', 0, p, matrix)
      BY <1>1 DEF FirstMoveDecides
    <2>1. Loser' = Player(lev)
      BY <1>3, <1>4 DEF Loser
    <2> QED
      BY <1>7, <2>1
  <1> QED
    BY <1>1, <1>8, <1>9, <1>10, <1>11 DEF IInv, AbstractionSound, MovesAllowed, OnlyShrinks,
      BlocksOnlySolutions, ReportedMovesWin, ReportedOnce

LEMMA BlockIInv == IInv /\ Block => IInv'
  <1> SUFFICES ASSUME IInv, Block PROVE IInv'
    OBVIOUS
  <1>1. Enumerate /\ status = "TRUE" /\ lev > 0 /\ lev \in Turn /\ lev \in Int
    BY NAssumption DEF Block, IInv, SolutionFound, TypeOK, Turn
  <1>2. lev' = 0 /\ status' = "UNDEF" /\ matrix' = matrix /\ 0 \in Turn
    BY NAssumption DEF Block, Turn
  <1>3. blocked' = blocked \cup {Restrict(vals, Project)}
    BY DEF Block
  <1>4. allowed' = [allowed EXCEPT ![0] = {e \in @ : ~ Agree(e, vals, Project)}]
    BY DEF Block
  <1>5. \A l \in Turn : allowed'[l] \subseteq allowed[l]
    BY <1>4 DEF IInv, TypeOK
  <1>6. \A v \in Project : v \in Var /\ v \in Upto(0) /\ v \in Below(lev)
    BY <1>1, ProjectAssumption, QLevAssumption DEF Upto, Below
  <1>7. TypeOK'
    <2>1. vals' \in [Below(lev') -> BOOLEAN]
      BY <1>2, BelowUpto DEF Block
    <2>2. Restrict(vals, Project) \in [Project -> BOOLEAN]
      BY <1>6 DEF IInv, TypeOK, Restrict
    <2>3. allowed' \in [Turn -> SUBSET Assign]
      BY <1>4, <1>5 DEF IInv, TypeOK
    <2> QED
      BY <1>2, <1>3, <2>1, <2>2, <2>3 DEF IInv, TypeOK
  <1>8. AbstractionSound'
    <2> SUFFICES ASSUME NEW l \in Turn, NEW p \in Assign, Winning(Player(l), l, p, matrix),
                        l = 0 => Restrict(p, Project) \notin blocked'
                 PROVE  \E e \in allowed'[l] : Agree(e, p, Upto(l))
      BY <1>2 DEF AbstractionSound
    <2>1. l = 0 => Restrict(p, Project) \notin blocked
      BY <1>3
    <2>2. PICK e \in allowed[l] : Agree(e, p, Upto(l))
      BY <2>1 DEF IInv, AbstractionSound
    <2>3. CASE l # 0
      BY <1>2, <1>4, <2>2, <2>3 DEF IInv, TypeOK
    <2>4. CASE l = 0
      <3>1. ~ Agree(e, vals, Project)
        <4> SUFFICES ASSUME Agree(e, vals, Project) PROVE FALSE
          OBVIOUS
        <4>1. \A v \in Project : p[v] = vals[v]
          BY <1>6, <2>2, <2>4 DEF Agree
        <4>2. Restrict(p, Project) = Restrict(vals, Project)
          BY <4>1 DEF Restrict
        <4> QED
          BY <1>3, <2>4, <4>2
      <3> QED
        BY <1>2, <1>4, <2>2, <2>4, <3>1 DEF IInv, TypeOK
    <2> QED
      BY <2>3, <2>4
  <1>9. MovesAllowed'
    BY <1>2 DEF MovesAllowed
  <1>10. OnlyShrinks'
    <2>1. N - 1 \in Turn /\ N \in Turn
      BY NAssumption DEF Turn
    <2> QED
      BY <1>2, <1>5, <2>1 DEF IInv, OnlyShrinks
  <1>11. ReportedMovesWin'
    <2> SUFFICES ASSUME NEW m \in blocked'
                 PROVE  \E p \in Assign :
                            Restrict(p, Project) = m /\ ~ Winning("UNIVERSAL", 0, p, matrix)
      BY <1>2 DEF ReportedMovesWin
    <2>1. CASE m \in blocked
      BY <2>1 DEF IInv, ReportedMovesWin
    <2>2. CASE m = Restrict(vals, Project)
      <3> DEFINE p == [v \in Var |-> IF v \in Below(lev) THEN vals[v] ELSE FALSE]
      <3>1. p \in Assign
        <4> SUFFICES ASSUME NEW v \in Var
                     PROVE  (IF v \in Below(lev) THEN vals[v] ELSE FALSE) \in BOOLEAN
          BY DEF Assign
        <4> QED
          BY DEF IInv, TypeOK
      <3>2. \A v \in Upto(0) : v \in Var /\ v \in Below(lev)
        BY <1>1, QLevAssumption DEF Upto, Below
      <3>3. Agree(p, vals, Upto(0))
        <4> SUFFICES ASSUME NEW v \in Upto(0) PROVE p[v] = vals[v]
          BY DEF Agree
        <4> QED
          BY <3>2
      <3>4. ~ Winning("UNIVERSAL", 0, p, matrix)
        BY <1>1, <3>1, <3>3 DEF IInv, SolutionFound
      <3>5. Restrict(p, Project) = m
        <4>1. \A v \in Project : p[v] = vals[v]
          BY <1>6, <3>3 DEF Agree
        <4> HIDE DEF p
        <4> QED
          BY <2>2, <4>1 DEF Restrict
      <3> QED
        BY <3>1, <3>4, <3>5
    <2> QED
      BY <1>3, <2>1, <2>2
  <1>12. ReportedOnce'
    <2> SUFFICES ASSUME NEW e \in allowed'[0], Restrict(e, Project) \in blocked' PROVE FALSE
      BY DEF ReportedOnce
    <2>1. e \in allowed[0] /\ ~ Agree(e, vals, Project)
      BY <1>2, <1>4 DEF IInv, TypeOK
    <2>2. Restrict(e, Project) = Restrict(vals, Project)
      BY <1>3, <2>1 DEF IInv, ReportedOnce
    <2>3. \A v \in Project : Restrict(e, Project)[v] = e[v] /\ Restrict(vals, Project)[v] = vals[v]
      BY DEF Restrict
    <2> QED
      BY <2>1, <2>2, <2>3 DEF Agree
  <1> QED
    BY <1>1, <1>2, <1>7, <1>8, <1>9, <1>10, <1>11, <1>12 DEF IInv, BlocksOnlySolutions,
      SolutionFound, VerdictSound, FirstMoveDecides

LEMMA StepIInv == IInv /\ [Next]_vars => IInv'
  <1> SUFFICES ASSUME IInv, [Next]_vars PROVE IInv'
    OBVIOUS
  <1>1. CASE Move
    BY <1>1, MoveIInv
  <1>2. CASE \E bt \in Level : \E R \in SUBSET [Upto(bt) -> BOOLEAN] : Learn(bt, R)
    BY <1>2, LearnIInv
  <1>3. CASE Lose
    BY <1>3, LoseIInv
  <1>4. CASE Block
    BY <1>4, BlockIInv
  <1>5. CASE UNCHANGED vars
    BY <1>5 DEF vars, IInv, TypeOK, AbstractionSound, MovesAllowed, OnlyShrinks,
      BlocksOnlySolutions, SolutionFound, VerdictSound, ReportedMovesWin, FirstMoveDecides, ReportedOnce,
      Loser
  <1> QED
    BY <1>1, <1>2, <1>3, <1>4, <1>5 DEF Next, Terminated

-----------------------------------------------------------------------------
(* One of the players wins from every position: what level l can force is  *)
(* decided by what level l + 1 can.                                        *)

(* After the last move there is nothing left to play. *)
LEMMA GameOver ==
  ASSUME NEW m \in SUBSET Assign, NEW q, NEW e \in Good(q, m)
  PROVE  Winning(q, N - 1, e, m)
  <1>1. e \in Assign /\ N - 1 \in Int
    BY NAssumption DEF Good
  <1>2. Mine(q, N - 1) = {}
    BY NAssumption, QLevAssumption DEF Mine, Owned
  <1> DEFINE s == [v \in Mine(q, N - 1) |-> FALSE]
             rules == UNION {[[Seen(v) -> BOOLEAN] -> BOOLEAN] : v \in Mine(q, N - 1)}
  <1>3. s \in Strategies(q, N - 1)
    <2>1. s \in [Mine(q, N - 1) -> rules]
      BY <1>2
    <2> QED
      BY <1>2, <2>1 DEF Strategies
  <1> HIDE DEF s
  <1>4. ASSUME NEW b \in Assign, Agree(b, e, Upto(N - 1))
        PROVE  Play(q, N - 1, s, b) \in Good(q, m)
    <2>1. \A v \in Var : v \in Upto(N - 1)
      BY NAssumption, QLevAssumption DEF Upto
    <2>2. Play(q, N - 1, s, b) = [v \in Var |-> b[v]]
      BY <1>2 DEF Play
    <2>3. \A v \in Var : b[v] = e[v]
      BY <1>4, <2>1 DEF Agree
    <2>4. [v \in Var |-> b[v]] = e
      BY <1>1, <2>3 DEF Assign
    <2> QED
      BY <2>2, <2>4
  <1> QED
    BY <1>3, <1>4 DEF Winning

(* The same position but for the moves of level l. *)
SameBut(l, e, f) == \A v \in Var : QLev[v] # l => f[v] = e[v]

(* A player on turn wins with a move from which it wins. *)
LEMMA WinningMove ==
  ASSUME NEW m \in SUBSET Assign, NEW l \in Level, NEW e \in Assign, NEW f \in Assign,
         SameBut(l, e, f), Winning(QType[l], l, f, m)
  PROVE  Winning(QType[l], l - 1, e, m)
  <1> DEFINE q == QType[l]
  <1>1. l \in Int /\ l - 1 \in Int /\ \A v \in Var : QLev[v] \in Int
    BY NAssumption, QLevAssumption DEF Level
  <1>2. PICK t \in Strategies(q, l) :
            \A b \in Assign : Agree(b, f, Upto(l)) => Play(q, l, t, b) \in Good(q, m)
    BY DEF Winning
  <1>3. \A v \in Mine(q, l) : t[v] \in [[Seen(v) -> BOOLEAN] -> BOOLEAN]
    BY <1>2 DEF Strategies
  <1>4. \A v : v \in Mine(q, l - 1) <=> v \in Mine(q, l) \/ (v \in Var /\ QLev[v] = l)
    BY <1>1 DEF Mine, Owned
  <1>5. \A v \in Var : QLev[v] = l => v \notin Mine(q, l)
    BY <1>1 DEF Mine
  <1> DEFINE s == [v \in Mine(q, l - 1) |->
                        IF QLev[v] = l THEN [c \in [Seen(v) -> BOOLEAN] |-> f[v]] ELSE t[v]]
             rules == UNION {[[Seen(v) -> BOOLEAN] -> BOOLEAN] : v \in Mine(q, l - 1)}
  <1> HIDE DEF q
  <1>6. ASSUME NEW v \in Mine(q, l - 1) PROVE s[v] \in [[Seen(v) -> BOOLEAN] -> BOOLEAN]
    <2>1. CASE QLev[v] = l
      <3>1. f[v] \in BOOLEAN
        BY DEF Assign, Mine, Owned
      <3>2. s[v] = [c \in [Seen(v) -> BOOLEAN] |-> f[v]]
        BY <2>1
      <3> QED
        BY <3>1, <3>2
    <2>2. CASE QLev[v] # l
      <3>1. v \in Mine(q, l)
        BY <1>4, <2>2
      <3> QED
        BY <1>3, <2>2, <3>1
    <2> QED
      BY <2>1, <2>2
  <1>7. s \in Strategies(q, l - 1)
    <2>1. \A v \in Mine(q, l - 1) : s[v] \in rules
      BY <1>6
    <2> QED
      BY <1>6, <2>1 DEF Strategies
  <1>8. ASSUME NEW b \in Assign, Agree(b, e, Upto(l - 1))
        PROVE  Play(q, l - 1, s, b) \in Good(q, m)
    <2> DEFINE d == [v \in Var |-> IF QLev[v] = l THEN f[v] ELSE b[v]]
    <2>1. d \in Assign
      BY DEF Assign
    <2>2. Agree(d, f, Upto(l))
      <3> SUFFICES ASSUME NEW v \in Upto(l), QLev[v] # l PROVE b[v] = f[v]
        BY DEF Agree, Upto
      <3>1. v \in Var /\ v \in Upto(l - 1)
        BY <1>1 DEF Upto
      <3> QED
        BY <1>8, <3>1 DEF Agree, SameBut
    <2> HIDE DEF d
    <2>3. Play(q, l, t, d) \in Good(q, m)
      BY <1>2, <2>1, <2>2
    <2>4. ASSUME NEW v \in Var
          PROVE  (IF v \in Mine(q, l - 1) THEN s[v][Restrict(b, Seen(v))] ELSE b[v])
                    = (IF v \in Mine(q, l) THEN t[v][Restrict(d, Seen(v))] ELSE d[v])
      <3>1. CASE QLev[v] = l
        <4>1. v \in Mine(q, l - 1) /\ v \notin Mine(q, l)
          BY <1>4, <1>5, <3>1
        <4>2. Restrict(b, Seen(v)) \in [Seen(v) -> BOOLEAN]
          BY DEF Restrict, Assign, Seen, Below
        <4>3. s[v] = [c \in [Seen(v) -> BOOLEAN] |-> f[v]]
          BY <3>1, <4>1
        <4>4. s[v][Restrict(b, Seen(v))] = f[v]
          BY <4>2, <4>3
        <4>5. d[v] = f[v]
          BY <3>1 DEF d
        <4> QED
          BY <4>1, <4>4, <4>5
      <3>2. CASE QLev[v] # l /\ v \in Mine(q, l)
        <4>1. v \in Mine(q, l - 1) /\ s[v] = t[v]
          BY <1>4, <3>2
        <4>2. \A u \in Seen(v) : u \in Var /\ QLev[u] # l
          BY <3>2 DEF Seen, Below, Mine, Owned, q
        <4>3. \A u \in Seen(v) : d[u] = b[u]
          BY <4>2 DEF d
        <4>4. Restrict(d, Seen(v)) = Restrict(b, Seen(v))
          BY <4>3 DEF Restrict
        <4> QED
          BY <3>2, <4>1, <4>4
      <3>3. CASE QLev[v] # l /\ v \notin Mine(q, l)
        <4>1. v \notin Mine(q, l - 1)
          BY <1>4, <3>3
        <4>2. d[v] = b[v]
          BY <3>3 DEF d
        <4> QED
          BY <3>3, <4>1, <4>2
      <3> QED
        BY <3>1, <3>2, <3>3
    <2> HIDE DEF s
    <2>5. Play(q, l - 1, s, b) = Play(q, l, t, d)
      BY <2>4 DEF Play
    <2> QED
      BY <2>3, <2>5
  <1> HIDE DEF s
  <1>9. Winning(q, l - 1, e, m)
    BY <1>7, <1>8 DEF Winning
  <1> QED
    BY <1>9 DEF q

(* A player wins if it wins from every move of the opponent on turn: its   *)
(* strategy looks at the move.                                             *)
LEMMA WinningReplies ==
  ASSUME NEW m \in SUBSET Assign, NEW l \in Level, NEW q, q # QType[l], NEW e \in Assign,
         \A f \in Assign : SameBut(l, e, f) => Winning(q, l, f, m)
  PROVE  Winning(q, l - 1, e, m)
  <1>1. l \in Int /\ l - 1 \in Int /\ \A v \in Var : QLev[v] \in Int
    BY NAssumption, QLevAssumption DEF Level
  <1> DEFINE Beats(t, f) ==
                \A b \in Assign : Agree(b, f, Upto(l)) => Play(q, l, t, b) \in Good(q, m)
             best(f) == CHOOSE t \in Strategies(q, l) : Beats(t, f)
             after(c) == [u \in Var |-> IF QLev[u] = l THEN c[u] ELSE e[u]]
             s == [v \in Mine(q, l - 1) |-> [c \in [Seen(v) -> BOOLEAN] |-> best(after(c))[v][c]]]
             rules == UNION {[[Seen(v) -> BOOLEAN] -> BOOLEAN] : v \in Mine(q, l - 1)}
  <1>2. ASSUME NEW f \in Assign, SameBut(l, e, f)
        PROVE  best(f) \in Strategies(q, l) /\ Beats(best(f), f)
    <2>1. \E t \in Strategies(q, l) : Beats(t, f)
      BY <1>2 DEF Winning
    <2> HIDE DEF Beats
    <2> QED
      BY <2>1
  <1> HIDE DEF best
  <1>3. Mine(q, l - 1) = Mine(q, l)
    BY <1>1 DEF Mine, Owned
  <1>4. ASSUME NEW v \in Mine(q, l), NEW u \in Var, QLev[u] = l
        PROVE  u \in Seen(v)
    BY <1>1, <1>4 DEF Seen, Below, Mine, Owned
  <1>5. ASSUME NEW c, \A u \in Var : QLev[u] = l => c[u] \in BOOLEAN
        PROVE  after(c) \in Assign /\ SameBut(l, e, after(c))
    BY <1>5 DEF Assign, SameBut
  <1> HIDE DEF after
  <1>6. ASSUME NEW v \in Mine(q, l), NEW c \in [Seen(v) -> BOOLEAN]
        PROVE  best(after(c))[v][c] \in BOOLEAN
    <2>1. \A u \in Var : QLev[u] = l => c[u] \in BOOLEAN
      BY <1>4
    <2>2. best(after(c)) \in Strategies(q, l)
      BY <1>2, <1>5, <2>1
    <2>3. best(after(c))[v] \in [[Seen(v) -> BOOLEAN] -> BOOLEAN]
      BY <2>2 DEF Strategies
    <2> QED
      BY <2>3
  <1>7. \A v \in Mine(q, l - 1) : s[v] \in [[Seen(v) -> BOOLEAN] -> BOOLEAN]
    BY <1>3, <1>6
  <1>8. s \in Strategies(q, l - 1)
    <2>1. \A v \in Mine(q, l - 1) : s[v] \in rules
      BY <1>7
    <2> QED
      BY <1>7, <2>1 DEF Strategies
  <1>9. \A v \in Mine(q, l) : \A c \in [Seen(v) -> BOOLEAN] : s[v][c] = best(after(c))[v][c]
    BY <1>3
  <1> HIDE DEF s
  <1>10. ASSUME NEW b \in Assign, Agree(b, e, Upto(l - 1))
         PROVE  Play(q, l - 1, s, b) \in Good(q, m)
    <2> DEFINE f == after(b)
    <2>1. f \in Assign /\ SameBut(l, e, f)
      BY <1>5 DEF Assign
    <2>2. Agree(b, f, Upto(l))
      <3> SUFFICES ASSUME NEW v \in Upto(l) PROVE b[v] = f[v]
        BY DEF Agree
      <3>1. CASE QLev[v] = l
        BY <3>1 DEF after, Upto
      <3>2. CASE QLev[v] # l
        <4>1. v \in Var /\ v \in Upto(l - 1)
          BY <1>1, <3>2 DEF Upto
        <4> QED
          BY <1>10, <2>1, <3>2, <4>1 DEF Agree, SameBut
      <3> QED
        BY <3>1, <3>2
    <2> HIDE DEF f
    <2>3. Play(q, l, best(f), b) \in Good(q, m)
      BY <1>2, <2>1, <2>2
    <2>4. ASSUME NEW v \in Mine(q, l)
          PROVE  s[v][Restrict(b, Seen(v))] = best(f)[v][Restrict(b, Seen(v))]
      <3> DEFINE c == Restrict(b, Seen(v))
      <3>1. c \in [Seen(v) -> BOOLEAN]
        BY DEF Restrict, Assign, Seen, Below
      <3>2. \A u \in Var : QLev[u] = l => c[u] = b[u]
        BY <1>4 DEF Restrict
      <3> HIDE DEF c
      <3>3. after(c) = f
        BY <3>2 DEF after, f
      <3>4. s[v][c] = best(f)[v][c]
        BY <1>9, <3>1, <3>3
      <3> QED
        BY <3>4 DEF c
    <2>5. Play(q, l - 1, s, b) = Play(q, l, best(f), b)
      BY <1>3, <2>4 DEF Play
    <2> QED
      BY <2>3, <2>5
  <1> QED
    BY <1>8, <1>10 DEF Winning

(* A strategy depends on the position it starts from only. *)
LEMMA SamePosition ==
  ASSUME NEW m, NEW q, NEW l, NEW e, NEW f, Agree(e, f, Upto(l)), Winning(q, l, e, m)
  PROVE  Winning(q, l, f, m)
  BY DEF Winning, Agree

-----------------------------------------------------------------------------
(* The loop's state keeps its shape: in particular vals has a value for    *)
(* exactly the variables below the level whose turn it is, after every     *)
(* backjump and restart.                                                   *)
THEOREM TypeCorrect == Spec => []TypeOK
  <1>1. IInv => TypeOK
    BY DEF IInv
  <1> QED
    BY <1>1, InitIInv, StepIInv, PTL DEF Spec

(* Learning never takes a position away from which the player could still  *)
(* force its goal (zigzag.cpp:193, level_solver.cpp:138-154).              *)
THEOREM LearningSound == Spec => []AbstractionSound
  <1>1. IInv => AbstractionSound
    BY DEF IInv
  <1> QED
    BY <1>1, InitIInv, StepIInv, PTL DEF Spec

(* The answers of the loop are right: after TRUE the universal player has  *)
(* no winning strategy, after FALSE the existential player has none (none  *)
(* with a first move that was not reported, when solutions are             *)
(* enumerated).                                                            *)
THEOREM VerdictsSound == Spec => []VerdictSound
  <1>1. IInv => VerdictSound
    BY DEF IInv
  <1> QED
    BY <1>1, InitIInv, StepIInv, PTL DEF Spec

(* Every first move enumeration reports is one the universal player cannot *)
(* refute, and block_solution never runs without a first move.             *)
THEOREM EnumerationSound == Spec => [](ReportedMovesWin /\ SolutionFound)
  <1>1. IInv => ReportedMovesWin /\ SolutionFound
    BY DEF IInv
  <1> QED
    BY <1>1, InitIInv, StepIInv, PTL DEF Spec

(* The last solver has nothing to choose from: the level before it won.   *)
LEMMA LastLevelStuck == IInv => LastLevelLoses
  <1> SUFFICES ASSUME IInv, status = "UNDEF", lev = N,
                      NEW f \in allowed[N], Agree(f, vals, Below(N))
               PROVE  FALSE
    BY DEF LastLevelLoses, Stuck
  <1>1. N \in Int /\ N - 1 \in Turn /\ N \in Turn /\ N - 1 \in 0 .. lev - 1
    BY NAssumption DEF Turn
  <1>2. PICK e \in allowed[N - 1] : Agree(e, vals, Upto(N - 1))
    BY <1>1 DEF IInv, MovesAllowed
  <1>3. \A v \in Var : v \in Upto(N - 1) /\ v \in Below(N)
    BY <1>1, QLevAssumption DEF Upto, Below
  <1>4. \A v \in Var : e[v] = f[v]
    BY <1>2, <1>3 DEF Agree
  <1>5. e \in Assign /\ f \in Assign
    BY <1>1, <1>2 DEF IInv, TypeOK
  <1>6. e = f
    BY <1>4, <1>5 DEF Assign
  <1>7. e \in Good(Player(N - 1), matrix) /\ f \in Good(Player(N), matrix)
    BY <1>2 DEF IInv, OnlyShrinks
  <1>8. Player(N - 1) = QType[N - 1] /\ Player(N) = Opponent(QType[N - 1])
    BY <1>1 DEF Player
  <1>9. QType[N - 1] \in {"EXISTENTIAL", "UNIVERSAL"}
    BY NAssumption, QTypeAssumption
  <1> QED
    BY <1>6, <1>7, <1>8, <1>9 DEF Good, Opponent

(* The assertion of the loop holds: a level that finds a model has         *)
(* variables to choose (zigzag.cpp:158).                                   *)
THEOREM LastLevelNeverMoves == Spec => []LastLevelLoses
  BY InitIInv, StepIInv, LastLevelStuck, PTL DEF Spec

(* Every learned constraint takes something away from the level it is      *)
(* given to, and from no other.                                            *)
THEOREM LearningMakesProgress == Spec => LearningShrinks
  <1> DEFINE A == \A l \in Turn :
                    /\ allowed'[l] \subseteq allowed[l]
                    /\ lev' < lev /\ status = "UNDEF" =>
                        \E bt \in Level :
                            /\ allowed'[bt] # allowed[bt]
                            /\ l # bt => allowed'[l] = allowed[l]
  <1>1. IInv /\ [Next]_vars => [A]_vars
    <2> SUFFICES ASSUME IInv, Next PROVE A
      OBVIOUS
    <2>1. CASE Move
      <3>1. allowed' = allowed /\ lev' = lev + 1 /\ lev \in Int
        BY <2>1, NAssumption DEF Move, IInv, TypeOK, Turn
      <3> QED
        BY <3>1
    <2>2. CASE Lose \/ Terminated
      <3>1. allowed' = allowed /\ lev' = lev /\ lev \in Int
        BY <2>2, NAssumption DEF Lose, Terminated, vars, IInv, TypeOK, Turn
      <3> QED
        BY <3>1
    <2>3. CASE Block
      BY <2>3 DEF Block, IInv, TypeOK
    <2>4. ASSUME NEW bt \in Level, NEW R, Learn(bt, R) PROVE A
      <3>1. allowed' = [allowed EXCEPT ![bt] = {f \in @ : Restrict(f, Upto(bt)) \notin R}]
        BY <2>4 DEF Learn
      <3>2. bt \in Turn /\ bt \in 0 .. lev - 1
        BY <2>4, NAssumption DEF IInv, TypeOK, Learn, Level, Turn
      <3>3. PICK e \in allowed[bt] : Agree(e, vals, Upto(bt))
        BY <2>4, <3>2 DEF IInv, MovesAllowed, Learn
      <3>4. Restrict(e, Upto(bt)) \in R
        <4>1. Restrict(e, Upto(bt)) = Restrict(vals, Upto(bt))
          BY <3>3 DEF Agree, Restrict
        <4> QED
          BY <2>4, <4>1 DEF Learn
      <3>5. allowed'[bt] # allowed[bt]
        BY <3>1, <3>2, <3>3, <3>4 DEF IInv, TypeOK
      <3>6. \A l \in Turn : allowed'[l] \subseteq allowed[l] /\ (l # bt => allowed'[l] = allowed[l])
        BY <3>1 DEF IInv, TypeOK
      <3> QED
        BY <3>5, <3>6
    <2> QED
      BY <2>1, <2>2, <2>3, <2>4 DEF Next
  <1> QED
    BY <1>1, InitIInv, StepIInv, PTL DEF Spec, LearningShrinks
=============================================================================
