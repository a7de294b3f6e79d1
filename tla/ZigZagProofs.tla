---------------------------- MODULE ZigZagProofs ----------------------------
(***************************************************************************)
(* The solving loop keeps its books, and it implements Cegar: for every    *)
(* prefix, every family of matrices and every combination of options.      *)
(***************************************************************************)
EXTENDS ZigZag, CircuitProofs

-----------------------------------------------------------------------------
(* The prefix by levels. *)
LEMMA PrefShape ==
  /\ qlev_count \in Nat \ {0}
  /\ \A l \in Levels :
        /\ level_type(l) \in {"EXISTENTIAL", "UNIVERSAL"}
        /\ level_vars(l) \subseteq Nat \ {0} /\ IsFiniteSet(level_vars(l))
  /\ \A k, l \in Levels : k # l => level_vars(k) \cap level_vars(l) = {}
  /\ Enumerate => FreeVars \subseteq level_vars(0)
  <1> DEFINE Blocks == [type : {"EXISTENTIAL", "UNIVERSAL"}, vars : SUBSET (Nat \ {0})]
  <1>1. Prefix \in Seq(Blocks) /\ Len(Prefix) \in Nat /\ Len(Prefix) > 0 /\ DOMAIN Prefix = 1 .. Len(Prefix)
    <2>1. Prefix \in Seq(Blocks) /\ Len(Prefix) > 0
      BY PrefixAssumption
    <2> HIDE DEF Blocks
    <2> QED
      BY <2>1
  <1>2. \A i \in 1 .. Len(Prefix) :
            /\ Prefix[i] \in Blocks
            /\ Prefix[i].type \in {"EXISTENTIAL", "UNIVERSAL"} /\ Prefix[i].vars \in SUBSET (Nat \ {0})
    <2> SUFFICES ASSUME NEW i \in 1 .. Len(Prefix)
                 PROVE  /\ Prefix[i] \in Blocks
                        /\ Prefix[i].type \in {"EXISTENTIAL", "UNIVERSAL"}
                        /\ Prefix[i].vars \in SUBSET (Nat \ {0})
      OBVIOUS
    <2>1. Prefix[i] \in Blocks
      <3> HIDE DEF Blocks
      <3> QED
        BY <1>1
    <2> QED
      BY <2>1
  <1>3. /\ Len(Pref) = Len(Prefix) /\ DOMAIN Pref = 1 .. Len(Prefix)
        /\ \A i \in 1 .. Len(Prefix) :
            /\ Pref[i].type = Prefix[i].type
            /\ Pref[i].vars = IF Enumerate /\ i = 1 THEN FreeVars \cup Prefix[i].vars ELSE Prefix[i].vars
    <2>1. CASE ~ Enumerate
      BY <1>1, <2>1 DEF Pref
    <2>2. CASE Enumerate
      <3>1. Pref = [Prefix EXCEPT ![1] = [Prefix[1] EXCEPT !.vars = FreeVars \cup Prefix[1].vars]]
        BY <2>2 DEF Pref
      <3>2. 1 \in 1 .. Len(Prefix)
        BY <1>1
      <3>3. /\ [Prefix[1] EXCEPT !.vars = FreeVars \cup Prefix[1].vars].type = Prefix[1].type
            /\ [Prefix[1] EXCEPT !.vars = FreeVars \cup Prefix[1].vars].vars = FreeVars \cup Prefix[1].vars
            /\ [Prefix[1] EXCEPT !.vars = FreeVars \cup Prefix[1].vars] \in Blocks
        BY <1>2, <3>2, FreeAssumption
      <3>4. Pref \in Seq(Blocks) /\ DOMAIN Pref = 1 .. Len(Prefix)
        <4> HIDE DEF Blocks
        <4> QED
          BY <1>1, <3>1, <3>3
      <3>5. Len(Pref) = Len(Prefix)
        <4> HIDE DEF Blocks
        <4> QED
          BY <1>1, <3>4
      <3>6. \A i \in 1 .. Len(Prefix) :
                Pref[i] = IF i = 1 THEN [Prefix[1] EXCEPT !.vars = FreeVars \cup Prefix[1].vars] ELSE Prefix[i]
        <4> HIDE DEF Blocks
        <4> QED
          BY <1>1, <3>1
      <3> QED
        BY <2>2, <3>3, <3>4, <3>5, <3>6
    <2> QED
      BY <2>1, <2>2
  <1> HIDE DEF Blocks
  <1>4. qlev_count \in Nat \ {0} /\ qlev_count = Len(Prefix)
    BY <1>1, <1>3 DEF qlev_count
  <1>5. \A l \in Levels : l + 1 \in 1 .. Len(Prefix) /\ (l + 1 = 1 <=> l = 0)
    BY <1>4 DEF Levels
  <1>6. \A i \in 1 .. Len(Prefix) :
            /\ Pref[i].type \in {"EXISTENTIAL", "UNIVERSAL"}
            /\ Pref[i].vars \subseteq Nat \ {0} /\ IsFiniteSet(Pref[i].vars)
    <2> SUFFICES ASSUME NEW i \in 1 .. Len(Prefix)
                 PROVE  /\ Pref[i].type \in {"EXISTENTIAL", "UNIVERSAL"}
                        /\ Pref[i].vars \subseteq Nat \ {0} /\ IsFiniteSet(Pref[i].vars)
      OBVIOUS
    <2>1. IsFiniteSet(Prefix[i].vars)
      BY PrefixAssumption
    <2>2. IsFiniteSet(FreeVars \cup Prefix[i].vars)
      BY <2>1, FreeAssumption, FS_Union
    <2> QED
      BY <1>2, <1>3, <2>1, <2>2, FreeAssumption
  <1>7. \A i, j \in 1 .. Len(Prefix) : i # j => Pref[i].vars \cap Pref[j].vars = {}
    <2> SUFFICES ASSUME NEW i \in 1 .. Len(Prefix), NEW j \in 1 .. Len(Prefix), i # j
                 PROVE  Pref[i].vars \cap Pref[j].vars = {}
      OBVIOUS
    <2>1. Prefix[i].vars \cap Prefix[j].vars = {}
      BY PrefixAssumption
    <2>2. Prefix[i].vars \cap FreeVars = {} /\ Prefix[j].vars \cap FreeVars = {}
      BY FreeAssumption
    <2>3. Pref[i].vars = Prefix[i].vars \/ (i = 1 /\ Pref[i].vars = FreeVars \cup Prefix[i].vars)
      BY <1>3
    <2>4. Pref[j].vars = Prefix[j].vars \/ (j = 1 /\ Pref[j].vars = FreeVars \cup Prefix[j].vars)
      BY <1>3
    <2> QED
      BY <2>1, <2>2, <2>3, <2>4
  <1>8. \A l \in Levels : level_type(l) = Pref[l + 1].type /\ level_vars(l) = Pref[l + 1].vars
    BY DEF level_type, level_vars
  <1>9. \A k, l \in Levels : k # l => k + 1 # l + 1
    BY <1>4 DEF Levels
  <1>10. Enumerate => FreeVars \subseteq level_vars(0)
    <2>1. 0 \in Levels /\ 1 \in 1 .. Len(Prefix)
      BY <1>4 DEF Levels
    <2>2. Enumerate => FreeVars \subseteq Pref[1].vars
      BY <1>3, <2>1
    <2>3. level_vars(0) = Pref[0 + 1].vars /\ 0 + 1 = 1
      BY DEF level_vars
    <2> QED
      BY <2>2, <2>3
  <1> QED
    BY <1>4, <1>5, <1>6, <1>7, <1>8, <1>9, <1>10

(* LevelInfo::qlev: every variable has the level of its block. *)
LEMMA LevelOf ==
  /\ qlev \in [AllVars -> Levels]
  /\ \A v \in AllVars : qlev[v] \in Levels /\ v \in level_vars(qlev[v]) /\ v \in Nat
  /\ \A l \in Levels : level_vars(l) = {v \in AllVars : qlev[v] = l}
  /\ IsFiniteSet(AllVars)
  /\ \A l \in Levels : l \in Int /\ 0 <= l /\ l < qlev_count /\ l \in Solvers /\ l + 1 \in Solvers
  <1>1. \A v \in AllVars : \E l \in Levels : v \in level_vars(l)
    BY DEF AllVars
  <1>2. \A v \in AllVars : qlev[v] = CHOOSE l \in Levels : v \in level_vars(l)
    BY DEF qlev
  <1>3. \A v \in AllVars : qlev[v] \in Levels /\ v \in level_vars(qlev[v])
    BY <1>1, <1>2
  <1>4. qlev \in [AllVars -> Levels]
    <2>1. qlev = [v \in AllVars |-> qlev[v]]
      BY DEF qlev
    <2> QED
      BY <1>3, <2>1
  <1>5. ASSUME NEW l \in Levels PROVE level_vars(l) = {v \in AllVars : qlev[v] = l}
    <2>1. level_vars(l) \subseteq AllVars
      BY DEF AllVars
    <2>2. \A v \in level_vars(l) : qlev[v] = l
      BY <1>3, <2>1, PrefShape
    <2> QED
      BY <1>3, <2>1, <2>2
  <1>6. IsFiniteSet(AllVars)
    <2> DEFINE f == [l \in Levels |-> level_vars(l)]
               blocks == {f[l] : l \in Levels}
    <2>1. IsFiniteSet(Levels)
      BY PrefShape, FS_Interval DEF Levels
    <2>2. \A b \in {level_vars(l) : l \in Levels} : IsFiniteSet(b)
      BY PrefShape
    <2>3. blocks = {level_vars(l) : l \in Levels}
      OBVIOUS
    <2>4. IsFiniteSet(blocks)
      <3> HIDE DEF f
      <3> QED
        BY <2>1, FiniteImage
    <2>5. \A b \in blocks : IsFiniteSet(b)
      BY <2>2, <2>3
    <2>6. AllVars = UNION blocks
      BY <2>3 DEF AllVars
    <2> HIDE DEF blocks
    <2> QED
      BY <2>4, <2>5, <2>6, FS_UNION
  <1>7. \A l \in Levels : l \in Int /\ 0 <= l /\ l < qlev_count /\ l \in Solvers /\ l + 1 \in Solvers
    BY PrefShape DEF Levels, Solvers
  <1>8. \A v \in AllVars : v \in Nat
    BY <1>3, PrefShape
  <1> QED
    BY <1>3, <1>4, <1>5, <1>6, <1>7, <1>8

(* Literals. *)
LEMMA LiteralParts ==
  /\ \A v, b : LitVar(Literal(v, b)) = v /\ Positive(Literal(v, b)) = b /\ Type(Literal(v, b)) = "LITERAL"
  /\ \A v, b, w, c : Literal(v, b) = Literal(w, c) <=> v = w /\ b = c
  /\ \A v, b : Complement(Literal(v, b)) = Literal(v, ~ b)
  BY DEF LitVar, Positive, Type, Literal, Complement

LEMMA TrueLiteral ==
  /\ \A v : LitVar(Literal(v, TRUE)) = v
  /\ \A v, w : \A b \in BOOLEAN : Literal(v, b) = Literal(w, TRUE) <=> v = w /\ b
  /\ \A v : Complement(Literal(v, TRUE)) = Literal(v, FALSE)
  BY DEF LitVar, Positive, Literal, Complement

-----------------------------------------------------------------------------
(* The variables of the levels below l, and their moves.                   *)
Earlier(l) == {v \in AllVars : qlev[v] < l}
MovesOf(S, lits) == \E m \in [S -> BOOLEAN] : lits = TrueLits(S, m)

(* Moves are literals, one per variable. *)
LEMMA MovesShape ==
  ASSUME IsNodeSet, NEW S \in SUBSET AllVars, NEW lits, MovesOf(S, lits)
  PROVE  /\ lits \in SUBSET Node /\ IsFiniteSet(lits) /\ Consistent(lits)
         /\ \A n \in lits : \E v \in S, b \in BOOLEAN : n = Literal(v, b)
         /\ {LitVar(n) : n \in lits} = S
         /\ \A v : Assigns(lits, Literal(v, TRUE)) <=> v \in S
         /\ Assignment(lits) \in [S -> BOOLEAN]
         /\ \A v, b : Literal(v, b) \in lits <=> v \in S /\ Assignment(lits)[v] = b
         /\ lits = TrueLits(S, Assignment(lits))
  <1>1. PICK m \in [S -> BOOLEAN] : lits = TrueLits(S, m)
    BY DEF MovesOf
  <1>2. \A v, b : Literal(v, b) \in lits <=> v \in S /\ m[v] = b
    BY <1>1, LiteralParts DEF TrueLits
  <1>3. lits \in SUBSET Node
    BY <1>1, LevelOf DEF TrueLits, IsNodeSet, NodeSet
  <1>4. IsFiniteSet(lits)
    <2>1. IsFiniteSet(S)
      BY LevelOf, FS_Subset
    <2> DEFINE f == [v \in S |-> Literal(v, m[v])]
    <2>2. lits = {f[v] : v \in S}
      BY <1>1 DEF TrueLits
    <2> HIDE DEF f
    <2> QED
      BY <2>1, <2>2, FiniteImage
  <1>5. \A n \in lits : \E v \in S, b \in BOOLEAN : n = Literal(v, b)
    BY <1>1 DEF TrueLits
  <1>6. {LitVar(n) : n \in lits} = S
    BY <1>2, <1>5, LiteralParts
  <1>7. Consistent(lits)
    <2> SUFFICES ASSUME NEW n \in lits, Complement(n) \in lits PROVE FALSE
      BY DEF Consistent
    <2>1. PICK v \in S, b \in BOOLEAN : n = Literal(v, b)
      BY <1>5
    <2>2. m[v] = b /\ m[v] = ~ b
      BY <1>2, <2>1, LiteralParts
    <2> QED
      BY <2>2
  <1>8. \A v : Assigns(lits, Literal(v, TRUE)) <=> v \in S
    <2> TAKE v
    <2>1. Complement(Literal(v, TRUE)) = Literal(v, FALSE)
      BY LiteralParts
    <2>2. v \in S => m[v] = TRUE \/ m[v] = FALSE
      OBVIOUS
    <2> QED
      BY <1>2, <2>1, <2>2 DEF Assigns
  <1>9. Assignment(lits) = [v \in S |-> Literal(v, TRUE) \in lits]
    BY <1>6 DEF Assignment
  <1>10. \A v \in S : Assignment(lits)[v] \in BOOLEAN /\ Assignment(lits)[v] = m[v]
    <2> SUFFICES ASSUME NEW v \in S PROVE Assignment(lits)[v] \in BOOLEAN /\ Assignment(lits)[v] = m[v]
      OBVIOUS
    <2>1. m[v] \in BOOLEAN
      OBVIOUS
    <2>2. Literal(v, TRUE) \in lits <=> m[v] = TRUE
      BY <1>2
    <2> DEFINE A == Literal(v, TRUE) \in lits
    <2>3. A \in BOOLEAN /\ Assignment(lits)[v] = A
      BY <1>9
    <2> HIDE DEF A
    <2>4. A = m[v]
      BY <2>1, <2>2, <2>3 DEF A
    <2> QED
      BY <2>3, <2>4
  <1>11. Assignment(lits) = m
    BY <1>9, <1>10
  <1> QED
    BY <1>1, <1>2, <1>3, <1>4, <1>5, <1>6, <1>7, <1>8, <1>11

-----------------------------------------------------------------------------
(* The trail t records the moves lits of the levels below l, level after   *)
(* level, once per variable.                                               *)
Decision == [player : {"EXISTENTIAL", "UNIVERSAL"}, lit : {Literal(v, b) : v \in AllVars, b \in BOOLEAN}]
VarAt(t, i) == LitVar(t[i].lit)

TrailOf(t, lits, l) ==
    /\ t \in Seq(Decision)
    /\ \A i \in 1 .. Len(t) :
        /\ qlev[VarAt(t, i)] < l
        /\ t[i].player = level_type(qlev[VarAt(t, i)])
        /\ \A j \in 1 .. i - 1 :
            VarAt(t, j) # VarAt(t, i) /\ qlev[VarAt(t, j)] <= qlev[VarAt(t, i)]
    /\ lits = {t[i].lit : i \in 1 .. Len(t)}
    /\ \A v \in Earlier(l) : \E i \in 1 .. Len(t) : VarAt(t, i) = v

LEMMA DecisionParts ==
  ASSUME NEW t \in Seq(Decision), NEW i \in 1 .. Len(t)
  PROVE  /\ t[i] \in Decision /\ t[i].player \in {"EXISTENTIAL", "UNIVERSAL"}
         /\ VarAt(t, i) \in AllVars /\ qlev[VarAt(t, i)] \in Levels
         /\ \E b \in BOOLEAN : t[i].lit = Literal(VarAt(t, i), b)
  <1>1. t[i] \in Decision
    OBVIOUS
  <1>2. PICK v \in AllVars, b \in BOOLEAN : t[i].lit = Literal(v, b)
    BY <1>1 DEF Decision
  <1>3. VarAt(t, i) = v
    BY <1>2, LiteralParts DEF VarAt
  <1> QED
    BY <1>1, <1>2, <1>3, LevelOf DEF Decision

LEMMA TrailDistinct ==
  ASSUME NEW t, NEW lits, NEW l, TrailOf(t, lits, l),
         NEW i \in 1 .. Len(t), NEW j \in 1 .. Len(t), VarAt(t, i) = VarAt(t, j)
  PROVE  i = j
  <1>1. Len(t) \in Nat
    BY DEF TrailOf
  <1>2. i < j => i \in 1 .. j - 1
    BY <1>1
  <1>3. j < i => j \in 1 .. i - 1
    BY <1>1
  <1>4. i = j \/ i < j \/ j < i
    BY <1>1
  <1> QED
    BY <1>2, <1>3, <1>4 DEF TrailOf

LEMMA TrailMoves ==
  ASSUME NEW t, NEW lits, NEW l, TrailOf(t, lits, l)
  PROVE  MovesOf(Earlier(l), lits)
  <1> DEFINE m == [v \in Earlier(l) |-> Literal(v, TRUE) \in lits]
  <1>1. t \in Seq(Decision) /\ lits = {t[i].lit : i \in 1 .. Len(t)}
    BY DEF TrailOf
  <1>2. m \in [Earlier(l) -> BOOLEAN]
    OBVIOUS
  <1>3. ASSUME NEW i \in 1 .. Len(t)
        PROVE  VarAt(t, i) \in Earlier(l) /\ t[i].lit = Literal(VarAt(t, i), m[VarAt(t, i)])
    <2>1. VarAt(t, i) \in Earlier(l)
      BY <1>1, DecisionParts DEF TrailOf, Earlier
    <2>2. PICK b \in BOOLEAN : t[i].lit = Literal(VarAt(t, i), b)
      BY <1>1, DecisionParts
    <2>3. (Literal(VarAt(t, i), TRUE) \in lits) <=> b
      <3>1. b => Literal(VarAt(t, i), TRUE) \in lits
        BY <1>1, <2>2
      <3>2. ASSUME Literal(VarAt(t, i), TRUE) \in lits PROVE b
        <4>1. PICK j \in 1 .. Len(t) : t[j].lit = Literal(VarAt(t, i), TRUE)
          BY <1>1, <3>2
        <4> HIDE DEF m
        <4>2. VarAt(t, j) = VarAt(t, i)
          <5>1. LitVar(t[j].lit) = VarAt(t, i)
            BY <4>1, TrueLiteral
          <5> QED
            BY <5>1 DEF VarAt
        <4>3. i = j
          BY <4>2, TrailDistinct
        <4> QED
          BY <2>2, <4>1, <4>3, TrueLiteral
      <3> QED
        BY <3>1, <3>2
    <2> DEFINE A == Literal(VarAt(t, i), TRUE) \in lits
    <2>4. m[VarAt(t, i)] = A /\ A \in BOOLEAN
      BY <2>1
    <2> HIDE DEF A, m
    <2>5. A = b
      BY <2>3, <2>4 DEF A
    <2> QED
      BY <2>1, <2>2, <2>4, <2>5
  <1>4. \A v \in Earlier(l) : \E i \in 1 .. Len(t) : VarAt(t, i) = v
    BY DEF TrailOf
  <1> HIDE DEF m
  <1>5. lits = {Literal(v, m[v]) : v \in Earlier(l)}
    <2>1. ASSUME NEW v \in Earlier(l) PROVE Literal(v, m[v]) \in lits
      <3>1. PICK i \in 1 .. Len(t) : VarAt(t, i) = v
        BY <1>4
      <3> QED
        BY <1>1, <1>3, <3>1
    <2>2. ASSUME NEW n \in lits PROVE \E v \in Earlier(l) : n = Literal(v, m[v])
      <3>1. PICK i \in 1 .. Len(t) : n = t[i].lit
        BY <1>1
      <3> QED
        BY <1>3, <3>1
    <2> QED
      BY <2>1, <2>2
  <1> QED
    BY <1>2, <1>5 DEF MovesOf, TrueLits

-----------------------------------------------------------------------------
(* The order of the variables numbers a set of literals.                   *)
Before(lits, n) == Cardinality({k \in lits : LitVar(k) < LitVar(n)})

LEMMA Numbering ==
  ASSUME NEW S, IsFiniteSet(S), \A n \in S : LitVar(n) \in Nat,
         \A k, n \in S : LitVar(k) = LitVar(n) => k = n
  PROVE  /\ Cardinality(S) \in Nat
         /\ \A i \in 1 .. Cardinality(S) : \E n \in S : Before(S, n) = i - 1
         /\ \A n \in S : Before(S, n) \in 0 .. Cardinality(S) - 1
         /\ \A k, n \in S : Before(S, k) = Before(S, n) => k = n
  <1> DEFINE Lower(n) == {k \in S : LitVar(k) < LitVar(n)}
  <1>1. Cardinality(S) \in Nat
    BY FS_CardinalityType
  <1>2. ASSUME NEW n \in S
        PROVE  /\ IsFiniteSet(Lower(n)) /\ Cardinality(Lower(n)) \in Nat
               /\ Cardinality(Lower(n)) < Cardinality(S)
    <2>1. n \notin Lower(n) /\ Lower(n) \in SUBSET S
      OBVIOUS
    <2> HIDE DEF Lower
    <2>2. IsFiniteSet(Lower(n)) /\ Cardinality(Lower(n)) <= Cardinality(S)
      BY <2>1, FS_Subset
    <2>3. Cardinality(Lower(n)) # Cardinality(S)
      BY <2>1, FS_Subset
    <2> QED
      BY <1>1, <2>2, <2>3, FS_CardinalityType
  <1>3. ASSUME NEW k \in S, NEW n \in S, LitVar(k) < LitVar(n)
        PROVE  Cardinality(Lower(k)) # Cardinality(Lower(n))
    <2>1. k \notin Lower(k) /\ k \in Lower(n)
      BY <1>3
    <2>2. Lower(k) \in SUBSET Lower(n)
      BY <1>3
    <2>3. IsFiniteSet(Lower(n))
      BY <1>2
    <2> HIDE DEF Lower
    <2> QED
      BY <2>1, <2>2, <2>3, FS_Subset
  <1>4. \A n \in S : Before(S, n) = Cardinality(Lower(n))
    BY DEF Before
  <1> HIDE DEF Lower
  <1>5. \A n \in S : Before(S, n) \in 0 .. Cardinality(S) - 1
    BY <1>1, <1>2, <1>4
  <1>6. \A k, n \in S : Before(S, k) = Before(S, n) => k = n
    <2> SUFFICES ASSUME NEW k \in S, NEW n \in S, Before(S, k) = Before(S, n) PROVE k = n
      OBVIOUS
    <2>1. ~ LitVar(k) < LitVar(n) /\ ~ LitVar(n) < LitVar(k)
      BY <1>3, <1>4
    <2> QED
      BY <2>1
  <1> DEFINE f == [n \in S |-> Before(S, n)]
             T == 0 .. Cardinality(S) - 1
  <1>7. f \in Injection(S, T)
    <2>1. f \in [S -> T]
      BY <1>5
    <2>2. \A k, n \in S : f[k] = f[n] => k = n
      BY <1>6
    <2> HIDE DEF f, T
    <2> QED
      BY <2>1, <2>2 DEF Injection, IsInjective
  <1>8. IsFiniteSet(T) /\ Cardinality(T) = Cardinality(S)
    <2>1. 0 \in Int /\ Cardinality(S) - 1 \in Int
      BY <1>1
    <2>2. IsFiniteSet(T) /\ Cardinality(T) = IF 0 > Cardinality(S) - 1 THEN 0 ELSE (Cardinality(S) - 1) - 0 + 1
      BY <2>1, FS_Interval
    <2> HIDE DEF T
    <2> QED
      BY <1>1, <2>2
  <1>9. f \in Surjection(S, T)
    <2> HIDE DEF f, T
    <2> QED
      BY <1>7, <1>8, FS_Injection
  <1>10. \A i \in T : \E n \in S : f[n] = i
    <2> HIDE DEF f, T
    <2> QED
      BY <1>9 DEF Surjection
  <1>11. \A i \in 1 .. Cardinality(S) : \E n \in S : Before(S, n) = i - 1
    <2> SUFFICES ASSUME NEW i \in 1 .. Cardinality(S) PROVE \E n \in S : Before(S, n) = i - 1
      OBVIOUS
    <2>1. i - 1 \in T
      BY <1>1
    <2>2. PICK n \in S : f[n] = i - 1
      BY <1>10, <2>1
    <2> QED
      BY <2>2
  <1> QED
    BY <1>1, <1>5, <1>6, <1>11

(* The decisions of a level: every literal of the move once.               *)
LEMMA DecisionsRight ==
  ASSUME IsNodeSet, NEW l \in Levels, NEW move, MovesOf(level_vars(l), move)
  PROVE  LET d == Decisions(l, move) IN
         /\ d \in Seq(Decision)
         /\ \A i \in 1 .. Len(d) : d[i].lit \in move /\ d[i].player = level_type(l)
         /\ \A i, j \in 1 .. Len(d) : VarAt(d, i) = VarAt(d, j) => i = j
         /\ \A n \in move : \E i \in 1 .. Len(d) : d[i].lit = n
  <1> DEFINE k == Cardinality(move)
             d == Decisions(l, move)
             At(i) == CHOOSE n \in move : Before(move, n) = i - 1
  <1>1. level_vars(l) \in SUBSET AllVars
    BY LevelOf
  <1>2. IsFiniteSet(move) /\ \A n \in move : \E v \in AllVars, b \in BOOLEAN : n = Literal(v, b)
    <2>1. IsFiniteSet(move) /\ \A n \in move : \E v \in level_vars(l), b \in BOOLEAN : n = Literal(v, b)
      BY <1>1, MovesShape
    <2> QED
      BY <1>1, <2>1
  <1>3. \A n \in move : LitVar(n) \in AllVars /\ LitVar(n) \in Nat
    BY <1>2, LiteralParts, LevelOf
  <1>4. ASSUME NEW m \in move, NEW n \in move, LitVar(m) = LitVar(n) PROVE m = n
    <2>1. PICK a \in [level_vars(l) -> BOOLEAN] : move = TrueLits(level_vars(l), a)
      BY DEF MovesOf
    <2>2. PICK v \in level_vars(l), w \in level_vars(l) : m = Literal(v, a[v]) /\ n = Literal(w, a[w])
      BY <2>1 DEF TrueLits
    <2>3. v = w
      BY <1>4, <2>2, LiteralParts
    <2> QED
      BY <2>2, <2>3
  <1>5. /\ k \in Nat
        /\ \A i \in 1 .. k : \E n \in move : Before(move, n) = i - 1
        /\ \A n \in move : Before(move, n) \in 0 .. k - 1
        /\ \A m, n \in move : Before(move, m) = Before(move, n) => m = n
    BY <1>2, <1>3, <1>4, Numbering
  <1>6. \A i \in 1 .. k : At(i) \in move /\ Before(move, At(i)) = i - 1
    BY <1>5
  <1>7. d = [i \in 1 .. k |-> [player |-> level_type(l), lit |-> At(i)]]
    BY DEF Decisions, Before
  <1> HIDE DEF d, At, k
  <1>8. \A i \in 1 .. k : [player |-> level_type(l), lit |-> At(i)] \in Decision
    <2>1. level_type(l) \in {"EXISTENTIAL", "UNIVERSAL"}
      BY PrefShape
    <2>2. \A i \in 1 .. k : At(i) \in {Literal(v, b) : v \in AllVars, b \in BOOLEAN}
      BY <1>2, <1>6
    <2> QED
      BY <2>1, <2>2 DEF Decision
  <1>9. d \in Seq(Decision) /\ Len(d) = k
    <2>1. d \in [1 .. k -> Decision]
      BY <1>7, <1>8
    <2> QED
      BY <1>5, <2>1
  <1>10. \A i \in 1 .. k : d[i].lit = At(i) /\ d[i].player = level_type(l)
    BY <1>7
  <1>11. ASSUME NEW i \in 1 .. k, NEW j \in 1 .. k, VarAt(d, i) = VarAt(d, j) PROVE i = j
    <2>1. At(i) = At(j)
      BY <1>4, <1>6, <1>10, <1>11 DEF VarAt
    <2>2. i - 1 = j - 1
      BY <1>6, <2>1
    <2> QED
      BY <1>5, <2>2
  <1>12. ASSUME NEW n \in move PROVE \E i \in 1 .. k : d[i].lit = n
    <2> DEFINE i == Before(move, n) + 1
    <2>1. i \in 1 .. k /\ i - 1 = Before(move, n)
      BY <1>5
    <2> HIDE DEF i
    <2>2. At(i) = n
      BY <1>5, <1>6, <2>1
    <2> QED
      BY <1>10, <2>1, <2>2
  <1>13. /\ d \in Seq(Decision)
         /\ \A i \in 1 .. Len(d) : d[i].lit \in move /\ d[i].player = level_type(l)
         /\ \A i, j \in 1 .. Len(d) : VarAt(d, i) = VarAt(d, j) => i = j
         /\ \A n \in move : \E i \in 1 .. Len(d) : d[i].lit = n
    BY <1>6, <1>9, <1>10, <1>11, <1>12
  <1> QED
    BY <1>13 DEF d

-----------------------------------------------------------------------------
(* A level moves: its decisions are appended.                              *)
LEMMA TrailGrows ==
  ASSUME IsNodeSet, NEW t, NEW lits, NEW l \in Levels, TrailOf(t, lits, l),
         NEW move, MovesOf(level_vars(l), move)
  PROVE  TrailOf(t \o Decisions(l, move), lits \cup move, l + 1)
  <1> DEFINE d == Decisions(l, move)
             u == t \o d
  <1>1. /\ d \in Seq(Decision)
        /\ \A i \in 1 .. Len(d) : d[i].lit \in move /\ d[i].player = level_type(l)
        /\ \A i, j \in 1 .. Len(d) : VarAt(d, i) = VarAt(d, j) => i = j
        /\ \A n \in move : \E i \in 1 .. Len(d) : d[i].lit = n
    BY DecisionsRight
  <1>2. t \in Seq(Decision) /\ lits = {t[i].lit : i \in 1 .. Len(t)}
    BY DEF TrailOf
  <1>3. level_vars(l) \in SUBSET AllVars /\ \A v \in AllVars : v \in level_vars(l) <=> qlev[v] = l
    BY LevelOf
  <1> HIDE DEF d
  <1>4. {LitVar(n) : n \in move} = level_vars(l)
    <2> DEFINE S == level_vars(l)
    <2>1. S \in SUBSET AllVars /\ MovesOf(S, move)
      BY <1>3
    <2> HIDE DEF S
    <2>2. {LitVar(n) : n \in move} = S
      BY <2>1, MovesShape
    <2> QED
      BY <2>2 DEF S
  <1>5. \A i \in 1 .. Len(d) : qlev[VarAt(d, i)] = l
    BY <1>1, <1>3, <1>4 DEF VarAt
  <1>6. Len(t) \in Nat /\ Len(d) \in Nat /\ l \in Int
    BY <1>1, <1>2, LevelOf
  <1>7. /\ u \in Seq(Decision) /\ Len(u) = Len(t) + Len(d)
        /\ \A i \in 1 .. Len(t) : u[i] = t[i]
        /\ \A i \in 1 .. Len(d) : u[Len(t) + i] = d[i]
    BY <1>1, <1>2
  <1> HIDE DEF u
  <1>8. ASSUME NEW i \in 1 .. Len(u)
        PROVE  \/ i \in 1 .. Len(t) /\ u[i] = t[i] /\ VarAt(u, i) = VarAt(t, i)
               \/ /\ i - Len(t) \in 1 .. Len(d) /\ i > Len(t)
                  /\ u[i] = d[i - Len(t)] /\ VarAt(u, i) = VarAt(d, i - Len(t))
    <2>1. CASE i <= Len(t)
      <3>1. i \in 1 .. Len(t)
        BY <1>6, <1>7, <2>1
      <3> QED
        BY <1>7, <3>1 DEF VarAt
    <2>2. CASE i > Len(t)
      <3>1. i - Len(t) \in 1 .. Len(d) /\ Len(t) + (i - Len(t)) = i
        BY <1>6, <1>7, <2>2
      <3> QED
        BY <1>7, <2>2, <3>1 DEF VarAt
    <2> QED
      BY <1>6, <1>7, <2>1, <2>2
  <1>9. \A i \in 1 .. Len(t) : qlev[VarAt(t, i)] < l /\ qlev[VarAt(t, i)] \in Int
    BY <1>2, DecisionParts, LevelOf DEF TrailOf
  <1>10. ASSUME NEW i \in 1 .. Len(u)
         PROVE  /\ qlev[VarAt(u, i)] < l + 1
                /\ u[i].player = level_type(qlev[VarAt(u, i)])
                /\ \A j \in 1 .. i - 1 :
                    VarAt(u, j) # VarAt(u, i) /\ qlev[VarAt(u, j)] <= qlev[VarAt(u, i)]
    <2>1. CASE i \in 1 .. Len(t) /\ u[i] = t[i] /\ VarAt(u, i) = VarAt(t, i)
      <3>1. \A j \in 1 .. i - 1 : j \in 1 .. Len(t) /\ VarAt(u, j) = VarAt(t, j)
        BY <1>6, <1>7, <2>1 DEF VarAt
      <3>2. qlev[VarAt(u, i)] < l + 1
        BY <1>6, <1>9, <2>1
      <3> QED
        BY <2>1, <3>1, <3>2 DEF TrailOf
    <2>2. CASE /\ i - Len(t) \in 1 .. Len(d) /\ i > Len(t)
               /\ u[i] = d[i - Len(t)] /\ VarAt(u, i) = VarAt(d, i - Len(t))
      <3>1. qlev[VarAt(u, i)] = l /\ u[i].player = level_type(l)
        BY <1>1, <1>5, <2>2
      <3>2. ASSUME NEW j \in 1 .. i - 1
            PROVE  VarAt(u, j) # VarAt(u, i) /\ qlev[VarAt(u, j)] <= qlev[VarAt(u, i)]
        <4>1. j \in 1 .. Len(u) /\ j # i /\ j < i
          BY <1>6, <1>7
        <4>2. CASE j \in 1 .. Len(t) /\ u[j] = t[j] /\ VarAt(u, j) = VarAt(t, j)
          BY <1>6, <1>9, <3>1, <4>2
        <4>3. CASE /\ j - Len(t) \in 1 .. Len(d) /\ j > Len(t)
                   /\ u[j] = d[j - Len(t)] /\ VarAt(u, j) = VarAt(d, j - Len(t))
          <5>1. j - Len(t) # i - Len(t)
            BY <1>6, <4>1
          <5>2. qlev[VarAt(u, j)] = l
            BY <1>5, <4>3
          <5> QED
            BY <1>1, <1>6, <2>2, <3>1, <4>3, <5>1, <5>2
        <4> QED
          BY <1>8, <4>1, <4>2, <4>3
      <3> QED
        BY <1>6, <3>1, <3>2
    <2> QED
      BY <1>8, <2>1, <2>2
  <1>11. lits \cup move = {u[i].lit : i \in 1 .. Len(u)}
    <2>1. ASSUME NEW n \in lits \cup move PROVE \E i \in 1 .. Len(u) : u[i].lit = n
      <3>1. CASE n \in lits
        <4>1. PICK i \in 1 .. Len(t) : t[i].lit = n
          BY <1>2, <3>1
        <4>2. i \in 1 .. Len(u)
          BY <1>6, <1>7
        <4> QED
          BY <1>7, <4>1, <4>2
      <3>2. CASE n \in move
        <4>1. PICK i \in 1 .. Len(d) : d[i].lit = n
          BY <1>1, <3>2
        <4>2. Len(t) + i \in 1 .. Len(u)
          BY <1>6, <1>7
        <4> QED
          BY <1>7, <4>1, <4>2
      <3> QED
        BY <3>1, <3>2
    <2>2. ASSUME NEW i \in 1 .. Len(u) PROVE u[i].lit \in lits \cup move
      BY <1>1, <1>2, <1>8
    <2> QED
      BY <2>1, <2>2
  <1>12. ASSUME NEW v \in Earlier(l + 1) PROVE \E i \in 1 .. Len(u) : VarAt(u, i) = v
    <2>1. v \in AllVars /\ qlev[v] \in Int /\ qlev[v] < l + 1
      BY LevelOf DEF Earlier
    <2>2. CASE qlev[v] < l
      <3>1. PICK i \in 1 .. Len(t) : VarAt(t, i) = v
        BY <2>1, <2>2 DEF TrailOf, Earlier
      <3>2. i \in 1 .. Len(u)
        BY <1>6, <1>7
      <3> QED
        BY <1>7, <3>1, <3>2 DEF VarAt
    <2>3. CASE qlev[v] = l
      <3>1. PICK n \in move : LitVar(n) = v
        BY <1>3, <1>4, <2>1, <2>3
      <3>2. PICK i \in 1 .. Len(d) : d[i].lit = n
        BY <1>1
      <3>3. Len(t) + i \in 1 .. Len(u)
        BY <1>6, <1>7
      <3> QED
        BY <1>7, <3>1, <3>2, <3>3 DEF VarAt
    <2> QED
      BY <1>6, <2>1, <2>2, <2>3
  <1> QED
    BY <1>7, <1>10, <1>11, <1>12 DEF TrailOf, u, d

(* The loop goes back to level bt: the trail keeps the decisions below it, *)
(* and what is popped are those of bt and the levels above.                *)
LEMMA TrailKept ==
  ASSUME lev \in Int, TrailOf(trail, vals, lev), NEW bt \in Int, bt <= lev
  PROVE  /\ TrailOf(Kept(bt), vals \ {d.lit : d \in Popped(bt)}, bt)
         /\ vals \ {d.lit : d \in Popped(bt)} = {n \in vals : qlev[LitVar(n)] < bt}
         /\ OppMoves(bt) = {n \in vals : /\ qlev[LitVar(n)] >= bt
                                         /\ level_type(qlev[LitVar(n)]) = opponent(player(lev))}
  <1> DEFINE below == {i \in DOMAIN trail : qlev[VarAt(trail, i)] < bt}
             k == Max({0} \cup below)
             u == Kept(bt)
  <1>1. /\ trail \in Seq(Decision) /\ Len(trail) \in Nat /\ DOMAIN trail = 1 .. Len(trail)
        /\ vals = {trail[i].lit : i \in 1 .. Len(trail)}
    BY DEF TrailOf
  <1>2. /\ k \in 0 .. Len(trail) /\ (k > 0 => k \in below) /\ \A i \in below : i <= k
    <2> DEFINE S == {0} \cup below
    <2>1. S \in SUBSET Int /\ S # {} /\ \A x \in S : x <= Len(trail)
      BY <1>1
    <2>2. Len(trail) \in Int
      BY <1>1
    <2>3. \A x \in S : x \in 0 .. Len(trail) /\ (x > 0 => x \in below)
      BY <1>1
    <2>4. below \subseteq S
      OBVIOUS
    <2> HIDE DEF S, below
    <2>5. Max(S) \in S /\ \A x \in S : x <= Max(S)
      BY <2>1, <2>2, MaxRight
    <2>6. k = Max(S)
      BY DEF S
    <2> HIDE DEF k
    <2> QED
      BY <2>3, <2>4, <2>5, <2>6
  <1>3. u = SubSeq(trail, 1, k)
    BY DEF Kept, VarAt
  <1> HIDE DEF k
  <1>4. \A i \in 1 .. Len(trail) : i \in below <=> qlev[VarAt(trail, i)] < bt
    BY <1>1
  <1> HIDE DEF below
  <1>5. \A i \in 1 .. Len(trail) : qlev[VarAt(trail, i)] \in Int /\ VarAt(trail, i) \in AllVars
    BY <1>1, DecisionParts, LevelOf
  <1>6. ASSUME NEW i \in 1 .. Len(trail) PROVE i <= k <=> qlev[VarAt(trail, i)] < bt
    <2>1. ASSUME i <= k PROVE qlev[VarAt(trail, i)] < bt
      <3>1. k \in below /\ k \in 1 .. Len(trail)
        BY <1>1, <1>2, <2>1
      <3>2. i = k \/ i \in 1 .. k - 1
        BY <1>2, <2>1
      <3>3. qlev[VarAt(trail, i)] <= qlev[VarAt(trail, k)]
        BY <1>5, <3>1, <3>2 DEF TrailOf
      <3> QED
        BY <1>4, <1>5, <3>1, <3>3
    <2> QED
      BY <1>2, <1>4, <2>1
  <1>7. u \in Seq(Decision) /\ Len(u) = k /\ \A i \in 1 .. k : u[i] = trail[i] /\ i \in 1 .. Len(trail)
    <2>1. k \in Nat /\ k <= Len(trail)
      BY <1>1, <1>2
    <2>2. \A i \in 1 .. k : i \in 1 .. Len(trail)
      BY <1>1, <2>1
    <2>3. \A i \in 1 .. k : trail[i] \in Decision
      BY <1>1, <2>2
    <2>4. u = [i \in 1 .. k |-> trail[i]]
      BY <1>1, <1>3, <2>1
    <2> HIDE DEF u
    <2>5. u \in [1 .. k -> Decision]
      BY <2>3, <2>4
    <2>6. u \in Seq(Decision) /\ Len(u) = k
      BY <2>1, <2>5
    <2> QED
      BY <2>2, <2>4, <2>6
  <1>8. Popped(bt) = {trail[i] : i \in k + 1 .. Len(trail)}
    BY <1>7 DEF Popped
  <1> HIDE DEF u
  <1>9. \A i \in 1 .. k : VarAt(u, i) = VarAt(trail, i)
    BY <1>7 DEF VarAt
  <1>10. \A i \in 1 .. Len(trail) : i \in k + 1 .. Len(trail) <=> qlev[VarAt(trail, i)] >= bt
    BY <1>1, <1>2, <1>5, <1>6
  <1>11. {d.lit : d \in Popped(bt)} = {n \in vals : qlev[LitVar(n)] >= bt}
    <2>1. \A i \in 1 .. Len(trail) : qlev[LitVar(trail[i].lit)] = qlev[VarAt(trail, i)]
      BY DEF VarAt
    <2>2. \A i \in k + 1 .. Len(trail) : i \in 1 .. Len(trail)
      BY <1>1, <1>2
    <2>3. ASSUME NEW i \in k + 1 .. Len(trail) PROVE trail[i].lit \in {n \in vals : qlev[LitVar(n)] >= bt}
      BY <1>1, <1>10, <2>1, <2>2
    <2>4. ASSUME NEW n \in vals, qlev[LitVar(n)] >= bt PROVE \E i \in k + 1 .. Len(trail) : n = trail[i].lit
      BY <1>1, <1>10, <2>1, <2>4
    <2> QED
      BY <1>8, <2>3, <2>4
  <1>12. \A n \in vals : qlev[LitVar(n)] \in Int
    BY <1>1, <1>5 DEF VarAt
  <1>13. vals \ {d.lit : d \in Popped(bt)} = {n \in vals : qlev[LitVar(n)] < bt}
    BY <1>11, <1>12
  <1>14. TrailOf(u, {n \in vals : qlev[LitVar(n)] < bt}, bt)
    <2>1. ASSUME NEW i \in 1 .. Len(u)
          PROVE  /\ qlev[VarAt(u, i)] < bt
                 /\ u[i].player = level_type(qlev[VarAt(u, i)])
                 /\ \A j \in 1 .. i - 1 :
                     VarAt(u, j) # VarAt(u, i) /\ qlev[VarAt(u, j)] <= qlev[VarAt(u, i)]
      <3>1. i \in 1 .. k /\ i \in 1 .. Len(trail) /\ u[i] = trail[i] /\ VarAt(u, i) = VarAt(trail, i) /\ i <= k
        BY <1>2, <1>7, <1>9
      <3>2. \A j \in 1 .. i - 1 : VarAt(u, j) = VarAt(trail, j)
        BY <1>2, <1>9, <3>1
      <3> QED
        BY <1>6, <3>1, <3>2 DEF TrailOf
    <2>2. {n \in vals : qlev[LitVar(n)] < bt} = {u[i].lit : i \in 1 .. Len(u)}
      <3>1. ASSUME NEW i \in 1 .. Len(u) PROVE u[i].lit \in {n \in vals : qlev[LitVar(n)] < bt}
        <4>1. i \in 1 .. k /\ i \in 1 .. Len(trail) /\ u[i] = trail[i] /\ i <= k
          BY <1>2, <1>7
        <4> QED
          BY <1>1, <1>6, <4>1 DEF VarAt
      <3>2. ASSUME NEW n \in vals, qlev[LitVar(n)] < bt PROVE \E i \in 1 .. Len(u) : n = u[i].lit
        <4>1. PICK i \in 1 .. Len(trail) : n = trail[i].lit
          BY <1>1
        <4>2. i <= k
          BY <1>6, <3>2, <4>1 DEF VarAt
        <4>3. i \in 1 .. k
          BY <1>2, <4>2
        <4> QED
          BY <1>7, <4>1, <4>3
      <3> QED
        BY <3>1, <3>2
    <2>3. ASSUME NEW v \in Earlier(bt) PROVE \E i \in 1 .. Len(u) : VarAt(u, i) = v
      <3>1. v \in Earlier(lev) /\ qlev[v] < bt
        BY LevelOf DEF Earlier
      <3>2. PICK i \in 1 .. Len(trail) : VarAt(trail, i) = v
        BY <3>1 DEF TrailOf
      <3>3. i \in 1 .. k
        BY <1>2, <1>6, <3>1, <3>2
      <3> QED
        BY <1>7, <1>9, <3>2, <3>3
    <2> QED
      BY <1>7, <2>1, <2>2, <2>3 DEF TrailOf
  <1>15. OppMoves(bt) = {n \in vals : /\ qlev[LitVar(n)] >= bt
                                      /\ level_type(qlev[LitVar(n)]) = opponent(player(lev))}
    <2> DEFINE q == opponent(player(lev))
    <2>1. OppMoves(bt) = {d.lit : d \in {d \in Popped(bt) : d.player = q}}
      BY DEF OppMoves
    <2> HIDE DEF q
    <2>2. \A i \in 1 .. Len(trail) :
            /\ LitVar(trail[i].lit) = VarAt(trail, i)
            /\ trail[i].player = level_type(qlev[VarAt(trail, i)])
      BY DEF VarAt, TrailOf
    <2>3. \A i \in k + 1 .. Len(trail) : i \in 1 .. Len(trail)
      BY <1>1, <1>2
    <2>4. ASSUME NEW d \in Popped(bt), d.player = q
          PROVE  d.lit \in vals /\ qlev[LitVar(d.lit)] >= bt /\ level_type(qlev[LitVar(d.lit)]) = q
      BY <1>1, <1>8, <1>10, <2>2, <2>3, <2>4
    <2>5. ASSUME NEW n \in vals, qlev[LitVar(n)] >= bt, level_type(qlev[LitVar(n)]) = q
          PROVE  \E d \in Popped(bt) : d.player = q /\ n = d.lit
      <3>1. PICK i \in 1 .. Len(trail) : n = trail[i].lit
        BY <1>1
      <3> QED
        BY <1>8, <1>10, <2>2, <2>5, <3>1
    <2>6. {d.lit : d \in {d \in Popped(bt) : d.player = q}}
            = {n \in vals : qlev[LitVar(n)] >= bt /\ level_type(qlev[LitVar(n)]) = q}
      BY <2>4, <2>5
    <2> QED
      BY <2>1, <2>6 DEF q
  <1> QED
    BY <1>13, <1>14, <1>15 DEF u

(* Nothing is decided when the walk starts. *)
LEMMA TrailStart == TrailOf(<<>>, {}, 0)
  <1>1. Earlier(0) = {}
    BY LevelOf DEF Earlier
  <1>2. <<>> \in Seq(Decision) /\ Len(<<>>) = 0 /\ 1 .. Len(<<>>) = {}
    <2> DEFINE D == Decision
    <2>1. <<>> \in Seq(D) /\ Len(<<>>) = 0 /\ 1 .. 0 = {}
      OBVIOUS
    <2> QED
      BY <2>1
  <1> QED
    BY <1>1, <1>2 DEF TrailOf

(* The trail has one decision per variable.                                *)
LEMMA TrailMatches ==
  ASSUME IsNodeSet, TrailOf(trail, vals, lev)
  PROVE  TrailMatchesVals
  <1> DEFINE at == [i \in 1 .. Len(trail) |-> VarAt(trail, i)]
  <1>1. trail \in Seq(Decision) /\ Len(trail) \in Nat /\ DOMAIN trail = 1 .. Len(trail)
    BY DEF TrailOf
  <1>2. Earlier(lev) = {v \in AllVars : qlev[v] < lev} /\ Earlier(lev) \in SUBSET AllVars
    BY DEF Earlier
  <1>3. {LitVar(n) : n \in vals} = Earlier(lev)
    BY <1>2, TrailMoves, MovesShape
  <1>4. vals = {d.lit : d \in Range(trail)}
    <2>1. Range(trail) = {trail[i] : i \in 1 .. Len(trail)}
      BY <1>1 DEF Range
    <2>2. vals = {trail[i].lit : i \in 1 .. Len(trail)}
      BY DEF TrailOf
    <2> QED
      BY <2>1, <2>2
  <1>5. Len(trail) = Cardinality(Earlier(lev))
    <2>1. \A i \in 1 .. Len(trail) : VarAt(trail, i) \in Earlier(lev)
      BY <1>1, DecisionParts DEF TrailOf, Earlier
    <2>2. \A i, j \in 1 .. Len(trail) : at[i] = at[j] => i = j
      BY TrailDistinct
    <2>3. \A v \in Earlier(lev) : \E i \in 1 .. Len(trail) : at[i] = v
      BY DEF TrailOf
    <2>4. at \in [1 .. Len(trail) -> Earlier(lev)]
      BY <2>1
    <2> DEFINE D == 1 .. Len(trail)
               R == Earlier(lev)
    <2> HIDE DEF at
    <2>5. at \in Bijection(D, R)
      BY <2>2, <2>3, <2>4 DEF Bijection, Injection, Surjection, IsInjective
    <2>6. IsFiniteSet(D) /\ Cardinality(D) = Len(trail)
      <3>1. IsFiniteSet(1 .. Len(trail)) /\ Cardinality(1 .. Len(trail)) = IF 1 > Len(trail) THEN 0 ELSE Len(trail) - 1 + 1
        BY <1>1, FS_Interval
      <3> QED
        BY <1>1, <3>1
    <2> HIDE DEF D, R
    <2>7. Cardinality(D) = Cardinality(R)
      BY <2>5, <2>6, FS_Bijection DEF ExistsBijection
    <2> QED
      BY <2>6, <2>7 DEF R
  <1>6. ASSUME NEW i \in DOMAIN trail
        PROVE  /\ trail[i].player = level_type(qlev[LitVar(trail[i].lit)])
               /\ \A j \in 1 .. i - 1 : qlev[LitVar(trail[j].lit)] <= qlev[LitVar(trail[i].lit)]
    BY <1>1 DEF TrailOf, VarAt
  <1> QED
    BY <1>2, <1>3, <1>4, <1>5, <1>6 DEF TrailMatchesVals

-----------------------------------------------------------------------------
(* The variables a solver knows. *)
LEMMA Scopes ==
  /\ qlev_count \in Solvers /\ 0 \in Solvers /\ 0 \in Levels /\ qlev_count - 1 \in Levels
  /\ qlev_count \in Int /\ qlev_count > 0 /\ qlev_count \notin Levels
  /\ \A l \in Solvers : l \in Int /\ 0 <= l /\ l <= qlev_count /\ (l < qlev_count <=> l \in Levels)
  /\ \A l : dom_vars(l) \subseteq AllVars /\ aux_vars(l) \subseteq AllVars /\ Earlier(l) \subseteq AllVars
  /\ dom_vars(qlev_count) = AllVars /\ dom_vars(qlev_count - 1) = AllVars /\ Earlier(qlev_count) = AllVars
  /\ \A l \in Levels : Earlier(l + 1) = dom_vars(l)
  /\ Earlier(0) = {} /\ dom_vars(0) = level_vars(0) /\ Project \subseteq level_vars(0)
  /\ \A l \in Solvers : player(l) \in {"EXISTENTIAL", "UNIVERSAL"}
  /\ \A l \in Levels : player(l) = level_type(l)
  /\ \A q \in {"EXISTENTIAL", "UNIVERSAL"} : \A r \in {"EXISTENTIAL", "UNIVERSAL"} : r # q <=> r = opponent(q)
  <1>1. /\ qlev_count \in Solvers /\ 0 \in Solvers /\ 0 \in Levels /\ qlev_count - 1 \in Levels
        /\ qlev_count \in Int /\ qlev_count > 0 /\ qlev_count \notin Levels
    BY PrefShape DEF Solvers, Levels
  <1>2. \A l \in Solvers : l \in Int /\ 0 <= l /\ l <= qlev_count /\ (l < qlev_count <=> l \in Levels)
    BY PrefShape DEF Solvers, Levels
  <1>3. \A l : dom_vars(l) \subseteq AllVars /\ aux_vars(l) \subseteq AllVars /\ Earlier(l) \subseteq AllVars
    BY DEF dom_vars, aux_vars, Earlier
  <1>4. \A v \in AllVars : qlev[v] \in Int /\ 0 <= qlev[v] /\ qlev[v] < qlev_count
    BY LevelOf
  <1>5. dom_vars(qlev_count) = AllVars /\ dom_vars(qlev_count - 1) = AllVars /\ Earlier(qlev_count) = AllVars
    BY <1>1, <1>4 DEF dom_vars, Earlier
  <1>6. \A l \in Levels : Earlier(l + 1) = dom_vars(l)
    BY <1>4, LevelOf DEF dom_vars, Earlier
  <1>7. Earlier(0) = {} /\ dom_vars(0) = level_vars(0)
    <2>1. dom_vars(0) = {v \in AllVars : qlev[v] = 0}
      BY <1>4 DEF dom_vars
    <2> QED
      BY <1>1, <1>4, <2>1, LevelOf DEF Earlier
  <1>8. Project \subseteq level_vars(0)
    <2>1. FreeVars \subseteq level_vars(0)
      BY FreeAssumption, PrefShape
    <2> QED
      BY <2>1 DEF Project
  <1>9. \A l \in Levels : player(l) = level_type(l) /\ player(l) \in {"EXISTENTIAL", "UNIVERSAL"}
    BY LevelOf, PrefShape DEF player
  <1>10. player(qlev_count) \in {"EXISTENTIAL", "UNIVERSAL"}
    BY <1>1 DEF player, opponent
  <1>11. \A l \in Solvers : player(l) \in {"EXISTENTIAL", "UNIVERSAL"}
    <2>1. \A l \in Solvers : l \in Levels \/ l = qlev_count
      BY <1>1, <1>2
    <2> QED
      BY <1>9, <1>10, <2>1
  <1>12. \A q \in {"EXISTENTIAL", "UNIVERSAL"} : \A r \in {"EXISTENTIAL", "UNIVERSAL"} : r # q <=> r = opponent(q)
    BY DEF opponent
  <1> QED
    BY <1>1, <1>2, <1>3, <1>5, <1>6, <1>7, <1>8, <1>9, <1>11, <1>12

(* An assignment has a Boolean for each of the variables. *)
LEMMA Boolean ==
  \A e \in Valuations(AllVars) : \A v \in AllVars : e[v] \in BOOLEAN
  BY DEF Valuations

(* What add_constr keeps of a constraint. *)
LEMMA StrengthenedRight ==
  ASSUME IsNodeSet, NEW c \in Node, NEW known
  PROVE  /\ Strengthened(c, known) \in Node
         /\ VarsOf(Strengthened(c, known)) \subseteq VarsOf(c)
         /\ \A e : Defined(e, c) /\ (\A k \in known : Holds(k, e))
                        => (Holds(Strengthened(c, known), e) <=> Holds(c, e))
  BY SimplifyRight DEF Strengthened

(* What a player wants. *)
LEMMA WantedRight ==
  ASSUME IsNodeSet, output \in Outputs, NEW l
  PROVE  /\ Wanted(l) \in Node /\ VarsOf(Wanted(l)) \subseteq AllVars
         /\ \A e \in Valuations(AllVars) :
                Holds(Wanted(l), e) <=> e \in (IF player(l) = "UNIVERSAL"
                                               THEN Valuations(AllVars) \ Matrix ELSE Matrix)
  <1>1. output \in Node /\ VarsOf(output) \subseteq AllVars
    BY OutputsAssumption
  <1>2. \A e \in Valuations(AllVars) : Defined(e, output) /\ (e \in Matrix <=> Holds(output, e))
    BY <1>1, Boolean DEF Defined, Matrix
  <1> QED
    BY <1>1, <1>2, MakeNotRight DEF Wanted

(* The constraint a solver starts with speaks of its variables only.       *)
LEMMA FirstInScope ==
  ASSUME IsNodeSet, output \in Outputs, NEW l \in Solvers
  PROVE  /\ FirstConstraint(l) \in SUBSET Node /\ IsFiniteSet(FirstConstraint(l))
         /\ \A c \in FirstConstraint(l) : VarsOf(c) \subseteq dom_vars(l) \cup aux_vars(l)
  <1> DEFINE later == {v \in AllVars : qlev[v] > l /\ level_type(qlev[v]) # player(l)}
             low == {Literal(v, FALSE) : v \in later}
  <1>1. Wanted(l) \in Node /\ VarsOf(Wanted(l)) \subseteq AllVars
    BY WantedRight
  <1>2. CASE l = qlev_count
    <2>1. FirstConstraint(l) = {Wanted(l)}
      BY <1>2 DEF FirstConstraint
    <2> QED
      BY <1>1, <1>2, <2>1, Scopes, FS_Singleton
  <1>3. CASE l # qlev_count /\ Full
    <2>1. FirstConstraint(l) = {Reduce(Wanted(l), low)}
      BY <1>3 DEF FirstConstraint
    <2>2. /\ Reduce(Wanted(l), low) \in Node
          /\ VarsOf(Reduce(Wanted(l), low)) \subseteq
                {v \in VarsOf(Wanted(l)) : ~ Assigns(low, Literal(v, TRUE))}
      <3> HIDE DEF low
      <3> QED
        BY <1>1, ReduceRight
    <2>3. ASSUME NEW v \in VarsOf(Reduce(Wanted(l), low)) PROVE v \in dom_vars(l) \cup aux_vars(l)
      <3>1. v \in AllVars /\ ~ Assigns(low, Literal(v, TRUE))
        BY <1>1, <2>2
      <3>2. v \notin later
        <4>1. v \in later => Literal(v, FALSE) \in low
          OBVIOUS
        <4> HIDE DEF low, later
        <4> QED
          BY <3>1, <4>1, TrueLiteral DEF Assigns
      <3>3. qlev[v] \in Int /\ l \in Int /\ l < qlev_count /\ player(l) = level_type(l)
        BY <1>3, <3>1, LevelOf, Scopes
      <3> QED
        BY <1>3, <3>1, <3>2, <3>3 DEF dom_vars, aux_vars
    <2> QED
      BY <2>1, <2>2, <2>3, FS_Singleton
  <1>4. CASE l = qlev_count - 1 /\ l # qlev_count /\ ~ Full
    <2>1. FirstConstraint(l) = {Wanted(l)}
      BY <1>4 DEF FirstConstraint
    <2> QED
      BY <1>1, <1>4, <2>1, Scopes, FS_Singleton
  <1>5. CASE l # qlev_count - 1 /\ l # qlev_count /\ ~ Full
    <2>1. FirstConstraint(l) = {}
      BY <1>5 DEF FirstConstraint
    <2> QED
      BY <2>1, FS_EmptySet
  <1> QED
    BY <1>2, <1>3, <1>4, <1>5

-----------------------------------------------------------------------------
(* What the loop's books say whatever the SAT solver answers: the trail    *)
(* is that of the levels below lev, the constraints of a solver are        *)
(* circuits over its variables, and the last solver never learns.          *)
BookInv ==
    /\ output \in Outputs /\ lev \in Solvers
    /\ TrailOf(trail, vals, lev)
    /\ constrs \in [Solvers -> SUBSET Node]
    /\ \A l \in Solvers : IsFiniteSet(constrs[l])
    /\ ConstraintsInScope
    /\ constrs[qlev_count] = {Strengthened(Wanted(qlev_count), {})}
    /\ ~ Restarts => confl_budget = -1
    /\ pc \in {"solve_", "solve", "solve_all", "done"} /\ status \in {"UNDEF", "TRUE", "FALSE"}
    /\ pc = "solve_" <=> status = "UNDEF"
    /\ pc = "solve_all" => Enumerate /\ status = "TRUE"
    /\ lev > 0 => last_solve /\ model = {n \in vals : qlev[LitVar(n)] = 0}
    /\ pc # "solve_" /\ lev = 0 => ~ last_solve
    /\ pc = "done" /\ Enumerate => status = "FALSE"

(* The literals decided, as an assignment of their variables.              *)
LEMMA ValsShape ==
  ASSUME IsNodeSet, NEW t, NEW lits, NEW l, TrailOf(t, lits, l)
  PROVE  /\ lits \in SUBSET Node /\ IsFiniteSet(lits) /\ Consistent(lits)
         /\ \A n \in lits : Type(n) = "LITERAL" /\ LitVar(n) \in Earlier(l)
         /\ \A v : Assigns(lits, Literal(v, TRUE)) <=> v \in Earlier(l)
         /\ Assignment(lits) \in [Earlier(l) -> BOOLEAN]
         /\ \A v \in Earlier(l) : Assignment(lits)[v] \in BOOLEAN
         /\ \A v \in Earlier(l) : Assignment(lits)[v] = (Literal(v, TRUE) \in lits)
  <1>1. MovesOf(Earlier(l), lits) /\ Earlier(l) \in SUBSET AllVars
    BY TrailMoves, Scopes
  <1>2. /\ lits \in SUBSET Node /\ IsFiniteSet(lits) /\ Consistent(lits)
        /\ \A n \in lits : \E v \in Earlier(l), b \in BOOLEAN : n = Literal(v, b)
        /\ \A v : Assigns(lits, Literal(v, TRUE)) <=> v \in Earlier(l)
        /\ Assignment(lits) \in [Earlier(l) -> BOOLEAN]
        /\ {LitVar(n) : n \in lits} = Earlier(l)
    BY <1>1, MovesShape
  <1>3. \A n \in lits : Type(n) = "LITERAL" /\ LitVar(n) \in Earlier(l)
    BY <1>2, LiteralParts
  <1>4. \A v \in Earlier(l) : Assignment(lits)[v] = (Literal(v, TRUE) \in lits)
    BY <1>2 DEF Assignment
  <1> QED
    BY <1>2, <1>3, <1>4

(* A literal is decided when that is the value of its variable.            *)
LEMMA DecidedLits ==
  ASSUME IsNodeSet, NEW t, NEW lits, NEW l, TrailOf(t, lits, l)
  PROVE  \A v, b : Literal(v, b) \in lits <=> v \in Earlier(l) /\ Assignment(lits)[v] = b
  <1>1. MovesOf(Earlier(l), lits) /\ Earlier(l) \in SUBSET AllVars
    BY TrailMoves, Scopes
  <1> QED
    BY <1>1, MovesShape

(* The cut consists of nodes over the solver's variables that the moves    *)
(* make true.                                                              *)
LEMMA CutRight ==
  ASSUME IsNodeSet, BookInv
  PROVE  /\ Cut(lev) \in SUBSET Node /\ IsFiniteSet(Cut(lev))
         /\ \A c \in Cut(lev) : VarsOf(c) \subseteq AllVars
         /\ lev \in Levels => \A c \in Cut(lev) : Eval(c, vals) = "TRUE"
  <1>1. /\ vals \in SUBSET Node /\ IsFiniteSet(vals) /\ Consistent(vals)
        /\ \A n \in vals : Type(n) = "LITERAL" /\ LitVar(n) \in AllVars
    <2>1. TrailOf(trail, vals, lev)
      BY DEF BookInv
    <2>2. Earlier(lev) \subseteq AllVars
      BY Scopes
    <2> QED
      BY <2>1, <2>2, ValsShape
  <1>2. lev \in Solvers /\ constrs[lev] \in SUBSET Node /\ IsFiniteSet(constrs[lev])
        /\ \A c \in constrs[lev] : VarsOf(c) \subseteq AllVars
    BY Scopes DEF BookInv, ConstraintsInScope
  <1>3. CASE lev = qlev_count
    <2> DEFINE f == [c \in constrs[lev] |-> MakeNot(c)]
    <2>1. Cut(lev) = {MakeNot(c) : c \in constrs[lev]}
      BY <1>3 DEF Cut
    <2>2. Cut(lev) = {f[c] : c \in constrs[lev]}
      BY <2>1
    <2>3. IsFiniteSet(Cut(lev))
      <3> HIDE DEF f
      <3> QED
        BY <1>2, <2>2, FiniteImage
    <2>4. lev \notin Levels
      BY <1>3, Scopes
    <2>5. \A c \in constrs[lev] : MakeNot(c) \in Node /\ VarsOf(MakeNot(c)) = VarsOf(c)
      BY <1>2, MakeNotRight
    <2> QED
      BY <1>2, <2>1, <2>3, <2>4, <2>5
  <1>4. CASE lev # qlev_count /\ SimpleCut
    <2>1. Cut(lev) = vals
      BY <1>4 DEF Cut
    <2>2. \A c \in vals : VarsOf(c) = {LitVar(c)} /\ Eval(c, vals) = "TRUE"
      BY <1>1, VarsOfCases, EvalCases
    <2> QED
      BY <1>1, <2>1, <2>2
  <1>5. CASE lev # qlev_count /\ ~ SimpleCut
    <2> DEFINE f == [c \in constrs[lev] |-> FindCut(c, vals)]
               parts == {f[c] : c \in constrs[lev]}
    <2>1. Cut(lev) = UNION {FindCut(c, vals) : c \in constrs[lev]}
      BY <1>5 DEF Cut
    <2>2. \A c \in constrs[lev] : IsFiniteSet(FindCut(c, vals))
      BY <1>1, <1>2, FindCutKnown
    <2>3. \A c \in constrs[lev] : \A n \in FindCut(c, vals) :
                n \in Node /\ VarsOf(n) \subseteq AllVars /\ Eval(n, vals) = "TRUE"
      BY <1>1, <1>2, FindCutKnown
    <2>4. parts = {FindCut(c, vals) : c \in constrs[lev]}
      OBVIOUS
    <2>5. IsFiniteSet(parts)
      <3> HIDE DEF f
      <3> QED
        BY <1>2, FiniteImage
    <2>6. \A p \in parts : IsFiniteSet(p)
      BY <2>2, <2>4
    <2>7. Cut(lev) = UNION parts
      BY <2>1, <2>4
    <2> HIDE DEF parts
    <2>8. IsFiniteSet(Cut(lev))
      BY <2>5, <2>6, <2>7, FS_UNION
    <2> QED
      BY <2>1, <2>3, <2>8
  <1> QED
    BY <1>3, <1>4, <1>5

(* The level to go back to is the highest at which the player itself moved *)
(* in the core.                                                            *)
LEMMA AnalyzeRight ==
  ASSUME IsNodeSet, lev \in Solvers, NEW core \in SUBSET Node, IsFiniteSet(core)
  PROVE  LET bt == Analyze(core) IN
         /\ bt \in {-1} \cup Levels
         /\ \A n \in core : \A v \in plvars(lev) \cap VarsOf(n) : qlev[v] <= bt
         /\ bt # -1 => /\ bt < lev /\ bt \in Levels /\ player(bt) = player(lev)
  <1> DEFINE top(n) == MaxQLev(n, plvars(lev), qlev)
             S == {-1} \cup {top(n) : n \in core}
             bt == Analyze(core)
  <1>1. qlev_count - 1 \in Nat /\ \A v \in plvars(lev) : v \in AllVars /\ qlev[v] \in 0 .. qlev_count - 1
    BY PrefShape, LevelOf DEF plvars, Levels
  <1>2. \A n \in core : /\ top(n) \in -1 .. qlev_count - 1
                        /\ \A v \in plvars(lev) \cap VarsOf(n) : qlev[v] <= top(n)
                        /\ top(n) # -1 => \E v \in plvars(lev) \cap VarsOf(n) : qlev[v] = top(n)
    BY <1>1, MaxQLevRight
  <1>3. bt \in S /\ \A x \in S : x <= bt
    <2>1. S \in SUBSET Int /\ S # {} /\ \A x \in S : x <= qlev_count - 1
      BY <1>1, <1>2
    <2>2. bt = Max(S) /\ qlev_count - 1 \in Int
      BY <1>1 DEF Analyze
    <2> HIDE DEF S, bt
    <2> QED
      BY <2>1, <2>2, MaxRight
  <1>4. \A x \in S : x \in {-1} \cup Levels
    BY <1>1, <1>2 DEF Levels
  <1>5. ASSUME NEW n \in core, NEW v \in plvars(lev) \cap VarsOf(n) PROVE qlev[v] <= bt
    <2>1. top(n) <= bt /\ top(n) \in Int /\ bt \in Int /\ qlev[v] <= top(n) /\ qlev[v] \in Int
      BY <1>1, <1>2, <1>3
    <2> HIDE DEF top, bt
    <2> QED
      BY <2>1
  <1>6. ASSUME bt # -1 PROVE bt < lev /\ bt \in Levels /\ player(bt) = player(lev)
    <2>1. PICK n \in core : bt = top(n)
      BY <1>3, <1>6
    <2>2. PICK v \in plvars(lev) : qlev[v] = bt
      BY <1>2, <1>6, <2>1
    <2>3. v \in AllVars /\ qlev[v] < lev /\ level_type(qlev[v]) = player(lev)
      BY DEF plvars
    <2>4. bt \in Levels
      BY <2>2, <2>3, LevelOf
    <2> QED
      BY <2>2, <2>3, <2>4, Scopes
  <1>7. bt \in {-1} \cup Levels
    BY <1>3, <1>4
  <1> HIDE DEF bt
  <1>8. /\ bt \in {-1} \cup Levels
        /\ \A n \in core : \A v \in plvars(lev) \cap VarsOf(n) : qlev[v] <= bt
        /\ bt # -1 => /\ bt < lev /\ bt \in Levels /\ player(bt) = player(lev)
    BY <1>5, <1>6, <1>7
  <1> QED
    BY <1>8 DEF bt

(* What a level learns speaks of the variables decided once it has moved.  *)
LEMMA LearnedInScope ==
  ASSUME IsNodeSet, NEW core \in SUBSET Node, IsFiniteSet(core), NEW bt
  PROVE  /\ Learned(core, bt) \in Node /\ VarsOf(Learned(core, bt)) \subseteq dom_vars(bt)
         /\ \A e : (\A v \in dom_vars(bt) : e[v] \in BOOLEAN) =>
                (Holds(Learned(core, bt), e) <=>
                    \E n \in core : Holds(MayHold(MakeNot(n), dom_vars(bt), OppMoves(bt)), e))
  <1> DEFINE f == [n \in core |-> MayHold(MakeNot(n), dom_vars(bt), OppMoves(bt))]
             ops == {f[n] : n \in core}
  <1>1. \A n \in core : /\ MayHold(MakeNot(n), dom_vars(bt), OppMoves(bt)) \in Node
                        /\ VarsOf(MayHold(MakeNot(n), dom_vars(bt), OppMoves(bt))) \subseteq dom_vars(bt)
    BY MakeNotRight, MakePossibleKnown
  <1>2. ops = {MayHold(MakeNot(n), dom_vars(bt), OppMoves(bt)) : n \in core}
    OBVIOUS
  <1>3. Learned(core, bt) = MakeOr(ops)
    BY <1>2 DEF Learned, MayHold
  <1>4. \A o \in ops : o \in Node /\ VarsOf(o) \subseteq dom_vars(bt)
    BY <1>1, <1>2
  <1>5. \A e : (\E o \in ops : Holds(o, e)) <=>
                    \E n \in core : Holds(MayHold(MakeNot(n), dom_vars(bt), OppMoves(bt)), e)
    BY <1>2
  <1>6. IsFiniteSet(ops)
    <2> HIDE DEF f
    <2> QED
      BY FiniteImage
  <1> HIDE DEF ops
  <1>7. \A e : (\A v \in dom_vars(bt) : e[v] \in BOOLEAN) => \A o \in ops : Defined(e, o)
    BY <1>4 DEF Defined
  <1> QED
    BY <1>3, <1>4, <1>5, <1>6, <1>7, MakeOrRight

(* A constraint that is added stays in the books. *)
LEMMA AddConstrBooks ==
  ASSUME IsNodeSet, BookInv, NEW l \in Levels, NEW c \in Node, VarsOf(c) \subseteq dom_vars(l),
         AddConstr(l, c), output' = output
  PROVE  /\ constrs' \in [Solvers -> SUBSET Node]
         /\ \A k \in Solvers : IsFiniteSet(constrs'[k])
         /\ ConstraintsInScope'
         /\ constrs'[qlev_count] = {Strengthened(Wanted(qlev_count), {})}'
  <1>1. PICK known \in Known(l, c) : constrs' = [constrs EXCEPT ![l] = @ \cup {Strengthened(c, known)}]
    BY DEF AddConstr
  <1>2. Strengthened(c, known) \in Node /\ VarsOf(Strengthened(c, known)) \subseteq dom_vars(l)
    BY StrengthenedRight
  <1>3. l \in Solvers /\ l # qlev_count /\ qlev_count \in Solvers
    BY LevelOf, Scopes
  <1>4. constrs \in [Solvers -> SUBSET Node]
    BY DEF BookInv
  <1>5. constrs' \in [Solvers -> SUBSET Node]
    BY <1>1, <1>2, <1>4
  <1>6. constrs'[l] = constrs[l] \cup {Strengthened(c, known)} /\ \A k \in Solvers : k # l => constrs'[k] = constrs[k]
    BY <1>1, <1>3, <1>4
  <1>7. \A k \in Solvers : IsFiniteSet(constrs'[k])
    <2>1. \A k \in Solvers : IsFiniteSet(constrs[k])
      BY DEF BookInv
    <2>2. IsFiniteSet(constrs[l] \cup {Strengthened(c, known)})
      BY <1>3, <2>1, FS_AddElement
    <2> QED
      BY <1>6, <2>1, <2>2
  <1>8. ConstraintsInScope'
    <2>1. \A k \in Solvers : \A d \in constrs'[k] : VarsOf(d) \subseteq dom_vars(k) \cup aux_vars(k)
      BY <1>2, <1>3, <1>6 DEF BookInv, ConstraintsInScope
    <2> QED
      BY <2>1 DEF ConstraintsInScope
  <1>9. constrs'[qlev_count] = {Strengthened(Wanted(qlev_count), {})}'
    BY <1>3, <1>6 DEF BookInv, Wanted
  <1> QED
    BY <1>5, <1>7, <1>8, <1>9

(* The budget has no limit when the loop does not restart. *)
LEMMA NoLimit == \A r : ~ Restarts => Budget(r) = -1
  BY DEF Budget

LEMMA InitBook ==
  ASSUME IsNodeSet, Init
  PROVE  BookInv
  <1>1. output \in Outputs /\ lev = 0 /\ vals = {} /\ trail = <<>> /\ pc = "solve_" /\ status = "UNDEF"
    BY DEF Init
  <1>2. TrailOf(trail, vals, lev)
    BY <1>1, TrailStart
  <1>3. constrs = [l \in Solvers |-> {Strengthened(c, {}) : c \in FirstConstraint(l)}]
    BY DEF Init
  <1>4. ASSUME NEW l \in Solvers
        PROVE  /\ constrs[l] \in SUBSET Node /\ IsFiniteSet(constrs[l])
               /\ \A c \in constrs[l] : VarsOf(c) \subseteq dom_vars(l) \cup aux_vars(l)
    <2>1. /\ FirstConstraint(l) \in SUBSET Node /\ IsFiniteSet(FirstConstraint(l))
          /\ \A c \in FirstConstraint(l) : VarsOf(c) \subseteq dom_vars(l) \cup aux_vars(l)
      BY <1>1, FirstInScope
    <2>2. constrs[l] = {Strengthened(c, {}) : c \in FirstConstraint(l)}
      BY <1>3
    <2> DEFINE f == [c \in FirstConstraint(l) |-> Strengthened(c, {})]
    <2>3. constrs[l] = {f[c] : c \in FirstConstraint(l)}
      BY <2>2
    <2>4. IsFiniteSet(constrs[l])
      <3> HIDE DEF f
      <3> QED
        BY <2>1, <2>3, FiniteImage
    <2>5. \A c \in FirstConstraint(l) :
            Strengthened(c, {}) \in Node /\ VarsOf(Strengthened(c, {})) \subseteq VarsOf(c)
      BY <2>1, StrengthenedRight
    <2> QED
      BY <2>1, <2>2, <2>4, <2>5
  <1>5. constrs \in [Solvers -> SUBSET Node]
    BY <1>3, <1>4
  <1>6. constrs[qlev_count] = {Strengthened(Wanted(qlev_count), {})}
    BY <1>3, Scopes DEF FirstConstraint
  <1>7. ConstraintsInScope
    BY <1>4 DEF ConstraintsInScope
  <1>8. ~ Restarts => confl_budget = -1
    BY NoLimit DEF Init
  <1> QED
    BY <1>1, <1>2, <1>4, <1>5, <1>6, <1>7, <1>8, Scopes DEF BookInv

(* A level moves: it is not the last one. *)
LEMMA MoveBook ==
  ASSUME IsNodeSet, BookInv, HasSolution
  PROVE  /\ BookInv' /\ lev \in Levels
         /\ \E move \in Moves(lev) : vals' = vals \cup move /\ MovesOf(level_vars(lev), move)
  <1>1. PICK move \in Moves(lev) :
            /\ vals' = vals \cup move
            /\ trail' = trail \o Decisions(lev, move)
            /\ IF lev = 0 THEN last_solve' = TRUE /\ model' = move
                          ELSE UNCHANGED <<last_solve, model>>
    BY DEF HasSolution
  <1>2. PICK m \in Models(lev, Cut(lev)) : move = TrueLits(level_vars(lev), m)
    BY DEF Moves
  <1>3. m \in Valuations(AllVars) /\ \A c \in constrs[lev] \cup Cut(lev) : Holds(c, m)
    BY <1>2 DEF Models
  <1>4. lev \in Levels
    <2> SUFFICES ASSUME lev = qlev_count PROVE FALSE
      BY Scopes DEF BookInv
    <2>1. PICK c \in constrs[lev] : TRUE
      BY DEF BookInv
    <2>2. MakeNot(c) \in Cut(lev)
      BY DEF Cut
    <2>3. c \in Node /\ VarsOf(c) \subseteq AllVars
      BY Scopes DEF BookInv, ConstraintsInScope
    <2>4. Defined(m, c)
      BY <1>3, <2>3, Boolean DEF Defined
    <2> QED
      BY <1>3, <2>2, <2>3, <2>4, MakeNotRight
  <1>5. level_vars(lev) \subseteq AllVars
    BY <1>4, LevelOf
  <1>6. MovesOf(level_vars(lev), move)
    <2> DEFINE a == [v \in level_vars(lev) |-> m[v]]
    <2>1. a \in [level_vars(lev) -> BOOLEAN]
      BY <1>3, <1>5, Boolean
    <2>2. move = TrueLits(level_vars(lev), a)
      BY <1>2 DEF TrueLits
    <2> QED
      BY <2>1, <2>2 DEF MovesOf
  <1>7. lev' = lev + 1 /\ lev' \in Solvers /\ lev' > 0
    BY <1>4, LevelOf DEF HasSolution
  <1>8. TrailOf(trail, vals, lev)'
    <2>1. TrailOf(trail \o Decisions(lev, move), vals \cup move, lev + 1)
      BY <1>4, <1>6, TrailGrows DEF BookInv
    <2> QED
      BY <1>1, <1>7, <2>1 DEF TrailOf, Earlier, VarAt, Decision
  <1>9. last_solve' /\ model' = {n \in vals' : qlev[LitVar(n)] = 0}
    <2>1. \A n \in move : LitVar(n) \in AllVars /\ qlev[LitVar(n)] = lev
      <3>1. {LitVar(n) : n \in move} = level_vars(lev)
        <4> DEFINE S == level_vars(lev)
        <4>1. S \in SUBSET AllVars /\ MovesOf(S, move)
          BY <1>5, <1>6
        <4> HIDE DEF S
        <4>2. {LitVar(n) : n \in move} = S
          BY <4>1, MovesShape
        <4> QED
          BY <4>2 DEF S
      <3> QED
        BY <1>4, <3>1, LevelOf
    <2>2. CASE lev = 0
      <3>1. vals = {}
        BY <2>2, ValsShape, Scopes DEF BookInv
      <3> QED
        BY <1>1, <2>1, <2>2, <3>1
    <2>3. CASE lev # 0
      <3>1. lev > 0
        BY <1>4, <2>3, LevelOf
      <3>2. last_solve /\ model = {n \in vals : qlev[LitVar(n)] = 0}
        BY <3>1 DEF BookInv
      <3> QED
        BY <1>1, <2>1, <2>3, <3>2
    <2> QED
      BY <2>2, <2>3
  <1>10. UNCHANGED <<output, constrs, confl_budget, pc, status>>
    BY DEF HasSolution
  <1>11. (ConstraintsInScope /\ constrs[qlev_count] = {Strengthened(Wanted(qlev_count), {})})'
    BY <1>10 DEF BookInv, ConstraintsInScope, Wanted
  <1>12. pc = "solve_"
    BY DEF HasSolution
  <1>13. BookInv'
    BY <1>7, <1>8, <1>9, <1>10, <1>11, <1>12 DEF BookInv
  <1> QED
    BY <1>1, <1>4, <1>6, <1>13

(* A conflict: the core and the level that learns from it.                 *)
ConflictAt(core, bt) ==
    /\ core \in Cores /\ bt = Analyze(core) /\ bt \in Levels /\ bt < lev /\ player(bt) = player(lev)
    /\ core \in SUBSET Node /\ IsFiniteSet(core)
    /\ AddConstr(bt, Learned(core, bt))
    /\ \/ /\ lev' = bt
          /\ trail' = Kept(bt)
          /\ vals' = vals \ {d.lit : d \in Popped(bt)}
       \/ /\ Restarts
          /\ lev' = 0
          /\ trail' = <<>>
          /\ vals' = {}

LEMMA ConflictBook ==
  ASSUME IsNodeSet, BookInv, Conflict
  PROVE  /\ BookInv'
         /\ \E core, bt : ConflictAt(core, bt)
  <1>1. PICK core \in Cores : \E bt \in {Analyze(core)} \ {-1} :
            /\ AddConstr(bt, Learned(core, bt))
            /\ \/ /\ confl_budget # 1
                  /\ lev' = bt
                  /\ trail' = Kept(bt)
                  /\ vals' = vals \ {d.lit : d \in Popped(bt)}
                  /\ confl_budget' = IF confl_budget > 0 THEN confl_budget - 1 ELSE confl_budget
                  /\ UNCHANGED curr_restarts
               \/ /\ confl_budget = 1
                  /\ lev' = 0
                  /\ trail' = <<>>
                  /\ vals' = {}
                  /\ curr_restarts' = curr_restarts + 1
                  /\ confl_budget' = Budget(curr_restarts + 1)
    BY DEF Conflict
  <1> DEFINE bt == Analyze(core)
  <1>2. core \in SUBSET Node /\ IsFiniteSet(core)
    BY CutRight, FS_Subset DEF Cores
  <1>3. bt \in Levels /\ bt < lev /\ player(bt) = player(lev)
    BY <1>1, <1>2, AnalyzeRight DEF BookInv
  <1>4. /\ AddConstr(bt, Learned(core, bt))
        /\ \/ /\ confl_budget # 1
              /\ lev' = bt
              /\ trail' = Kept(bt)
              /\ vals' = vals \ {d.lit : d \in Popped(bt)}
              /\ confl_budget' = IF confl_budget > 0 THEN confl_budget - 1 ELSE confl_budget
           \/ /\ confl_budget = 1
              /\ lev' = 0
              /\ trail' = <<>>
              /\ vals' = {}
              /\ confl_budget' = Budget(curr_restarts + 1)
    BY <1>1
  <1> HIDE DEF bt
  <1>5. ~ Restarts => confl_budget = -1
    BY DEF BookInv
  <1>6. ~ Restarts => confl_budget' = -1
    BY <1>4, <1>5
  <1>7. ConflictAt(core, bt)
    BY <1>2, <1>3, <1>4, <1>5 DEF ConflictAt, bt
  <1>8. bt \in Int /\ bt \in Solvers /\ lev \in Int /\ 0 <= bt /\ 0 \in Int
    BY <1>3, LevelOf, Scopes DEF BookInv
  <1>9. /\ TrailOf(Kept(bt), vals \ {d.lit : d \in Popped(bt)}, bt)
        /\ vals \ {d.lit : d \in Popped(bt)} = {n \in vals : qlev[LitVar(n)] < bt}
    BY <1>3, <1>8, TrailKept DEF BookInv
  <1>10. TrailOf(trail, vals, lev)'
    <2>1. TrailOf(<<>>, {}, 0)
      BY TrailStart
    <2>2. TrailOf(trail', vals', lev')
      BY <1>4, <1>9, <2>1
    <2> QED
      BY <2>2 DEF TrailOf, Earlier, VarAt, Decision
  <1>11. UNCHANGED <<output, pc, status>> /\ pc = "solve_"
    BY DEF Conflict
  <1>12. lev # 0 /\ lev > 0
    BY <1>3, <1>8
  <1>13. UNCHANGED <<last_solve, model>>
    BY <1>12 DEF Conflict, NoteFailure
  <1>14. lev' > 0 => last_solve' /\ model' = {n \in vals' : qlev[LitVar(n)] = 0}
    <2> SUFFICES ASSUME lev' > 0 PROVE last_solve' /\ model' = {n \in vals' : qlev[LitVar(n)] = 0}
      OBVIOUS
    <2>1. bt > 0 /\ vals' = {n \in vals : qlev[LitVar(n)] < bt}
      BY <1>4, <1>9
    <2>2. last_solve /\ model = {n \in vals : qlev[LitVar(n)] = 0}
      BY <1>12 DEF BookInv
    <2> QED
      BY <1>8, <1>13, <2>1, <2>2
  <1>15. lev' \in Solvers
    BY <1>4, <1>8, Scopes
  <1>16. /\ constrs' \in [Solvers -> SUBSET Node]
         /\ \A k \in Solvers : IsFiniteSet(constrs'[k])
         /\ ConstraintsInScope'
         /\ constrs'[qlev_count] = {Strengthened(Wanted(qlev_count), {})}'
    <2>1. Learned(core, bt) \in Node /\ VarsOf(Learned(core, bt)) \subseteq dom_vars(bt)
      BY <1>2, LearnedInScope
    <2> QED
      BY <1>3, <1>4, <1>11, <2>1, AddConstrBooks
  <1>17. BookInv'
    BY <1>6, <1>10, <1>11, <1>14, <1>15, <1>16 DEF BookInv
  <1> QED
    BY <1>7, <1>17

LEMMA DecidedBook ==
  ASSUME IsNodeSet, BookInv, Decided
  PROVE  BookInv'
  <1>1. /\ UNCHANGED <<output, lev, vals, trail, confl_budget, constrs>>
        /\ pc' = "solve" /\ status' \in {"TRUE", "FALSE"}
    BY DEF Decided
  <1>2. (TrailOf(trail, vals, lev) /\ ConstraintsInScope
            /\ constrs[qlev_count] = {Strengthened(Wanted(qlev_count), {})})'
    BY <1>1 DEF BookInv, TrailOf, Earlier, VarAt, Decision, ConstraintsInScope, Wanted
  <1>3. lev > 0 => UNCHANGED <<last_solve, model>>
    <2>1. lev \in Int
      BY Scopes DEF BookInv
    <2> QED
      BY <2>1 DEF Decided, NoteFailure
  <1>4. lev = 0 => ~ last_solve'
    BY DEF Decided, NoteFailure
  <1> QED
    BY <1>1, <1>2, <1>3, <1>4 DEF BookInv

LEMMA ReturnBook ==
  ASSUME IsNodeSet, BookInv, Return
  PROVE  BookInv'
  <1>1. /\ UNCHANGED <<output, lev, vals, trail, confl_budget, constrs, last_solve, model, status>>
        /\ pc = "solve" /\ status # "UNDEF"
        /\ \/ pc' = "solve_all" /\ Enumerate /\ status = "TRUE"
           \/ pc' = "done" /\ (Enumerate => status = "FALSE")
    BY DEF Return, BookInv
  <1>2. (TrailOf(trail, vals, lev) /\ ConstraintsInScope
            /\ constrs[qlev_count] = {Strengthened(Wanted(qlev_count), {})})'
    BY <1>1 DEF BookInv, TrailOf, Earlier, VarAt, Decision, ConstraintsInScope, Wanted
  <1> QED
    BY <1>1, <1>2 DEF BookInv

(* What block_solution excludes are the assignments that give the          *)
(* variables told apart the values they have in the model.                 *)
LEMMA SolutionRight ==
  ASSUME IsNodeSet
  PROVE  /\ MakeNot(MakeAnd(Solution)) \in Node
         /\ VarsOf(MakeNot(MakeAnd(Solution))) \subseteq dom_vars(0)
         /\ \A e \in Valuations(AllVars) :
                Holds(MakeNot(MakeAnd(Solution)), e) <=>
                    \E v \in Project : e[v] # (Literal(v, TRUE) \in model)
         /\ Solution \in SUBSET Node
         /\ Assignment(Solution) = [v \in Project |-> Literal(v, TRUE) \in model]
         /\ Solution = TrueLits(Project, Assignment(Solution))
  <1> DEFINE m == [v \in Project |-> Literal(v, TRUE) \in model]
  <1>1. Project \in SUBSET AllVars /\ Project \subseteq dom_vars(0)
    BY Scopes, LevelOf
  <1>2. m \in [Project -> BOOLEAN]
    OBVIOUS
  <1>3. Solution = TrueLits(Project, m)
    BY DEF Solution, TrueLits
  <1>4. \A v \in Project : m[v] = (Literal(v, TRUE) \in model)
    OBVIOUS
  <1> HIDE DEF m
  <1>5. MovesOf(Project, Solution)
    BY <1>2, <1>3 DEF MovesOf
  <1>6. Solution \in SUBSET Node /\ IsFiniteSet(Solution)
        /\ Assignment(Solution) \in [Project -> BOOLEAN] /\ Solution = TrueLits(Project, Assignment(Solution))
        /\ \A v, b : Literal(v, b) \in Solution <=> v \in Project /\ Assignment(Solution)[v] = b
    BY <1>1, <1>5, MovesShape
  <1>7. \A v \in Project : Assignment(Solution)[v] = m[v]
    BY <1>3, <1>6 DEF TrueLits
  <1>8. Assignment(Solution) = m
    BY <1>2, <1>6, <1>7
  <1>9. ASSUME NEW n \in Solution
        PROVE  \E v \in Project : /\ n = Literal(v, m[v]) /\ VarsOf(n) = {v} /\ Type(n) = "LITERAL"
                                  /\ \A e : Holds(n, e) <=> e[v] = m[v]
    <2>1. PICK v \in Project : n = Literal(v, m[v])
      BY <1>3 DEF TrueLits
    <2>2. LitVar(n) = v /\ Positive(n) = m[v] /\ Type(n) = "LITERAL" /\ n \in Node
      BY <1>6, <2>1, LiteralParts
    <2>3. VarsOf(n) = {v} /\ \A e : Holds(n, e) <=> e[v] = m[v]
      BY <2>2, VarsOfCases, HoldsEqs
    <2> QED
      BY <2>1, <2>2, <2>3
  <1>10. \A n \in Solution : VarsOf(n) \subseteq dom_vars(0)
    BY <1>1, <1>9
  <1>11. \A v \in Project : \E n \in Solution : \A e : Holds(n, e) <=> e[v] = m[v]
    <2> SUFFICES ASSUME NEW v \in Project PROVE \E n \in Solution : \A e : Holds(n, e) <=> e[v] = m[v]
      OBVIOUS
    <2>1. Literal(v, m[v]) \in Solution
      BY <1>3 DEF TrueLits
    <2>2. LitVar(Literal(v, m[v])) = v
      BY LiteralParts
    <2>3. PICK w \in Project : Literal(v, m[v]) = Literal(w, m[w])
                               /\ \A e : Holds(Literal(v, m[v]), e) <=> e[w] = m[w]
      BY <1>9, <2>1
    <2>4. w = v
      BY <2>3, LiteralParts
    <2> QED
      BY <2>1, <2>3, <2>4
  <1>12. /\ MakeAnd(Solution) \in Node
         /\ VarsOf(MakeAnd(Solution)) \subseteq dom_vars(0)
         /\ \A e : (\A o \in Solution : Defined(e, o)) =>
                (Holds(MakeAnd(Solution), e) <=> \A o \in Solution : Holds(o, e))
    BY <1>6, <1>10, MakeAndRight
  <1>13. \A e \in Valuations(AllVars) : Defined(e, MakeAnd(Solution)) /\ \A o \in Solution : Defined(e, o)
    BY <1>10, <1>12, Scopes, Boolean DEF Defined
  <1>14. \A e \in Valuations(AllVars) :
            Holds(MakeNot(MakeAnd(Solution)), e) <=> \E o \in Solution : ~ Holds(o, e)
    BY <1>12, <1>13, MakeNotRight
  <1>15. \A e \in Valuations(AllVars) :
            (\E o \in Solution : ~ Holds(o, e)) <=> \E v \in Project : e[v] # m[v]
    BY <1>9, <1>11
  <1>16. \A e \in Valuations(AllVars) :
            (\E v \in Project : e[v] # m[v]) <=> \E v \in Project : e[v] # (Literal(v, TRUE) \in model)
    BY <1>4
  <1> QED
    BY <1>6, <1>8, <1>12, <1>14, <1>15, <1>16, MakeNotRight DEF m

LEMMA BlockBook ==
  ASSUME IsNodeSet, BookInv, BlockSolution
  PROVE  BookInv'
  <1>1. /\ UNCHANGED <<output, last_solve, model, count>> /\ AddConstr(0, MakeNot(MakeAnd(Solution)))
        /\ lev' = 0 /\ vals' = {} /\ trail' = <<>> /\ pc' = "solve_" /\ status' = "UNDEF"
        /\ confl_budget' = Budget(0)
    BY DEF BlockSolution
  <1>2. TrailOf(trail, vals, lev)'
    <2>1. TrailOf(trail', vals', lev')
      BY <1>1, TrailStart
    <2> QED
      BY <2>1 DEF TrailOf, Earlier, VarAt, Decision
  <1>3. MakeNot(MakeAnd(Solution)) \in Node /\ VarsOf(MakeNot(MakeAnd(Solution))) \subseteq dom_vars(0)
    BY SolutionRight
  <1>4. /\ constrs' \in [Solvers -> SUBSET Node]
        /\ \A k \in Solvers : IsFiniteSet(constrs'[k])
        /\ ConstraintsInScope'
        /\ constrs'[qlev_count] = {Strengthened(Wanted(qlev_count), {})}'
    BY <1>1, <1>3, AddConstrBooks, Scopes
  <1> QED
    BY <1>1, <1>2, <1>4, NoLimit, Scopes DEF BookInv

LEMMA StepBook ==
  ASSUME IsNodeSet, BookInv, [Next]_vars
  PROVE  BookInv'
  <1>1. CASE HasSolution
    BY <1>1, MoveBook
  <1>2. CASE Conflict
    BY <1>2, ConflictBook
  <1>3. CASE Decided
    BY <1>3, DecidedBook
  <1>4. CASE Return
    BY <1>4, ReturnBook
  <1>5. CASE BlockSolution
    BY <1>5, BlockBook
  <1>6. CASE UNCHANGED vars
    BY <1>6 DEF vars, BookInv, TrailOf, Earlier, VarAt, Decision, ConstraintsInScope, Wanted
  <1> QED
    BY <1>1, <1>2, <1>3, <1>4, <1>5, <1>6 DEF Next, Done

-----------------------------------------------------------------------------
(* After every move, backjump and restart exactly the variables of the     *)
(* levels below lev are decided, and the trail is in step with them        *)
(* (zigzag.cpp:150-192).                                                   *)
THEOREM TrailRight == IsNodeSet => (Spec => []TrailMatchesVals)
  <1> SUFFICES ASSUME IsNodeSet PROVE Spec => []TrailMatchesVals
    OBVIOUS
  <1>1. BookInv => TrailMatchesVals
    BY TrailMatches DEF BookInv
  <1>2. Init => BookInv
    BY InitBook
  <1>3. BookInv /\ [Next]_vars => BookInv'
    BY StepBook
  <1> QED
    BY <1>1, <1>2, <1>3, PTL DEF Spec

(* No solver is ever given a constraint over a variable it does not know   *)
(* (level_solver.cpp:31-57, encoder_to_sat.h:104-108).                     *)
THEOREM ScopeRight == IsNodeSet => (Spec => []ConstraintsInScope)
  <1> SUFFICES ASSUME IsNodeSet PROVE Spec => []ConstraintsInScope
    OBVIOUS
  <1>1. BookInv => ConstraintsInScope
    BY DEF BookInv
  <1>2. Init => BookInv
    BY InitBook
  <1>3. BookInv /\ [Next]_vars => BookInv'
    BY StepBook
  <1> QED
    BY <1>1, <1>2, <1>3, PTL DEF Spec

-----------------------------------------------------------------------------
(* An assignment that keeps the moves satisfies what they make true.       *)
LEMMA KnownHolds ==
  ASSUME IsNodeSet, TrailOf(trail, vals, lev), NEW c \in Node, Eval(c, vals) = "TRUE",
         NEW e, \A v \in Earlier(lev) \cap VarsOf(c) : e[v] = Assignment(vals)[v]
  PROVE  Holds(c, e)
  <1>1. Follows(e, vals, VarsOf(c))
    BY ValsShape DEF Follows
  <1> QED
    BY <1>1, ValsShape, EvalRight

(* The assignment e with the moves made so far.                            *)
Merged(e) == [v \in AllVars |-> IF v \in Earlier(lev) THEN Assignment(vals)[v] ELSE e[v]]

(* A model under the cut is one under the moves once they are put in.      *)
LEMMA MergedModel ==
  ASSUME IsNodeSet, BookInv, lev \in Levels, NEW m \in Models(lev, Cut(lev))
  PROVE  Merged(m) \in Models(lev, {}) /\ m \in Valuations(AllVars)
  <1>1. m \in Valuations(AllVars) /\ \A c \in constrs[lev] \cup Cut(lev) : Holds(c, m)
    BY DEF Models
  <1>2. Merged(m) \in Valuations(AllVars)
    <2>1. \A v \in AllVars : (IF v \in Earlier(lev) THEN Assignment(vals)[v] ELSE m[v]) \in BOOLEAN
      BY <1>1, ValsShape, Boolean DEF BookInv
    <2> QED
      BY <2>1 DEF Merged, Valuations
  <1>3. lev # qlev_count /\ lev \in Solvers
    BY Scopes DEF BookInv
  <1>4. ASSUME NEW c \in constrs[lev] PROVE Holds(c, Merged(m))
    <2>1. c \in Node /\ VarsOf(c) \subseteq AllVars
      BY <1>3, Scopes DEF BookInv, ConstraintsInScope
    <2>2. Defined(m, c) /\ Holds(c, m)
      BY <1>1, <2>1, Boolean DEF Defined
    <2>3. Consistent(vals) /\ vals \in SUBSET Node
          /\ (\A v : Assigns(vals, Literal(v, TRUE)) <=> v \in Earlier(lev))
          /\ \A v \in Earlier(lev) : Assignment(vals)[v] = (Literal(v, TRUE) \in vals)
      BY ValsShape DEF BookInv
    <2>4. Moved(Merged(m), m, vals, VarsOf(c))
      <3>1. \A v \in VarsOf(c) :
                Merged(m)[v] = IF v \in Earlier(lev) THEN Assignment(vals)[v] ELSE m[v]
        BY <2>1 DEF Merged
      <3> QED
        BY <2>3, <3>1 DEF Moved
    <2>5. CASE ~ SimpleCut
      <3>1. \A n \in FindCut(c, vals) : Holds(n, m)
        BY <1>1, <1>3, <2>5 DEF Cut
      <3> QED
        BY <2>1, <2>2, <2>3, <2>4, <3>1, FindCutRight
    <2>6. CASE SimpleCut
      <3>1. \A n \in vals : Holds(n, m)
        BY <1>1, <1>3, <2>6 DEF Cut
      <3>2. \A v \in Earlier(lev) : m[v] = Assignment(vals)[v]
        <4> SUFFICES ASSUME NEW v \in Earlier(lev) PROVE m[v] = Assignment(vals)[v]
          OBVIOUS
        <4> DEFINE b == Assignment(vals)[v]
        <4>1. Literal(v, b) \in vals
          BY DecidedLits DEF BookInv
        <4>2. Holds(Literal(v, b), m) /\ Literal(v, b) \in Node
          BY <2>3, <3>1, <4>1
        <4> HIDE DEF b
        <4>3. m[v] = b
          BY <4>2, HoldsEqs, LiteralParts
        <4> QED
          BY <4>3 DEF b
      <3>3. \A v \in AllVars : Merged(m)[v] = m[v]
        BY <3>2 DEF Merged
      <3>4. Merged(m) = m
        BY <1>1, <1>2, <3>3 DEF Valuations
      <3> QED
        BY <2>2, <3>4
    <2> QED
      BY <2>5, <2>6
  <1> QED
    BY <1>1, <1>2, <1>4 DEF Models

(* The cut is as good as the moves: it neither admits a move they rule out *)
(* nor loses one (level_solver.cpp:59-75).                                 *)
THEOREM CutRightAlways == IsNodeSet => (Spec => []CutFaithful)
  <1> SUFFICES ASSUME IsNodeSet PROVE Spec => []CutFaithful
    OBVIOUS
  <1>1. BookInv => CutFaithful
    <2> SUFFICES ASSUME BookInv, lev < qlev_count
                 PROVE  Moves(lev) = {TrueLits(level_vars(lev), m) : m \in Models(lev, vals)}
      BY DEF CutFaithful
    <2>1. lev \in Levels /\ lev \in Int
      BY Scopes DEF BookInv
    <2>2. \A v \in level_vars(lev) : v \in AllVars /\ v \notin Earlier(lev)
      BY <2>1, LevelOf DEF Earlier
    <2>3. /\ vals \in SUBSET Node /\ \A n \in vals : Type(n) = "LITERAL" /\ LitVar(n) \in Earlier(lev)
          /\ \A v, b : Literal(v, b) \in vals <=> v \in Earlier(lev) /\ Assignment(vals)[v] = b
      <3>1. TrailOf(trail, vals, lev)
        BY DEF BookInv
      <3>2. /\ vals \in SUBSET Node
            /\ \A n \in vals : Type(n) = "LITERAL" /\ LitVar(n) \in Earlier(lev)
        BY <3>1, ValsShape
      <3>3. \A v, b : Literal(v, b) \in vals <=> v \in Earlier(lev) /\ Assignment(vals)[v] = b
        BY <3>1, DecidedLits
      <3> QED
        BY <3>2, <3>3
    <2>4. \A n \in vals : \A e : Holds(n, e) <=> e[LitVar(n)] = Assignment(vals)[LitVar(n)]
      <3> SUFFICES ASSUME NEW n \in vals, NEW e
                   PROVE  Holds(n, e) <=> e[LitVar(n)] = Assignment(vals)[LitVar(n)]
        OBVIOUS
      <3>1. n = Literal(LitVar(n), Positive(n))
        BY <2>3, Shape
      <3>2. Assignment(vals)[LitVar(n)] = Positive(n)
        BY <2>3, <3>1
      <3> QED
        BY <2>3, <3>2, HoldsEqs
    <2>5. ASSUME NEW m \in Models(lev, Cut(lev))
          PROVE  /\ Merged(m) \in Models(lev, vals)
                 /\ TrueLits(level_vars(lev), m) = TrueLits(level_vars(lev), Merged(m))
      <3>1. Merged(m) \in Models(lev, {})
        BY <2>1, MergedModel
      <3>2. \A v \in AllVars : Merged(m)[v] = IF v \in Earlier(lev) THEN Assignment(vals)[v] ELSE m[v]
        BY DEF Merged
      <3>3. \A n \in vals : Holds(n, Merged(m))
        BY <2>3, <2>4, <3>2, Scopes
      <3> QED
        BY <2>2, <3>1, <3>2, <3>3 DEF Models, TrueLits
    <2>6. ASSUME NEW m \in Models(lev, vals) PROVE m \in Models(lev, Cut(lev))
      <3>1. m \in Valuations(AllVars) /\ \A c \in constrs[lev] \cup vals : Holds(c, m)
        BY DEF Models
      <3>2. \A v \in Earlier(lev) : m[v] = Assignment(vals)[v]
        <4> SUFFICES ASSUME NEW v \in Earlier(lev) PROVE m[v] = Assignment(vals)[v]
          OBVIOUS
        <4>1. Literal(v, Assignment(vals)[v]) \in vals
          BY <2>3
        <4>2. m[LitVar(Literal(v, Assignment(vals)[v]))]
                = Assignment(vals)[LitVar(Literal(v, Assignment(vals)[v]))]
          BY <2>4, <3>1, <4>1
        <4> QED
          BY <4>2, LiteralParts
      <3>3. \A c \in Cut(lev) : c \in Node /\ Eval(c, vals) = "TRUE"
        BY <2>1, CutRight
      <3>4. \A c \in Cut(lev) : Holds(c, m)
        BY <3>2, <3>3, KnownHolds DEF BookInv
      <3> QED
        BY <3>1, <3>4 DEF Models
    <2> QED
      BY <2>5, <2>6 DEF Moves
  <1>2. Init => BookInv
    BY InitBook
  <1>3. BookInv /\ [Next]_vars => BookInv'
    BY StepBook
  <1> QED
    BY <1>1, <1>2, <1>3, PTL DEF Spec

-----------------------------------------------------------------------------
(* Cegar's proofs, of this loop: the assignments the constraints of a      *)
(* level still allow are its abstraction.                                  *)
Loop ==
    INSTANCE CegarProofs WITH
        Var <- AllVars, N <- qlev_count, QLev <- qlev,
        QType <- [l \in Levels |-> level_type(l)],
        MayRestart <- Restarts,
        matrix <- Matrix,
        vals <- Assignment(vals),
        allowed <- [l \in Solvers |-> Models(l, {})],
        blocked <- {Assignment(s) : s \in found}

(* The games the loop is right about: when solutions are enumerated it is  *)
(* the existential player who moves first.                                 *)
FirstMoverCounts == Enumerate => level_type(0) = "EXISTENTIAL"

LEMMA LoopAssumptions ==
  ASSUME FirstMoverCounts
  PROVE  /\ Loop!NAssumption /\ Loop!QLevAssumption /\ Loop!QTypeAssumption
         /\ Loop!OptionsAssumption /\ Loop!ProjectAssumption /\ Loop!EnumerateAssumption
  <1>1. 0 .. qlev_count - 1 = Levels /\ 0 \in Levels
    BY Scopes DEF Levels
  <1>2. Loop!NAssumption
    BY PrefShape DEF Loop!NAssumption
  <1>3. Loop!QLevAssumption
    BY <1>1, LevelOf DEF Loop!QLevAssumption
  <1>4. Loop!QTypeAssumption
    BY <1>1, PrefShape DEF Loop!QTypeAssumption
  <1>5. Loop!OptionsAssumption
    BY ZigZagOptionsAssumption DEF Loop!OptionsAssumption, Restarts
  <1>6. Loop!ProjectAssumption
    <2>1. Project \subseteq dom_vars(0)
      BY Scopes
    <2>2. Loop!Upto(0) = dom_vars(0)
      BY DEF Loop!Upto, dom_vars
    <2> QED
      BY <2>1, <2>2 DEF Loop!ProjectAssumption
  <1>7. Loop!EnumerateAssumption
    BY <1>1 DEF FirstMoverCounts, Loop!EnumerateAssumption
  <1> QED
    BY <1>2, <1>3, <1>4, <1>5, <1>6, <1>7

(* The words of Cegar in those of the loop. *)
LEMMA LoopWords ==
  /\ Loop!Assign = Valuations(AllVars) /\ Loop!Level = Levels /\ Loop!Turn = Solvers
  /\ \A l : Loop!Below(l) = Earlier(l) /\ Loop!Upto(l) = dom_vars(l)
  /\ \A l \in Solvers : Loop!Player(l) = player(l)
  /\ \A v \in AllVars : [l \in Levels |-> level_type(l)][qlev[v]] = level_type(qlev[v])
  /\ \A q, M : Loop!Good(q, M) = IF q = "EXISTENTIAL" THEN M ELSE Valuations(AllVars) \ M
  /\ \A a, b, S : Loop!Agree(a, b, S) <=> \A v \in S : a[v] = b[v]
  /\ \A a, S : Loop!Restrict(a, S) = [v \in S |-> a[v]]
  <1>1. 0 .. qlev_count - 1 = Levels /\ 0 .. qlev_count = Solvers
    BY DEF Levels, Solvers
  <1>2. \A l : Loop!Below(l) = Earlier(l) /\ Loop!Upto(l) = dom_vars(l)
    BY DEF Loop!Below, Loop!Upto, Earlier, dom_vars
  <1>3. \A l \in Solvers : Loop!Player(l) = player(l)
    <2> SUFFICES ASSUME NEW l \in Solvers PROVE Loop!Player(l) = player(l)
      OBVIOUS
    <2>1. l < qlev_count => l \in Levels
      BY Scopes
    <2>2. qlev_count - 1 \in Levels
      BY Scopes
    <2> QED
      BY <2>1, <2>2 DEF Loop!Player, Loop!Opponent, player, opponent
  <1> QED
    BY <1>1, <1>2, <1>3, LevelOf DEF Loop!Assign, Loop!Level, Loop!Turn, Loop!Good, Loop!Agree, Loop!Restrict,
      Valuations

-----------------------------------------------------------------------------
(* Moves that are kept have the values they had. *)
LEMMA SameMoves ==
  ASSUME IsNodeSet, NEW t, NEW lits, NEW l, TrailOf(t, lits, l),
         NEW u, NEW kept, NEW k, TrailOf(u, kept, k), kept \subseteq lits
  PROVE  Assignment(kept) = [v \in Earlier(k) |-> Assignment(lits)[v]]
  <1>1. Assignment(kept) \in [Earlier(k) -> BOOLEAN]
    BY ValsShape
  <1>2. \A v, b : Literal(v, b) \in kept <=> v \in Earlier(k) /\ Assignment(kept)[v] = b
    BY DecidedLits
  <1>3. \A v, b : Literal(v, b) \in lits <=> v \in Earlier(l) /\ Assignment(lits)[v] = b
    BY DecidedLits
  <1>4. \A v \in Earlier(k) : Assignment(kept)[v] = Assignment(lits)[v]
    BY <1>3, <1>2
  <1> QED
    BY <1>1, <1>4

(* A constraint that is added excludes what falsifies it and no more.      *)
LEMMA AddConstrModels ==
  ASSUME IsNodeSet, BookInv, NEW l \in Levels, NEW c \in Node, VarsOf(c) \subseteq dom_vars(l),
         AddConstr(l, c)
  PROVE  [k \in Solvers |-> Models(k, {})]' =
            [[k \in Solvers |-> Models(k, {})] EXCEPT ![l] = {e \in @ : Holds(c, e)}]
  <1>1. PICK known \in Known(l, c) : constrs' = [constrs EXCEPT ![l] = @ \cup {Strengthened(c, known)}]
    BY DEF AddConstr
  <1>2. l \in Solvers /\ constrs \in [Solvers -> SUBSET Node]
    BY LevelOf DEF BookInv
  <1>3. constrs'[l] = constrs[l] \cup {Strengthened(c, known)} /\ \A k \in Solvers : k # l => constrs'[k] = constrs[k]
    BY <1>1, <1>2
  <1>4. \A m \in Models(l, {}) : \A n \in known : Holds(n, m)
    BY <1>1 DEF Known, Fixed
  <1>5. \A m \in Valuations(AllVars) : Defined(m, c)
    BY Scopes, Boolean DEF Defined
  <1>6. \A m \in Models(l, {}) : m \in Valuations(AllVars) /\ (Holds(Strengthened(c, known), m) <=> Holds(c, m))
    BY <1>4, <1>5, StrengthenedRight DEF Models
  <1>7. {m \in Valuations(AllVars) : \A d \in constrs'[l] : Holds(d, m)} = {e \in Models(l, {}) : Holds(c, e)}
    <2>1. Models(l, {}) = {m \in Valuations(AllVars) : \A d \in constrs[l] : Holds(d, m)}
      BY DEF Models
    <2>2. {m \in Valuations(AllVars) : \A d \in constrs'[l] : Holds(d, m)}
            = {m \in Models(l, {}) : Holds(Strengthened(c, known), m)}
      BY <1>3, <2>1
    <2> QED
      BY <1>6, <2>2
  <1>8. \A k \in Solvers : Models(k, {})' = {m \in Valuations(AllVars) : \A d \in constrs'[k] : Holds(d, m)}
    BY DEF Models
  <1>9. \A k \in Solvers : k # l => Models(k, {})' = Models(k, {})
    BY <1>3 DEF Models
  <1>10. [k \in Solvers |-> Models(k, {})]' = [k \in Solvers |-> Models(k, {})']
    OBVIOUS
  <1>11. Models(l, {})' = {e \in Models(l, {}) : Holds(c, e)}
    BY <1>2, <1>7, <1>8
  <1> QED
    BY <1>2, <1>9, <1>10, <1>11

(* The moves make the cut true, at the last level too: the constraint      *)
(* there is one the level before does not leave unsatisfied.               *)
LEMMA CutTrue ==
  ASSUME IsNodeSet, FirstMoverCounts, BookInv, Loop!IInv, status = "UNDEF"
  PROVE  \A c \in Cut(lev) : Eval(c, vals) = "TRUE"
  <1>1. CASE lev \in Levels
    BY <1>1, CutRight
  <1>2. CASE lev = qlev_count
    <2>1. Loop!LastLevelLoses
      BY LoopAssumptions, Loop!LastLevelStuck
    <2>2. ~ \E e \in Models(lev, {}) : \A v \in Earlier(lev) : e[v] = Assignment(vals)[v]
      BY <1>2, <2>1, LoopWords DEF Loop!LastLevelLoses, Loop!Stuck, BookInv
    <2> DEFINE c == Strengthened(Wanted(qlev_count), {})
    <2>3. constrs[lev] = {c} /\ c \in Node /\ VarsOf(c) \subseteq AllVars
      BY <1>2, WantedRight, StrengthenedRight DEF BookInv
    <2> HIDE DEF c
    <2>4. Earlier(lev) = AllVars /\ Assignment(vals) \in Valuations(AllVars)
      BY <1>2, Scopes, ValsShape DEF BookInv, Valuations
    <2>5. ~ Holds(c, Assignment(vals))
      BY <2>2, <2>3, <2>4 DEF Models
    <2>6. Eval(c, vals) # "TRUE"
      BY <2>3, <2>5, KnownHolds DEF BookInv
    <2>7. Eval(c, vals) # Undefined
      BY <2>3, <2>4, ValsShape, EvalTotal DEF BookInv
    <2>8. Eval(c, vals) = "FALSE"
      <3>1. Eval(c, vals) \in Values
        BY <2>3, EvalCases
      <3> QED
        BY <2>6, <2>7, <3>1 DEF Values
    <2>9. Eval(MakeNot(c), vals) = "TRUE"
      <3>1. TrailOf(trail, vals, lev)
        BY DEF BookInv
      <3>2. Consistent(vals)
        BY <3>1, ValsShape
      <3>3. Eval(MakeNot(c), vals) = Negated("FALSE")
        BY <2>3, <2>8, <3>2, EvalNot
      <3> QED
        BY <3>3, ValueFacts
    <2>10. Cut(lev) = {MakeNot(c)}
      BY <1>2, <2>3 DEF Cut
    <2> QED
      BY <2>9, <2>10
  <1> QED
    BY <1>1, <1>2, Scopes DEF BookInv

(* A core refutes every assignment that keeps the moves it speaks of.      *)
LEMMA CoreRefutes ==
  ASSUME IsNodeSet, BookInv, \A c \in Cut(lev) : Eval(c, vals) = "TRUE",
         NEW core \in Cores, NEW e \in Models(lev, {}),
         \A n \in core : \A v \in Earlier(lev) \cap VarsOf(n) : e[v] = Assignment(vals)[v]
  PROVE  FALSE
  <1>1. core \in SUBSET Node /\ \A n \in core : Eval(n, vals) = "TRUE"
    BY CutRight DEF Cores
  <1>2. \A n \in core : Holds(n, e)
    BY <1>1, KnownHolds DEF BookInv
  <1>3. e \in Models(lev, core)
    BY <1>2 DEF Models
  <1> QED
    BY <1>3 DEF Cores

-----------------------------------------------------------------------------
(* Every step of the loop is one of Cegar's, or none.                      *)
LEMMA LoopMove ==
  ASSUME IsNodeSet, BookInv, HasSolution
  PROVE  Loop!Move
  <1>1. BookInv' /\ lev \in Levels /\ lev \in Solvers /\ lev < qlev_count /\ lev \in Int
    BY MoveBook, LevelOf
  <1>2. PICK move \in Moves(lev) : vals' = vals \cup move
    BY DEF HasSolution
  <1>3. PICK m \in Models(lev, Cut(lev)) : move = TrueLits(level_vars(lev), m)
    BY DEF Moves
  <1>4. Merged(m) \in Models(lev, {})
    BY <1>1, MergedModel
  <1>5. TrailOf(trail, vals, lev) /\ TrailOf(trail', vals', lev + 1) /\ lev' = lev + 1
    <2>1. TrailOf(trail, vals, lev) /\ lev' = lev + 1
      BY DEF BookInv, HasSolution
    <2>2. TrailOf(trail', vals', lev')
      BY <1>1 DEF BookInv, TrailOf, Earlier, VarAt, Decision
    <2> QED
      BY <2>1, <2>2
  <1>6. Earlier(lev + 1) = dom_vars(lev) /\ \A v \in dom_vars(lev) : v \in Earlier(lev) \/ v \in level_vars(lev)
    <2>1. \A v \in dom_vars(lev) : v \in AllVars /\ qlev[v] \in Int /\ qlev[v] <= lev
      BY LevelOf DEF dom_vars
    <2> QED
      BY <1>1, <2>1, LevelOf, Scopes DEF Earlier
  <1>7. Assignment(vals') \in [dom_vars(lev) -> BOOLEAN]
    BY <1>5, <1>6, ValsShape
  <1>8. \A v, b : Literal(v, b) \in vals' => Assignment(vals')[v] = b
    BY <1>5, DecidedLits
  <1>9. \A v \in Earlier(lev) : Literal(v, Assignment(vals)[v]) \in vals
    BY <1>5, DecidedLits
  <1>10. ASSUME NEW v \in dom_vars(lev) PROVE Assignment(vals')[v] = Merged(m)[v]
    <2>1. v \in AllVars
      BY Scopes
    <2>2. CASE v \in Earlier(lev)
      <3>1. Literal(v, Assignment(vals)[v]) \in vals'
        BY <1>2, <1>9, <2>2
      <3> QED
        BY <1>8, <2>1, <2>2, <3>1 DEF Merged
    <2>3. CASE v \notin Earlier(lev)
      <3>1. Literal(v, m[v]) \in vals'
        BY <1>2, <1>3, <1>6, <2>3 DEF TrueLits
      <3> QED
        BY <1>8, <2>1, <2>3, <3>1 DEF Merged
    <2> QED
      BY <2>2, <2>3
  <1>11. Assignment(vals') = [v \in dom_vars(lev) |-> Merged(m)[v]]
    BY <1>7, <1>10
  <1>12. \A v \in Earlier(lev) : Merged(m)[v] = Assignment(vals)[v]
    BY Scopes DEF Merged
  <1>13. status = "UNDEF"
    BY DEF BookInv, HasSolution
  <1>14. UNCHANGED <<output, constrs, found, status>>
    BY DEF HasSolution
  <1>15. /\ Matrix' = Matrix /\ [l \in Solvers |-> Models(l, {})]' = [l \in Solvers |-> Models(l, {})]
         /\ {Assignment(s) : s \in found}' = {Assignment(s) : s \in found}
    BY <1>14 DEF Matrix, Models, Assignment
  <1>16. Assignment(vals)' = Assignment(vals')
    BY DEF Assignment
  <1>17. \E e \in [l \in Solvers |-> Models(l, {})][lev] :
            /\ Loop!Agree(e, Assignment(vals), Loop!Below(lev))
            /\ Assignment(vals)' = Loop!Restrict(e, Loop!Upto(lev))
    BY <1>1, <1>4, <1>11, <1>12, <1>16, LoopWords
  <1> QED
    BY <1>1, <1>5, <1>13, <1>14, <1>15, <1>17 DEF Loop!Move

(* What remains of the moves when the loop goes back. *)
LEMMA BackTo ==
  ASSUME IsNodeSet, BookInv, BookInv', NEW core, NEW bt, ConflictAt(core, bt)
  PROVE  Assignment(vals)' = [v \in Earlier(lev') |-> Assignment(vals)[v]]
  <1>1. vals' \subseteq vals
    BY DEF ConflictAt
  <1>2. TrailOf(trail, vals, lev)
    BY DEF BookInv
  <1>3. TrailOf(trail', vals', lev')
    BY DEF BookInv, TrailOf, Earlier, VarAt, Decision
  <1>4. Assignment(vals)' = Assignment(vals')
    BY DEF Assignment
  <1> QED
    BY <1>1, <1>2, <1>3, <1>4, SameMoves

(* The opponent's moves above bt. *)
Theirs(bt, v) == v \in Earlier(lev) /\ qlev[v] >= bt /\ level_type(qlev[v]) = opponent(player(lev))

(* They are what a constraint is learned against, with the values they     *)
(* have.                                                                   *)
LEMMA OppMovesShape ==
  ASSUME IsNodeSet, BookInv, NEW bt \in Int, bt <= lev
  PROVE  /\ Consistent(OppMoves(bt))
         /\ \A v, b : Literal(v, b) \in OppMoves(bt) <=> Theirs(bt, v) /\ Assignment(vals)[v] = b
  <1> DEFINE Above(v) == qlev[v] >= bt /\ level_type(qlev[v]) = opponent(player(lev))
  <1>1. TrailOf(trail, vals, lev) /\ lev \in Int
    BY Scopes DEF BookInv
  <1>2. OppMoves(bt) = {n \in vals : Above(LitVar(n))}
    BY <1>1, TrailKept
  <1> HIDE DEF Above
  <1>3. Consistent(vals)
    BY <1>1, ValsShape
  <1>4. Consistent(OppMoves(bt))
    BY <1>2, <1>3 DEF Consistent
  <1>5. \A v, b : Literal(v, b) \in vals <=> v \in Earlier(lev) /\ Assignment(vals)[v] = b
    BY <1>1, DecidedLits
  <1>6. \A v, b : Literal(v, b) \in OppMoves(bt) <=> v \in Earlier(lev) /\ Assignment(vals)[v] = b /\ Above(v)
    BY <1>2, <1>5, LiteralParts
  <1> QED
    BY <1>4, <1>6 DEF Above, Theirs

(* An assignment with the same values follows them.                        *)
LEMMA OppMovesFollow ==
  ASSUME IsNodeSet, BookInv, NEW bt \in Int, bt <= lev, NEW S, NEW e,
         \A v : Theirs(bt, v) => e[v] = Assignment(vals)[v]
  PROVE  Follows(e, OppMoves(bt), S)
  <1> SUFFICES ASSUME NEW v \in S, Assigns(OppMoves(bt), Literal(v, TRUE))
               PROVE  e[v] = (Literal(v, TRUE) \in OppMoves(bt))
    BY DEF Follows
  <1>1. \A b : Literal(v, b) \in OppMoves(bt) <=> Theirs(bt, v) /\ Assignment(vals)[v] = b
    BY OppMovesShape
  <1>2. Literal(v, TRUE) \in OppMoves(bt) \/ Literal(v, FALSE) \in OppMoves(bt)
    BY TrueLiteral DEF Assigns
  <1>3. Theirs(bt, v)
    BY <1>1, <1>2
  <1>4. e[v] = Assignment(vals)[v]
    BY <1>3
  <1>5. CASE Literal(v, TRUE) \in OppMoves(bt)
    <2>1. Assignment(vals)[v] = TRUE
      BY <1>1, <1>5
    <2> QED
      BY <1>4, <1>5, <2>1
  <1>6. CASE Literal(v, TRUE) \notin OppMoves(bt)
    <2>1. Assignment(vals)[v] = FALSE
      BY <1>1, <1>2, <1>6
    <2> DEFINE A == Literal(v, TRUE) \in OppMoves(bt)
    <2>2. A \in BOOLEAN
      OBVIOUS
    <2>3. ~ A
      BY <1>6
    <2> HIDE DEF A
    <2>4. e[v] = A
      BY <1>4, <2>1, <2>2, <2>3
    <2> QED
      BY <2>4 DEF A
  <1> QED
    BY <1>5, <1>6


(* The position the loop came through does not satisfy what is learned.    *)
LEMMA LearnedRefutes ==
  ASSUME IsNodeSet, FirstMoverCounts, BookInv, Loop!IInv, status = "UNDEF",
         NEW core, NEW bt, ConflictAt(core, bt)
  PROVE  ~ Holds(Learned(core, bt), [v \in dom_vars(bt) |-> Assignment(vals)[v]])
  <1> DEFINE r == [v \in dom_vars(bt) |-> Assignment(vals)[v]]
  <1>1. /\ core \in SUBSET Node /\ IsFiniteSet(core) /\ core \in Cores /\ bt = Analyze(core)
        /\ bt \in Levels /\ bt < lev /\ player(bt) = player(lev)
    BY DEF ConflictAt
  <1>2. lev \in Solvers /\ lev \in Int /\ bt \in Int /\ TrailOf(trail, vals, lev)
    BY <1>1, LevelOf, Scopes DEF BookInv
  <1>3. \A v \in dom_vars(bt) : v \in Earlier(lev) /\ v \in AllVars
    BY <1>1, <1>2, LevelOf DEF dom_vars, Earlier
  <1>4. \A v \in dom_vars(bt) : r[v] = Assignment(vals)[v] /\ r[v] \in BOOLEAN
    BY <1>2, <1>3, ValsShape
  <1> HIDE DEF r
  <1>5. \A n \in core : \A v \in plvars(lev) \cap VarsOf(n) : qlev[v] <= bt
    BY <1>1, <1>2, AnalyzeRight
  <1>6. ASSUME NEW n \in core PROVE ~ Holds(MayHold(MakeNot(n), dom_vars(bt), OppMoves(bt)), r)
    <2>1. Eval(MakeNot(n), vals) = "FALSE"
      <3>1. n \in Cut(lev) /\ n \in Node
        BY <1>1 DEF Cores
      <3>2. Eval(n, vals) = "TRUE"
        BY <3>1, CutTrue
      <3>3. Consistent(vals)
        BY <1>2, ValsShape
      <3> QED
        BY <3>1, <3>2, <3>3, EvalNot, ValueFacts
    <2>2. MakeNot(n) \in Node /\ VarsOf(MakeNot(n)) = VarsOf(n)
      BY <1>1, MakeNotRight
    <2>3. ASSUME NEW v \in VarsOf(n), NEW b \in BOOLEAN, Literal(v, b) \in vals
          PROVE  /\ v \in dom_vars(bt) => r[v] = b
                 /\ v \notin dom_vars(bt) => Literal(v, b) \in OppMoves(bt)
      <3>1. v \in Earlier(lev) /\ Assignment(vals)[v] = b
        BY <1>2, <2>3, DecidedLits
      <3>2. v \in AllVars /\ qlev[v] < lev /\ qlev[v] \in Int /\ qlev[v] \in Levels
        BY <3>1, LevelOf DEF Earlier
      <3>3. v \notin dom_vars(bt) => qlev[v] > bt
        BY <1>2, <3>2 DEF dom_vars
      <3>4. ASSUME v \notin dom_vars(bt) PROVE level_type(qlev[v]) # player(lev)
        <4>1. v \notin plvars(lev)
          BY <1>2, <1>5, <3>2, <3>3, <3>4
        <4> QED
          BY <3>2, <4>1 DEF plvars
      <3>5. ASSUME v \notin dom_vars(bt) PROVE level_type(qlev[v]) = opponent(player(lev))
        BY <1>2, <3>2, <3>4, <3>5, PrefShape, Scopes
      <3>6. ASSUME v \notin dom_vars(bt) PROVE Literal(v, b) \in OppMoves(bt)
        <4>1. qlev[v] >= bt
          BY <1>2, <3>2, <3>3, <3>6
        <4>2. Theirs(bt, v)
          BY <3>1, <3>5, <3>6, <4>1 DEF Theirs
        <4>3. bt <= lev
          BY <1>1, <1>2
        <4> QED
          BY <1>2, <3>1, <4>2, <4>3, OppMovesShape
      <3> QED
        BY <1>4, <3>1, <3>6
    <2>4. Within(vals, VarsOf(MakeNot(n)), dom_vars(bt), OppMoves(bt), r)
      BY <2>2, <2>3 DEF Within
    <2>5. Consistent(OppMoves(bt))
      <3>1. bt <= lev
        BY <1>1, <1>2
      <3> QED
        BY <1>2, <3>1, OppMovesShape
    <2>6. \A v \in VarsOf(MakeNot(n)) \cap dom_vars(bt) : r[v] \in BOOLEAN
      BY <1>4
    <2> QED
      BY <2>1, <2>2, <2>4, <2>5, <2>6, MakePossibleExcludes
  <1>7. ~ Holds(Learned(core, bt), r)
    BY <1>1, <1>4, <1>6, LearnedInScope
  <1> QED
    BY <1>7 DEF r

(* A position from which the player could still reply satisfies it.        *)
LEMMA LearnedSpares ==
  ASSUME IsNodeSet, BookInv, NEW core, NEW bt, ConflictAt(core, bt),
         NEW e \in Models(lev, {}),
         \A v \in Earlier(lev) : qlev[v] >= bt /\ level_type(qlev[v]) # player(lev)
                                    => e[v] = Assignment(vals)[v]
  PROVE  Holds(Learned(core, bt), [v \in dom_vars(bt) |-> e[v]])
  <1> DEFINE r == [v \in dom_vars(bt) |-> e[v]]
  <1>1. /\ core \in SUBSET Node /\ IsFiniteSet(core) /\ core \in Cores /\ bt = Analyze(core)
        /\ bt \in Levels /\ bt < lev /\ player(bt) = player(lev)
    BY DEF ConflictAt
  <1>2. lev \in Solvers /\ lev \in Int /\ bt \in Int /\ TrailOf(trail, vals, lev)
    BY <1>1, LevelOf, Scopes DEF BookInv
  <1>3. e \in Valuations(AllVars)
    BY DEF Models
  <1>4. \A v \in dom_vars(bt) : r[v] = e[v] /\ r[v] \in BOOLEAN
    BY <1>3, Boolean, Scopes
  <1> HIDE DEF r
  <1>5. PICK n \in core : ~ Holds(n, e)
    <2>1. e \notin Models(lev, core)
      BY <1>1 DEF Cores
    <2> QED
      BY <1>3, <2>1 DEF Models
  <1>6. n \in Node /\ VarsOf(n) \subseteq AllVars
    BY <1>1, CutRight DEF Cores
  <1>7. MakeNot(n) \in Node /\ VarsOf(MakeNot(n)) = VarsOf(n)
    BY <1>6, MakeNotRight
  <1>8. Holds(MakeNot(n), e)
    <2>1. Defined(e, n)
      BY <1>3, <1>6, Boolean DEF Defined
    <2> QED
      BY <1>5, <1>6, <2>1, MakeNotRight
  <1>9. bt <= lev
    BY <1>1, <1>2
  <1>10. Consistent(OppMoves(bt))
    BY <1>2, <1>9, OppMovesShape
  <1>11. Follows(e, OppMoves(bt), VarsOf(MakeNot(n)) \ dom_vars(bt))
    <2>1. opponent(player(lev)) # player(lev)
      BY <1>2, Scopes DEF opponent
    <2>2. \A v : Theirs(bt, v) => e[v] = Assignment(vals)[v]
      BY <2>1 DEF Theirs
    <2> QED
      BY <1>2, <1>9, <2>2, OppMovesFollow
  <1>12. \A v \in VarsOf(MakeNot(n)) \cap dom_vars(bt) : e[v] \in BOOLEAN /\ r[v] = e[v]
    BY <1>4
  <1>13. Holds(MayHold(MakeNot(n), dom_vars(bt), OppMoves(bt)), r)
    BY <1>7, <1>8, <1>10, <1>11, <1>12, MakePossibleRight
  <1>14. Holds(Learned(core, bt), r)
    BY <1>1, <1>4, <1>13, LearnedInScope
  <1> QED
    BY <1>14 DEF r

(* The positions the learned constraint excludes are refuted, the one the  *)
(* loop came through among them.                                           *)
Refuted(core, bt) == {r \in [dom_vars(bt) -> BOOLEAN] : ~ Holds(Learned(core, bt), r)}

LEMMA LoopStuck ==
  ASSUME IsNodeSet, FirstMoverCounts, BookInv, Loop!IInv, status = "UNDEF", NEW core \in Cores
  PROVE  Loop!Stuck
  <1>1. lev \in Solvers
    BY DEF BookInv
  <1>2. \A c \in Cut(lev) : Eval(c, vals) = "TRUE"
    BY CutTrue
  <1>3. \A e \in Models(lev, {}) : ~ \A v \in Earlier(lev) : e[v] = Assignment(vals)[v]
    BY <1>2, CoreRefutes
  <1> QED
    BY <1>1, <1>3, LoopWords DEF Loop!Stuck

LEMMA LearnedExcludes ==
  ASSUME IsNodeSet, BookInv, NEW core, NEW bt, ConflictAt(core, bt)
  PROVE  [l \in Solvers |-> Models(l, {})]' =
            [[l \in Solvers |-> Models(l, {})] EXCEPT
                ![bt] = {e \in @ : [v \in dom_vars(bt) |-> e[v]] \notin Refuted(core, bt)}]
  <1>1. /\ core \in SUBSET Node /\ IsFiniteSet(core) /\ bt \in Levels /\ bt \in Solvers
        /\ AddConstr(bt, Learned(core, bt))
    BY LevelOf DEF ConflictAt
  <1> DEFINE c == Learned(core, bt)
             allowed == [l \in Solvers |-> Models(l, {})]
  <1>2. c \in Node /\ VarsOf(c) \subseteq dom_vars(bt)
    BY <1>1, LearnedInScope
  <1>3. allowed' = [allowed EXCEPT ![bt] = {e \in @ : Holds(c, e)}]
    BY <1>1, <1>2, AddConstrModels
  <1>4. ASSUME NEW e \in Models(bt, {})
        PROVE  Holds(c, e) <=> [v \in dom_vars(bt) |-> e[v]] \notin Refuted(core, bt)
    <2> DEFINE r == [v \in dom_vars(bt) |-> e[v]]
    <2>1. e \in Valuations(AllVars)
      BY DEF Models
    <2>2. \A v \in dom_vars(bt) : e[v] \in BOOLEAN
      BY <2>1, Boolean, Scopes
    <2>3. r \in [dom_vars(bt) -> BOOLEAN] /\ \A v \in dom_vars(bt) : r[v] = e[v]
      BY <2>2
    <2> HIDE DEF r, c
    <2>4. Defined(e, c) /\ \A v \in VarsOf(c) : r[v] = e[v]
      BY <1>2, <2>2, <2>3 DEF Defined
    <2>5. Holds(c, e) <=> Holds(c, r)
      BY <1>2, <2>4, HoldsAlike
    <2>6. r \notin Refuted(core, bt) <=> Holds(c, r)
      BY <2>3 DEF Refuted, c
    <2> QED
      BY <2>5, <2>6 DEF r
  <1> HIDE DEF c
  <1>5. allowed[bt] = Models(bt, {})
    BY <1>1
  <1>6. {e \in allowed[bt] : Holds(c, e)}
          = {e \in allowed[bt] : [v \in dom_vars(bt) |-> e[v]] \notin Refuted(core, bt)}
    BY <1>4, <1>5
  <1> HIDE DEF allowed
  <1>7. allowed' = [allowed EXCEPT
                        ![bt] = {e \in @ : [v \in dom_vars(bt) |-> e[v]] \notin Refuted(core, bt)}]
    BY <1>3, <1>6
  <1> QED
    BY <1>7 DEF allowed

LEMMA LoopLearn ==
  ASSUME IsNodeSet, FirstMoverCounts, BookInv, Loop!IInv, Conflict
  PROVE  \E bt \in Loop!Level : \E R \in SUBSET [Loop!Upto(bt) -> BOOLEAN] : Loop!Learn(bt, R)
  <1>1. BookInv' /\ status = "UNDEF" /\ lev \in Solvers /\ lev \in Int
    BY ConflictBook, Scopes DEF Conflict, BookInv
  <1>2. PICK core, bt : ConflictAt(core, bt)
    BY ConflictBook
  <1>3. /\ core \in Cores /\ bt \in Levels /\ bt \in Solvers /\ bt \in Int /\ bt < lev
        /\ player(bt) = player(lev)
        /\ lev' = bt \/ (Restarts /\ lev' = 0)
    <2>1. core \in Cores /\ bt \in Levels /\ bt < lev /\ player(bt) = player(lev)
      BY <1>2 DEF ConflictAt
    <2>2. lev' = bt \/ (Restarts /\ lev' = 0)
      BY <1>2 DEF ConflictAt
    <2> QED
      BY <2>1, <2>2, LevelOf
  <1> DEFINE R == Refuted(core, bt)
             allowed == [l \in Solvers |-> Models(l, {})]
             A == Assignment(vals)
  <1>4. Loop!Stuck
    BY <1>1, <1>3, LoopStuck
  <1>5. [v \in dom_vars(bt) |-> A[v]] \in R
    <2>1. ~ Holds(Learned(core, bt), [v \in dom_vars(bt) |-> A[v]])
      BY <1>1, <1>2, LearnedRefutes
    <2>2. \A v \in dom_vars(bt) : v \in Earlier(lev)
      <3>1. \A v \in dom_vars(bt) : v \in AllVars /\ qlev[v] \in Int /\ qlev[v] <= bt
        BY LevelOf DEF dom_vars
      <3> QED
        BY <1>1, <1>3, <3>1 DEF Earlier
    <2>3. A \in [Earlier(lev) -> BOOLEAN]
      BY ValsShape DEF BookInv
    <2> HIDE DEF A
    <2>4. [v \in dom_vars(bt) |-> A[v]] \in [dom_vars(bt) -> BOOLEAN]
      BY <2>2, <2>3
    <2> QED
      BY <2>1, <2>4 DEF Refuted
  <1>6. ASSUME NEW e \in Models(lev, {}),
               \A v \in Earlier(lev) : qlev[v] >= bt /\ level_type(qlev[v]) # player(lev) => e[v] = A[v]
        PROVE  [v \in dom_vars(bt) |-> e[v]] \notin R
    BY <1>2, <1>6, LearnedSpares DEF Refuted
  <1>7. allowed' = [allowed EXCEPT ![bt] = {e \in @ : [v \in dom_vars(bt) |-> e[v]] \notin R}]
    BY <1>2, LearnedExcludes
  <1>8. A' = [v \in Earlier(lev') |-> A[v]]
    BY <1>1, <1>2, BackTo
  <1>9. UNCHANGED <<output, found, status>>
    BY DEF Conflict
  <1>10. Matrix' = Matrix /\ {Assignment(s) : s \in found}' = {Assignment(s) : s \in found}
    BY <1>9 DEF Matrix, Assignment
  <1>11. R \in SUBSET [dom_vars(bt) -> BOOLEAN]
    BY DEF Refuted
  <1> HIDE DEF R
  <1>12. \A e \in Loop!Replies(bt) : Loop!Restrict(e, Loop!Upto(bt)) \notin R
    <2> SUFFICES ASSUME NEW e \in Loop!Replies(bt) PROVE [v \in dom_vars(bt) |-> e[v]] \notin R
      BY LoopWords
    <2>1. e \in Models(lev, {}) /\ \A v \in Earlier(lev) :
            qlev[v] >= bt /\ [l \in Levels |-> level_type(l)][qlev[v]] # player(lev) => e[v] = A[v]
      BY <1>1, LoopWords DEF Loop!Replies
    <2>2. \A v \in Earlier(lev) :
            qlev[v] >= bt /\ level_type(qlev[v]) # player(lev) => e[v] = A[v]
      BY <2>1, LoopWords, Scopes
    <2> QED
      BY <1>6, <2>1, <2>2
  <1>13. Loop!Learn(bt, R)
    <2>1. Loop!Player(bt) = Loop!Player(lev)
      BY <1>1, <1>3, LoopWords
    <2>2. Loop!Restrict(A, Loop!Upto(bt)) \in R
      BY <1>5, LoopWords
    <2>3. allowed' = [allowed EXCEPT ![bt] = {e \in @ : Loop!Restrict(e, Loop!Upto(bt)) \notin R}]
      BY <1>7, LoopWords
    <2>4. A' = Loop!Restrict(A, Loop!Below(lev'))
      BY <1>8, LoopWords
    <2> QED
      BY <1>1, <1>3, <1>4, <1>9, <1>10, <1>12, <2>1, <2>2, <2>3, <2>4 DEF Loop!Learn
  <1>14. bt \in Loop!Level /\ R \in SUBSET [Loop!Upto(bt) -> BOOLEAN]
    BY <1>3, <1>11, LoopWords
  <1> QED
    BY <1>13, <1>14

(* A player none of whose moves takes part in the conflict has lost.       *)
LEMMA LoopLose ==
  ASSUME IsNodeSet, FirstMoverCounts, BookInv, Loop!IInv, Decided
  PROVE  Loop!Lose
  <1>1. status = "UNDEF" /\ lev \in Solvers /\ lev \in Int
    BY Scopes DEF Decided, BookInv
  <1>2. PICK core \in Cores : Analyze(core) < 0
    BY DEF Decided
  <1>3. core \in SUBSET Node /\ IsFiniteSet(core)
    <2>1. core \subseteq Cut(lev)
      BY DEF Cores
    <2> QED
      BY <2>1, CutRight, FS_Subset
  <1>4. ASSUME NEW n \in core, NEW v \in Earlier(lev) \cap VarsOf(n)
        PROVE  level_type(qlev[v]) # player(lev)
    <2>1. \A u \in plvars(lev) \cap VarsOf(n) : qlev[u] <= Analyze(core)
      BY <1>1, <1>3, AnalyzeRight
    <2>2. Analyze(core) \in Int
      BY <1>1, <1>3, AnalyzeRight, LevelOf
    <2>3. v \in AllVars /\ qlev[v] < lev /\ qlev[v] \in Int /\ 0 <= qlev[v]
      BY LevelOf DEF Earlier
    <2>4. v \notin plvars(lev)
      BY <1>2, <2>1, <2>2, <2>3
    <2> QED
      BY <2>3, <2>4 DEF plvars
  <1>5. ASSUME NEW e \in Loop!Replies(-1) PROVE FALSE
    <2>1. e \in Models(lev, {}) /\ \A v \in Earlier(lev) :
            /\ qlev[v] >= -1
            /\ [l \in Levels |-> level_type(l)][qlev[v]] # player(lev)
            => e[v] = Assignment(vals)[v]
      BY <1>1, LoopWords DEF Loop!Replies
    <2>2. \A v \in Earlier(lev) : v \in AllVars /\ qlev[v] >= -1
      BY LevelOf DEF Earlier
    <2>3. \A v \in Earlier(lev) : level_type(qlev[v]) # player(lev) => e[v] = Assignment(vals)[v]
      BY <2>1, <2>2, LoopWords
    <2>4. \A n \in core : \A v \in Earlier(lev) \cap VarsOf(n) : e[v] = Assignment(vals)[v]
      BY <1>4, <2>3
    <2>5. \A c \in Cut(lev) : Eval(c, vals) = "TRUE"
      BY <1>1, CutTrue
    <2> QED
      BY <2>1, <2>4, <2>5, CoreRefutes
  <1>6. UNCHANGED <<output, constrs, found, vals, lev>>
    BY DEF Decided
  <1>7. /\ Matrix' = Matrix /\ [l \in Solvers |-> Models(l, {})]' = [l \in Solvers |-> Models(l, {})]
        /\ {Assignment(s) : s \in found}' = {Assignment(s) : s \in found}
        /\ Assignment(vals)' = Assignment(vals)
    BY <1>6 DEF Matrix, Models, Assignment
  <1>8. status' = IF Loop!Player(lev) = "UNIVERSAL" THEN "TRUE" ELSE "FALSE"
    BY <1>1, LoopWords DEF Decided
  <1>9. Loop!Replies(-1) = {}
    BY <1>5
  <1> QED
    BY <1>1, <1>6, <1>7, <1>8, <1>9 DEF Loop!Lose

(* The first moves that are in the model are those of vals.                *)
LEMMA FirstMoves ==
  ASSUME IsNodeSet, BookInv, lev > 0
  PROVE  /\ \A v \in dom_vars(0) : v \in Earlier(lev)
         /\ \A v \in dom_vars(0) : Literal(v, TRUE) \in model <=> Literal(v, TRUE) \in vals
         /\ \A v \in dom_vars(0) : Assignment(vals)[v] = (Literal(v, TRUE) \in model)
  <1>1. TrailOf(trail, vals, lev) /\ lev \in Int /\ model = {n \in vals : qlev[LitVar(n)] = 0}
    BY Scopes DEF BookInv
  <1>2. \A v \in dom_vars(0) : v \in Earlier(lev) /\ qlev[v] = 0
    <2>1. \A v \in dom_vars(0) : v \in AllVars /\ qlev[v] \in Int /\ 0 <= qlev[v] /\ qlev[v] <= 0
      BY LevelOf DEF dom_vars
    <2> QED
      BY <1>1, <2>1 DEF Earlier
  <1>3. \A v \in dom_vars(0) : Literal(v, TRUE) \in model <=> Literal(v, TRUE) \in vals
    BY <1>1, <1>2, TrueLiteral
  <1>4. ASSUME NEW v \in dom_vars(0)
        PROVE  Assignment(vals)[v] = (Literal(v, TRUE) \in model)
    <2>1. Assignment(vals)[v] = (Literal(v, TRUE) \in vals)
      BY <1>1, <1>2, ValsShape
    <2> DEFINE P == Literal(v, TRUE) \in vals
               Q == Literal(v, TRUE) \in model
    <2>2. P \in BOOLEAN /\ Q \in BOOLEAN
      OBVIOUS
    <2>3. Q <=> P
      BY <1>3
    <2>4. Assignment(vals)[v] = P
      BY <2>1
    <2> HIDE DEF P, Q
    <2>5. Assignment(vals)[v] = Q
      BY <2>2, <2>3, <2>4
    <2> QED
      BY <2>5 DEF Q
  <1> QED
    BY <1>2, <1>3, <1>4

(* Enumeration blocks what the loop found.                                 *)
LEMMA LoopBlock ==
  ASSUME IsNodeSet, FirstMoverCounts, BookInv, Loop!IInv, BlockSolution
  PROVE  Loop!Block
  <1> DEFINE A == Assignment(vals)
             allowed == [l \in Solvers |-> Models(l, {})]
             c == MakeNot(MakeAnd(Solution))
  <1>1. Enumerate /\ status = "TRUE"
    BY DEF BookInv, BlockSolution
  <1>2. lev > 0
    BY <1>1 DEF Loop!IInv, Loop!SolutionFound
  <1>3. \A v \in Project : v \in dom_vars(0) /\ v \in AllVars
    BY Scopes
  <1>4. \A v \in Project : A[v] = (Literal(v, TRUE) \in model)
    BY <1>2, <1>3, FirstMoves
  <1>5. /\ c \in Node /\ VarsOf(c) \subseteq dom_vars(0)
        /\ \A e \in Valuations(AllVars) :
                Holds(c, e) <=> \E v \in Project : e[v] # (Literal(v, TRUE) \in model)
        /\ Assignment(Solution) = [v \in Project |-> Literal(v, TRUE) \in model]
    BY SolutionRight
  <1> HIDE DEF A
  <1>6. Assignment(Solution) = [v \in Project |-> A[v]]
    BY <1>4, <1>5
  <1>7. \A e \in Valuations(AllVars) : Holds(c, e) <=> ~ \A v \in Project : e[v] = A[v]
    BY <1>4, <1>5
  <1>8. AddConstr(0, c) /\ 0 \in Levels /\ 0 \in Solvers
    BY Scopes DEF BlockSolution
  <1> HIDE DEF c
  <1>9. allowed' = [allowed EXCEPT ![0] = {e \in @ : Holds(c, e)}]
    BY <1>5, <1>8, AddConstrModels
  <1>10. allowed[0] = Models(0, {}) /\ \A e \in Models(0, {}) : e \in Valuations(AllVars)
    BY <1>8 DEF Models
  <1>11. {e \in allowed[0] : Holds(c, e)} = {e \in allowed[0] : ~ \A v \in Project : e[v] = A[v]}
    BY <1>7, <1>10
  <1> HIDE DEF allowed
  <1>12. allowed' = [allowed EXCEPT ![0] = {e \in @ : ~ \A v \in Project : e[v] = A[v]}]
    BY <1>9, <1>11
  <1>13. found' = found \cup {Solution} /\ lev' = 0 /\ vals' = {} /\ status' = "UNDEF" /\ output' = output
    BY DEF BlockSolution
  <1>14. {Assignment(s) : s \in found}' = {Assignment(s) : s \in found} \cup {[v \in Project |-> A[v]]}
    <2>1. {Assignment(s) : s \in found}' = {Assignment(s) : s \in found'}
      BY DEF Assignment
    <2> QED
      BY <1>6, <1>13, <2>1
  <1>15. Assignment(vals)' = [v \in {} |-> FALSE]
    BY <1>13 DEF Assignment
  <1>16. Matrix' = Matrix
    BY <1>13 DEF Matrix
  <1>17. /\ Loop!Restrict(Assignment(vals), Project) = [v \in Project |-> A[v]]
         /\ \A e : Loop!Agree(e, Assignment(vals), Project) <=> \A v \in Project : e[v] = A[v]
    BY LoopWords DEF A
  <1>18. allowed' = [allowed EXCEPT ![0] = {e \in @ : ~ Loop!Agree(e, Assignment(vals), Project)}]
    BY <1>12, <1>17
  <1>19. {Assignment(s) : s \in found}' =
            {Assignment(s) : s \in found} \cup {Loop!Restrict(Assignment(vals), Project)}
    BY <1>14, <1>17
  <1> QED
    BY <1>1, <1>13, <1>15, <1>16, <1>18, <1>19 DEF Loop!Block, allowed

(* The abstractions the loop starts with are those of Cegar.               *)
LEMMA FirstModels ==
  ASSUME IsNodeSet, Init, NEW l \in Solvers
  PROVE  Models(l, {}) = {m \in Valuations(AllVars) : \A c \in FirstConstraint(l) : Holds(c, m)}
  <1>1. constrs[l] = {Strengthened(c, {}) : c \in FirstConstraint(l)} /\ output \in Outputs
    BY DEF Init
  <1>2. ASSUME NEW m \in Valuations(AllVars), NEW c \in FirstConstraint(l)
        PROVE  Holds(Strengthened(c, {}), m) <=> Holds(c, m)
    <2>1. c \in Node /\ VarsOf(c) \subseteq AllVars
      BY <1>1, FirstInScope, Scopes
    <2>2. Defined(m, c)
      BY <2>1, Boolean DEF Defined
    <2> QED
      BY <2>1, <2>2, StrengthenedRight
  <1>3. Models(l, {}) = {m \in Valuations(AllVars) : \A c \in FirstConstraint(l) : Holds(Strengthened(c, {}), m)}
    BY <1>1 DEF Models
  <1> QED
    BY <1>2, <1>3

(* The opponent's variables above l at false. *)
Falsified(l) == {Literal(v, FALSE) : v \in {v \in AllVars : qlev[v] > l /\ level_type(qlev[v]) # player(l)}}

LEMMA FalsifiedRight ==
  ASSUME IsNodeSet, NEW l \in Solvers, NEW e \in Valuations(AllVars)
  PROVE  /\ Consistent(Falsified(l))
         /\ Loop!Lowered(l, e) \in Valuations(AllVars)
         /\ Moved(Loop!Lowered(l, e), e, Falsified(l), AllVars)
  <1> DEFINE Later(v) == qlev[v] > l /\ level_type(qlev[v]) # player(l)
             d == [v \in AllVars |-> IF Later(v) THEN FALSE ELSE e[v]]
  <1>1. Loop!Lowered(l, e) = d
    BY LoopWords DEF Loop!Lowered
  <1>2. \A v : /\ Literal(v, TRUE) \notin Falsified(l)
               /\ Literal(v, FALSE) \in Falsified(l) <=> v \in AllVars /\ Later(v)
    <2> DEFINE Pos(v) == Literal(v, TRUE)
               Neg(v) == Literal(v, FALSE)
    <2>1. \A n : n \in Falsified(l) <=> \E v \in AllVars : Later(v) /\ n = Neg(v)
      BY DEF Falsified
    <2>2. \A v, w : Pos(v) # Neg(w)
      BY DEF Literal
    <2>3. \A v, w : Neg(v) = Neg(w) => v = w
      BY DEF Literal
    <2> HIDE DEF Later, Pos, Neg
    <2>4. \A v : Pos(v) \notin Falsified(l) /\ (Neg(v) \in Falsified(l) <=> v \in AllVars /\ Later(v))
      BY <2>1, <2>2, <2>3
    <2> QED
      BY <2>4 DEF Pos, Neg
  <1>3. \A n \in Falsified(l) : \E v \in AllVars : n = Literal(v, FALSE)
    BY DEF Falsified
  <1> HIDE DEF Later
  <1>4. \A v : Literal(v, TRUE) \notin Falsified(l)
    BY <1>2
  <1>5. Consistent(Falsified(l))
    <2> SUFFICES ASSUME NEW n \in Falsified(l) PROVE Complement(n) \notin Falsified(l)
      BY DEF Consistent
    <2>1. PICK v \in AllVars : n = Literal(v, FALSE)
      BY <1>3
    <2>2. Complement(n) = Literal(v, TRUE)
      BY <2>1 DEF Complement, Literal, LitVar, Positive
    <2> QED
      BY <1>4, <2>2
  <1>6. \A v \in AllVars : Assigns(Falsified(l), Literal(v, TRUE)) <=> Later(v)
    <2> SUFFICES ASSUME NEW v \in AllVars PROVE Assigns(Falsified(l), Literal(v, TRUE)) <=> Later(v)
      OBVIOUS
    <2>1. Complement(Literal(v, TRUE)) = Literal(v, FALSE)
      BY TrueLiteral
    <2>2. Literal(v, FALSE) \in Falsified(l) <=> Later(v)
      BY <1>2
    <2> QED
      BY <1>4, <2>1, <2>2 DEF Assigns
  <1>7. \A v \in AllVars : e[v] \in BOOLEAN
    BY Boolean
  <1>8. d \in Valuations(AllVars)
    BY <1>7 DEF Valuations
  <1>9. ASSUME NEW v \in AllVars
        PROVE  d[v] = IF Assigns(Falsified(l), Literal(v, TRUE))
                      THEN Literal(v, TRUE) \in Falsified(l) ELSE e[v]
    <2> DEFINE P == Literal(v, TRUE) \in Falsified(l)
    <2>1. P \in BOOLEAN
      OBVIOUS
    <2>2. ~ P
      BY <1>4
    <2> HIDE DEF P
    <2>3. d[v] = IF Later(v) THEN P ELSE e[v]
      BY <2>1, <2>2
    <2>4. CASE Later(v)
      <3>1. d[v] = P
        BY <2>3, <2>4
      <3> QED
        BY <1>6, <2>4, <3>1 DEF P
    <2>5. CASE ~ Later(v)
      <3>1. d[v] = e[v]
        BY <2>3, <2>5
      <3> QED
        BY <1>6, <2>5, <3>1
    <2> QED
      BY <2>4, <2>5
  <1> HIDE DEF d
  <1>10. Moved(d, e, Falsified(l), AllVars)
    BY <1>9 DEF Moved
  <1> QED
    BY <1>1, <1>5, <1>8, <1>10

LEMMA LoopFirst ==
  ASSUME IsNodeSet, Init, NEW l \in Solvers
  PROVE  Models(l, {}) = Loop!FirstAbstraction(l, Matrix)
  <1> DEFINE G == Loop!Good(player(l), Matrix)
  <1>1. \A e \in Valuations(AllVars) : Holds(Wanted(l), e) <=> e \in G
    <2>1. \A e \in Valuations(AllVars) :
            Holds(Wanted(l), e) <=> e \in (IF player(l) = "UNIVERSAL"
                                           THEN Valuations(AllVars) \ Matrix ELSE Matrix)
      BY WantedRight DEF Init
    <2>2. player(l) \in {"EXISTENTIAL", "UNIVERSAL"}
      BY Scopes
    <2>3. G = IF player(l) = "EXISTENTIAL" THEN Matrix ELSE Valuations(AllVars) \ Matrix
      BY LoopWords
    <2> QED
      BY <2>1, <2>2, <2>3
  <1>2. G \subseteq Valuations(AllVars)
    BY LoopWords DEF Matrix
  <1> HIDE DEF G
  <1>3. Loop!FirstAbstraction(l, Matrix) =
            IF Full THEN {e \in Valuations(AllVars) : Loop!Lowered(l, e) \in G}
            ELSE IF l >= qlev_count - 1 THEN G ELSE Valuations(AllVars)
    BY LoopWords DEF Loop!FirstAbstraction, G
  <1>4. /\ l \in Int /\ qlev_count \in Int /\ l <= qlev_count
        /\ Models(l, {}) = {m \in Valuations(AllVars) : \A c \in FirstConstraint(l) : Holds(c, m)}
        /\ Wanted(l) \in Node /\ VarsOf(Wanted(l)) \subseteq AllVars
    BY FirstModels, Scopes, WantedRight DEF Init
  <1>5. CASE l = qlev_count
    <2>1. FirstConstraint(l) = {Wanted(l)}
      BY <1>5 DEF FirstConstraint
    <2>2. Models(l, {}) = G
      BY <1>1, <1>2, <1>4, <2>1
    <2>3. \A e \in Valuations(AllVars) : Loop!Lowered(l, e) = e
      <3> SUFFICES ASSUME NEW e \in Valuations(AllVars) PROVE Loop!Lowered(l, e) = e
        OBVIOUS
      <3>1. \A v \in AllVars : ~ (qlev[v] > l)
        BY <1>4, <1>5, LevelOf
      <3>2. Loop!Lowered(l, e) = [v \in AllVars |-> e[v]]
        BY <3>1 DEF Loop!Lowered
      <3> QED
        BY <3>2 DEF Valuations
    <2>4. {e \in Valuations(AllVars) : Loop!Lowered(l, e) \in G} = G
      BY <1>2, <2>3
    <2> QED
      BY <1>3, <1>4, <1>5, <2>2, <2>4
  <1>6. CASE l # qlev_count /\ Full
    <2>1. FirstConstraint(l) = {Reduce(Wanted(l), Falsified(l))}
      BY <1>6 DEF FirstConstraint, Falsified
    <2>2. ASSUME NEW e \in Valuations(AllVars)
          PROVE  Holds(Reduce(Wanted(l), Falsified(l)), e) <=> Loop!Lowered(l, e) \in G
      <3>1. /\ Consistent(Falsified(l)) /\ Loop!Lowered(l, e) \in Valuations(AllVars)
            /\ Moved(Loop!Lowered(l, e), e, Falsified(l), AllVars)
        BY FalsifiedRight
      <3>2. Moved(Loop!Lowered(l, e), e, Falsified(l), VarsOf(Wanted(l)))
        BY <1>4, <3>1 DEF Moved
      <3>3. Defined(e, Wanted(l))
        BY <1>4, Boolean DEF Defined
      <3>4. Holds(Reduce(Wanted(l), Falsified(l)), e) <=> Holds(Wanted(l), Loop!Lowered(l, e))
        BY <1>4, <3>1, <3>2, <3>3, ReduceRight
      <3> QED
        BY <1>1, <3>1, <3>4
    <2>3. Models(l, {}) = {e \in Valuations(AllVars) : Loop!Lowered(l, e) \in G}
      BY <1>4, <2>1, <2>2
    <2> QED
      BY <1>3, <1>6, <2>3
  <1>7. CASE l # qlev_count /\ ~ Full
    <2>1. CASE l = qlev_count - 1
      <3>1. FirstConstraint(l) = {Wanted(l)}
        BY <1>7, <2>1 DEF FirstConstraint
      <3>2. Models(l, {}) = G
        BY <1>1, <1>2, <1>4, <3>1
      <3> QED
        BY <1>3, <1>4, <1>7, <2>1, <3>2
    <2>2. CASE l # qlev_count - 1
      <3>1. FirstConstraint(l) = {}
        BY <1>7, <2>2 DEF FirstConstraint
      <3>2. Models(l, {}) = Valuations(AllVars)
        BY <1>4, <3>1
      <3>3. ~ (l >= qlev_count - 1)
        BY <1>4, <1>7, <2>2
      <3> QED
        BY <1>3, <1>7, <3>2, <3>3
    <2> QED
      BY <2>1, <2>2
  <1> QED
    BY <1>5, <1>6, <1>7

LEMMA LoopInit ==
  ASSUME IsNodeSet, Init
  PROVE  Loop!Init
  <1>1. lev = 0 /\ vals = {} /\ found = {} /\ status = "UNDEF"
    BY DEF Init
  <1>2. Matrix \in SUBSET Loop!Assign
    BY LoopWords DEF Matrix
  <1>3. Assignment(vals) = [v \in {} |-> FALSE] /\ {Assignment(s) : s \in found} = {}
    BY <1>1 DEF Assignment
  <1>4. [l \in Solvers |-> Models(l, {})] = [l \in Loop!Turn |-> Loop!FirstAbstraction(l, Matrix)]
    BY LoopFirst, LoopWords
  <1> QED
    BY <1>1, <1>2, <1>3, <1>4 DEF Loop!Init

(* Every step of the loop is one of Cegar or none, and together they keep  *)
(* both invariants.                                                        *)
LEMMA LoopStep ==
  ASSUME IsNodeSet, FirstMoverCounts, BookInv, Loop!IInv, [Next]_vars
  PROVE  [Loop!Next]_(Loop!vars)
  <1>1. CASE HasSolution
    BY <1>1, LoopMove DEF Loop!Next
  <1>2. CASE Conflict
    BY <1>2, LoopLearn DEF Loop!Next
  <1>3. CASE Decided
    BY <1>3, LoopLose DEF Loop!Next
  <1>4. CASE BlockSolution
    BY <1>4, LoopBlock DEF Loop!Next
  <1>5. CASE Return \/ Done \/ UNCHANGED vars
    <2>1. UNCHANGED <<output, lev, vals, constrs, found, status>>
      BY <1>5 DEF Return, Done, vars
    <2>2. /\ Matrix' = Matrix /\ [l \in Solvers |-> Models(l, {})]' = [l \in Solvers |-> Models(l, {})]
          /\ {Assignment(s) : s \in found}' = {Assignment(s) : s \in found}
          /\ Assignment(vals)' = Assignment(vals)
      BY <2>1 DEF Matrix, Models, Assignment
    <2> QED
      BY <2>1, <2>2 DEF Loop!vars
  <1> QED
    BY <1>1, <1>2, <1>3, <1>4, <1>5 DEF Next

LEMMA BothInit ==
  ASSUME IsNodeSet, FirstMoverCounts, Init
  PROVE  BookInv /\ Loop!IInv
  BY InitBook, LoopInit, LoopAssumptions, Loop!InitIInv

LEMMA BothStep ==
  ASSUME IsNodeSet, FirstMoverCounts, BookInv, Loop!IInv, [Next]_vars
  PROVE  BookInv' /\ Loop!IInv'
  <1>1. BookInv'
    BY StepBook
  <1>2. [Loop!Next]_(Loop!vars)
    BY LoopStep
  <1>3. Loop!IInv'
    BY <1>2, LoopAssumptions, Loop!StepIInv
  <1> QED
    BY <1>1, <1>3

LEMMA SameInit == Loop!Init <=> Abstract!Init
  BY DEF Loop!Init, Loop!Assign, Loop!Turn, Loop!FirstAbstraction, Loop!Lowered, Loop!Good, Loop!Player,
    Loop!Opponent, Abstract!Init, Abstract!Assign, Abstract!Turn, Abstract!FirstAbstraction,
    Abstract!Lowered, Abstract!Good, Abstract!Player, Abstract!Opponent

LEMMA SameNext == [Loop!Next]_(Loop!vars) <=> [Abstract!Next]_(Abstract!vars)
  <1>1. Loop!Move <=> Abstract!Move
    BY DEF Loop!Move, Loop!Agree, Loop!Below, Loop!Upto, Loop!Restrict,
      Abstract!Move, Abstract!Agree, Abstract!Below, Abstract!Upto, Abstract!Restrict
  <1>2. \A bt, R : Loop!Learn(bt, R) <=> Abstract!Learn(bt, R)
    BY DEF Loop!Learn, Loop!Stuck, Loop!Replies, Loop!Agree, Loop!Below, Loop!Upto, Loop!Restrict,
      Loop!Player, Loop!Opponent,
      Abstract!Learn, Abstract!Stuck, Abstract!Replies, Abstract!Agree, Abstract!Below, Abstract!Upto,
      Abstract!Restrict, Abstract!Player, Abstract!Opponent
  <1>3. Loop!Lose <=> Abstract!Lose
    BY DEF Loop!Lose, Loop!Replies, Loop!Below, Loop!Player, Loop!Opponent,
      Abstract!Lose, Abstract!Replies, Abstract!Below, Abstract!Player, Abstract!Opponent
  <1>4. Loop!Block <=> Abstract!Block
    BY DEF Loop!Block, Loop!Agree, Loop!Restrict, Abstract!Block, Abstract!Agree, Abstract!Restrict
  <1>5. Loop!Terminated <=> Abstract!Terminated
    BY DEF Loop!Terminated, Loop!Finished, Loop!vars, Abstract!Terminated, Abstract!Finished, Abstract!vars
  <1>6. Loop!Level = Abstract!Level /\ \A bt : Loop!Upto(bt) = Abstract!Upto(bt)
    BY DEF Loop!Level, Abstract!Level, Loop!Upto, Abstract!Upto
  <1>7. UNCHANGED Loop!vars <=> UNCHANGED Abstract!vars
    BY DEF Loop!vars, Abstract!vars
  <1> QED
    BY <1>1, <1>2, <1>3, <1>4, <1>5, <1>6, <1>7 DEF Loop!Next, Abstract!Next

(* The loop with its circuits, cuts, cores and trail implements the game   *)
(* Cegar plays with sets of assignments, for every formula, every choice   *)
(* of options and every answer of the SAT solver (zigzag.cpp:104-204,      *)
(* level_solver.cpp:59-154).                                               *)
THEOREM LoopImplementsCegar == IsNodeSet /\ FirstMoverCounts => (Spec => ImplementsCegar)
  <1> SUFFICES ASSUME IsNodeSet, FirstMoverCounts PROVE Spec => ImplementsCegar
    OBVIOUS
  <1>1. Init => BookInv /\ Loop!IInv
    BY BothInit
  <1>2. BookInv /\ Loop!IInv /\ [Next]_vars => BookInv' /\ Loop!IInv'
    BY BothStep
  <1>3. Init => Abstract!Init
    BY LoopInit, SameInit
  <1>4. BookInv /\ Loop!IInv /\ [Next]_vars => [Abstract!Next]_(Abstract!vars)
    BY LoopStep, SameNext
  <1> QED
    BY <1>1, <1>2, <1>3, <1>4, PTL DEF Spec, ImplementsCegar, Abstract!Spec

-----------------------------------------------------------------------------
(* The positions won before level l, given those won after it.             *)
WonBefore(l, next) ==
    {e \in Valuations(AllVars) :
        IF level_type(l) = "EXISTENTIAL" THEN MovesFrom(l, e) \cap next # {}
                                         ELSE MovesFrom(l, e) \subseteq next}

(* What is won is well defined. *)
LEMMA WonEqs ==
  /\ Won[qlev_count] = Matrix
  /\ \A l \in Levels : Won[l] = WonBefore(l, Won[l + 1])
  /\ \A l \in Solvers : Won[l] \subseteq Valuations(AllVars)
  <1> DEFINE V == SUBSET Valuations(AllVars)
             step(h) == [l \in Solvers |->
                            IF l = qlev_count THEN Matrix ELSE WonBefore(l, h[l + 1])]
             F == [h \in [Solvers -> V] |-> step(h)]
             rank == [l \in Solvers |-> qlev_count - l]
             val == CHOOSE h : h = step(h)
  <1>1. \A l \in Solvers : /\ l \in Int /\ 0 <= l /\ l <= qlev_count /\ qlev_count \in Int
                           /\ l # qlev_count => l + 1 \in Solvers
    BY Scopes, LevelOf DEF Solvers
  <1>2. Matrix \in V /\ \A l, next : WonBefore(l, next) \in V
    BY DEF Matrix, WonBefore
  <1> HIDE DEF V
  <1>3. rank \in [Solvers -> Nat]
    BY <1>1
  <1>4. \A h : step(h) \in [Solvers -> V]
    BY <1>2
  <1>5. ASSUME NEW f \in [Solvers -> V], NEW g \in [Solvers -> V], NEW l \in Solvers,
               \A k \in Solvers : rank[k] < rank[l] => f[k] = g[k]
        PROVE  step(f)[l] = step(g)[l]
    <2>1. CASE l = qlev_count
      BY <2>1
    <2>2. CASE l # qlev_count
      <3>1. l + 1 \in Solvers /\ rank[l + 1] < rank[l]
        BY <1>1, <2>2
      <3>2. f[l + 1] = g[l + 1]
        BY <1>5, <3>1
      <3> QED
        BY <2>2, <3>2
    <2> QED
      BY <2>1, <2>2
  <1>6. F \in [[Solvers -> V] -> [Solvers -> V]]
    BY <1>4
  <1>7. Recursion(Solvers, V, rank, F)
    <2>1. \A f \in [Solvers -> V] : F[f] = step(f)
      OBVIOUS
    <2>2. V # {}
      BY <1>2
    <2> HIDE DEF F, step
    <2>3. \A f, g \in [Solvers -> V], l \in Solvers :
            (\A k \in Solvers : rank[k] < rank[l] => f[k] = g[k]) => F[f][l] = F[g][l]
      BY <1>5, <2>1
    <2> HIDE DEF rank
    <2> QED
      BY <1>3, <1>6, <2>2, <2>3 DEF Recursion
  <1>8. \E h : h = step(h)
    <2>1. \E h \in [Solvers -> V] : h = F[h]
      <3> HIDE DEF F, rank, step
      <3> QED
        BY <1>7, Fixpoint
    <2>2. \A h \in [Solvers -> V] : F[h] = step(h)
      OBVIOUS
    <2> HIDE DEF F, step
    <2> QED
      BY <2>1, <2>2
  <1>9. val = step(val)
    <2> HIDE DEF step
    <2> QED
      BY <1>8
  <1>10. Won = val
    BY DEF Won, WonBefore
  <1> HIDE DEF val
  <1>11. \A l \in Solvers : Won[l] = IF l = qlev_count THEN Matrix ELSE WonBefore(l, Won[l + 1])
    <2>1. Won = step(Won)
      BY <1>9, <1>10
    <2> HIDE DEF Won
    <2> QED
      BY <2>1
  <1>12. qlev_count \in Solvers /\ \A l \in Levels : l \in Solvers /\ l # qlev_count
    BY Scopes, LevelOf
  <1> HIDE DEF step
  <1>13. \A l \in Solvers : Won[l] \in V
    BY <1>2, <1>11
  <1> QED
    BY <1>11, <1>12, <1>13 DEF V

(* What each player wins before level l. *)
WonBy(q, l) == IF q = "EXISTENTIAL" THEN Won[l] ELSE Valuations(AllVars) \ Won[l]

(* The player of a level wins with one of its moves, the other one with    *)
(* all of them.                                                            *)
LEMMA WonByMoves ==
  ASSUME NEW q \in {"EXISTENTIAL", "UNIVERSAL"}, NEW l \in Levels, NEW e \in WonBy(q, l)
  PROVE  /\ e \in Valuations(AllVars)
         /\ level_type(l) = q => \E f \in MovesFrom(l, e) : f \in WonBy(q, l + 1)
         /\ level_type(l) # q => \A f \in MovesFrom(l, e) : f \in WonBy(q, l + 1)
  <1>1. l \in Solvers /\ level_type(l) \in {"EXISTENTIAL", "UNIVERSAL"}
    BY LevelOf, PrefShape
  <1>2. e \in Valuations(AllVars)
    BY <1>1, WonEqs DEF WonBy
  <1>3. e \in Won[l] <=> IF level_type(l) = "EXISTENTIAL" THEN MovesFrom(l, e) \cap Won[l + 1] # {}
                                                         ELSE MovesFrom(l, e) \subseteq Won[l + 1]
    BY <1>2, WonEqs DEF WonBefore
  <1>4. MovesFrom(l, e) \subseteq Valuations(AllVars)
    BY DEF MovesFrom
  <1>5. CASE q = "EXISTENTIAL"
    <2>1. e \in Won[l] /\ WonBy(q, l + 1) = Won[l + 1]
      BY <1>5 DEF WonBy
    <2> QED
      BY <1>1, <1>2, <1>3, <1>5, <2>1
  <1>6. CASE q = "UNIVERSAL"
    <2>1. e \notin Won[l] /\ WonBy(q, l + 1) = Valuations(AllVars) \ Won[l + 1]
      BY <1>6 DEF WonBy
    <2>2. level_type(l) = q => ~ (MovesFrom(l, e) \subseteq Won[l + 1])
      BY <1>3, <1>6, <2>1
    <2>3. level_type(l) # q => MovesFrom(l, e) \cap Won[l + 1] = {}
      BY <1>1, <1>3, <1>6, <2>1
    <2> QED
      BY <1>2, <1>4, <2>1, <2>2, <2>3
  <1> QED
    BY <1>5, <1>6

(* The move of level l, in the words of Cegar. *)
LEMMA MovesFromWords ==
  ASSUME NEW l \in Levels, NEW e, NEW f
  PROVE  f \in MovesFrom(l, e) <=> f \in Valuations(AllVars) /\ Loop!SameBut(l, e, f)
  <1>1. level_vars(l) = {v \in AllVars : qlev[v] = l}
    BY LevelOf
  <1> QED
    BY <1>1 DEF MovesFrom, Loop!SameBut

(* Whoever wins by the rules of Won has a winning strategy.                *)
LEMMA Determined ==
  ASSUME FirstMoverCounts, NEW l \in Solvers, NEW q \in {"EXISTENTIAL", "UNIVERSAL"},
         NEW e \in WonBy(q, l)
  PROVE  Loop!Winning(q, l - 1, e, Matrix)
  <1> DEFINE D(k) == \A r \in {"EXISTENTIAL", "UNIVERSAL"} : \A p \in WonBy(r, k) :
                        Loop!Winning(r, k - 1, p, Matrix)
             bad == {i \in Nat : qlev_count - i \in Solvers /\ ~ D(qlev_count - i)}
  <1>0. Matrix \in SUBSET Loop!Assign /\ qlev_count \in Nat
    BY LoopWords, PrefShape DEF Matrix
  <1>1. D(qlev_count)
    <2> SUFFICES ASSUME NEW r \in {"EXISTENTIAL", "UNIVERSAL"}, NEW p \in WonBy(r, qlev_count)
                 PROVE  Loop!Winning(r, qlev_count - 1, p, Matrix)
      OBVIOUS
    <2>1. p \in Loop!Good(r, Matrix)
      BY WonEqs, LoopWords DEF WonBy
    <2> QED
      BY <1>0, <2>1, LoopAssumptions, Loop!GameOver
  <1>2. ASSUME NEW k \in Levels, D(k + 1) PROVE D(k)
    <2> SUFFICES ASSUME NEW r \in {"EXISTENTIAL", "UNIVERSAL"}, NEW p \in WonBy(r, k)
                 PROVE  Loop!Winning(r, k - 1, p, Matrix)
      OBVIOUS
    <2>1. \A f \in WonBy(r, k + 1) : Loop!Winning(r, k, f, Matrix)
      <3>1. (k + 1) - 1 = k
        BY LevelOf
      <3> QED
        BY <1>2, <3>1
    <2>2. p \in Loop!Assign /\ k \in Loop!Level
      BY WonByMoves, LoopWords
    <2>3. [j \in Levels |-> level_type(j)][k] = level_type(k)
      OBVIOUS
    <2>4. CASE level_type(k) = r
      <3>1. PICK f \in MovesFrom(k, p) : f \in WonBy(r, k + 1)
        BY <2>4, WonByMoves
      <3>2. f \in Loop!Assign /\ Loop!SameBut(k, p, f)
        BY <3>1, MovesFromWords, LoopWords
      <3>3. Loop!Winning([j \in Levels |-> level_type(j)][k], k, f, Matrix)
        BY <2>1, <2>3, <2>4, <3>1
      <3>4. Loop!Winning([j \in Levels |-> level_type(j)][k], k - 1, p, Matrix)
        BY <1>0, <2>2, <3>2, <3>3, LoopAssumptions, Loop!WinningMove
      <3> QED
        BY <2>3, <2>4, <3>4
    <2>5. CASE level_type(k) # r
      <3>1. \A f \in MovesFrom(k, p) : f \in WonBy(r, k + 1)
        BY <2>5, WonByMoves
      <3>2. \A f \in Loop!Assign : Loop!SameBut(k, p, f) => Loop!Winning(r, k, f, Matrix)
        BY <2>1, <3>1, MovesFromWords, LoopWords
      <3>3. r # [j \in Levels |-> level_type(j)][k]
        BY <2>3, <2>5
      <3> QED
        BY <1>0, <2>2, <3>2, <3>3, LoopAssumptions, Loop!WinningReplies
    <2> QED
      BY <2>4, <2>5
  <1> HIDE DEF D
  <1>3. bad = {}
    <2> SUFFICES ASSUME bad # {} PROVE FALSE
      OBVIOUS
    <2>1. bad \in SUBSET Nat
      OBVIOUS
    <2>2. PICK i \in bad : \A j \in bad : i <= j
      BY <2>1, NatMin
    <2>3. i \in Nat /\ qlev_count - i \in Solvers /\ ~ D(qlev_count - i)
      BY <2>2
    <2>4. i # 0
      <3>1. i = 0 => qlev_count - i = qlev_count
        BY <1>0
      <3> QED
        BY <1>1, <2>3, <3>1
    <2>5. i - 1 \in Nat /\ ~ (i <= i - 1) /\ qlev_count - (i - 1) = (qlev_count - i) + 1
      BY <1>0, <2>3, <2>4
    <2>6. qlev_count - i \in Levels /\ (qlev_count - i) + 1 \in Solvers
      BY <1>0, <2>3, <2>4, LevelOf DEF Levels, Solvers
    <2>7. i - 1 \notin bad
      BY <2>2, <2>5
    <2>8. D((qlev_count - i) + 1)
      BY <2>5, <2>6, <2>7
    <2> QED
      BY <1>2, <2>3, <2>6, <2>8
  <1>4. D(l)
    <2>1. l \in Int /\ l <= qlev_count
      BY Scopes
    <2>2. qlev_count - l \in Nat /\ qlev_count - (qlev_count - l) = l
      BY <1>0, <2>1
    <2>3. qlev_count - l \notin bad
      BY <1>3
    <2> QED
      BY <2>2, <2>3
  <1> QED
    BY <1>4 DEF D

(* The answer of the program is the truth value of the formula, whatever   *)
(* the SAT solver answers on the way and whatever the options.             *)
LEMMA AnswerRight ==
  ASSUME IsNodeSet, FirstMoverCounts, BookInv, Loop!IInv
  PROVE  AnswerCorrect
  <1> SUFFICES ASSUME pc = "done", ~ Enumerate PROVE (status = "TRUE") = Value(0, {})
    BY DEF AnswerCorrect
  <1>1. status \in {"TRUE", "FALSE"}
    BY DEF BookInv
  <1>2. Loop!VerdictSound
    BY DEF Loop!IInv
  <1>3. ASSUME NEW q \in {"EXISTENTIAL", "UNIVERSAL"}, NEW e \in WonBy(q, 0) PROVE Loop!Wins(q, Matrix)
    <2>1. 0 \in Solvers /\ 0 - 1 = -1
      BY Scopes
    <2>2. Loop!Winning(q, -1, e, Matrix)
      BY <1>3, <2>1, Determined
    <2>3. \A p : Loop!Agree(e, p, Loop!Upto(-1))
      <3>1. dom_vars(-1) = {}
        BY LevelOf DEF dom_vars
      <3> QED
        BY <3>1, LoopWords
    <2>4. \A p : Loop!Winning(q, -1, p, Matrix)
      BY <2>2, <2>3, LoopAssumptions, Loop!SamePosition
    <2> QED
      BY <2>4 DEF Loop!Wins
  <1>4. Value(0, {}) <=> \A e \in Valuations(AllVars) : e \in Won[0]
    BY DEF Value
  <1>5. CASE status = "TRUE"
    <2>1. ~ Loop!Wins("UNIVERSAL", Matrix)
      BY <1>2, <1>5 DEF Loop!VerdictSound
    <2>2. \A e : e \notin WonBy("UNIVERSAL", 0)
      BY <1>3, <2>1
    <2>3. Value(0, {})
      BY <1>4, <2>2 DEF WonBy
    <2>4. Value(0, {}) \in BOOLEAN
      BY DEF Value
    <2> QED
      BY <1>5, <2>3, <2>4
  <1>6. CASE status = "FALSE"
    <2>1. ~ Loop!Wins("EXISTENTIAL", Matrix)
      BY <1>2, <1>6 DEF Loop!VerdictSound
    <2>2. \A e : e \notin WonBy("EXISTENTIAL", 0)
      BY <1>3, <2>1
    <2>3. [v \in AllVars |-> FALSE] \in Valuations(AllVars)
      BY DEF Valuations
    <2>4. ~ Value(0, {})
      BY <1>4, <2>2, <2>3 DEF WonBy
    <2>5. Value(0, {}) \in BOOLEAN
      BY DEF Value
    <2> QED
      BY <1>6, <2>4, <2>5
  <1> QED
    BY <1>1, <1>5, <1>6

(* Without enumeration the program ends with the truth value of the        *)
(* formula (zigzag.cpp:98-139, main.cpp:124-131).                          *)
THEOREM AnswersRight == IsNodeSet => (Spec => []AnswerCorrect)
  <1> SUFFICES ASSUME IsNodeSet PROVE Spec => []AnswerCorrect
    OBVIOUS
  <1>1. CASE Enumerate
    <2>1. AnswerCorrect
      BY <1>1 DEF AnswerCorrect
    <2> QED
      BY <2>1, PTL
  <1>2. CASE ~ Enumerate
    <2>1. FirstMoverCounts
      BY <1>2 DEF FirstMoverCounts
    <2>2. Init => BookInv /\ Loop!IInv
      BY <2>1, BothInit
    <2>3. BookInv /\ Loop!IInv /\ [Next]_vars => BookInv' /\ Loop!IInv'
      BY <2>1, BothStep
    <2>4. BookInv /\ Loop!IInv => AnswerCorrect
      BY <2>1, AnswerRight
    <2> QED
      BY <2>2, <2>3, <2>4, PTL DEF Spec
  <1> QED
    BY <1>1, <1>2

-----------------------------------------------------------------------------
(* The model of the first level is its move. *)
LEMMA ModelMeans ==
  ASSUME IsNodeSet, BookInv, lev > 0, NEW e \in Valuations(AllVars)
  PROVE  (\A n \in model : Holds(n, e)) <=> \A v \in dom_vars(0) : e[v] = Assignment(vals)[v]
  <1>1. /\ TrailOf(trail, vals, lev) /\ lev \in Int
        /\ model = {n \in vals : qlev[LitVar(n)] = 0}
    BY Scopes DEF BookInv
  <1>2. \A v, b : Literal(v, b) \in vals <=> v \in Earlier(lev) /\ Assignment(vals)[v] = b
    BY <1>1, DecidedLits
  <1>3. /\ vals \in SUBSET Node
        /\ \A n \in vals : Type(n) = "LITERAL" /\ LitVar(n) \in Earlier(lev)
    BY <1>1, ValsShape
  <1>4. ASSUME NEW n \in vals PROVE Holds(n, e) <=> e[LitVar(n)] = Assignment(vals)[LitVar(n)]
    <2>1. n = Literal(LitVar(n), Positive(n))
      BY <1>3, Shape
    <2>2. Assignment(vals)[LitVar(n)] = Positive(n)
      BY <1>2, <2>1
    <2> QED
      BY <1>3, <2>2, HoldsEqs
  <1>5. \A v \in dom_vars(0) : v \in Earlier(lev) /\ qlev[v] = 0
    <2>1. \A v \in dom_vars(0) : v \in AllVars /\ qlev[v] \in Int /\ 0 <= qlev[v] /\ qlev[v] <= 0
      BY LevelOf DEF dom_vars
    <2> QED
      BY <1>1, <2>1 DEF Earlier
  <1>6. \A n \in model : n \in vals /\ LitVar(n) \in dom_vars(0)
    <2>1. \A v \in Earlier(lev) : v \in AllVars
      BY DEF Earlier
    <2> QED
      BY <1>1, <1>3, <2>1 DEF dom_vars
  <1>7. ASSUME NEW v \in dom_vars(0) PROVE \E n \in model : LitVar(n) = v
    <2> DEFINE n == Literal(v, Assignment(vals)[v])
    <2>1. n \in vals
      BY <1>2, <1>5
    <2>2. LitVar(n) = v
      BY LiteralParts
    <2> HIDE DEF n
    <2> QED
      BY <1>1, <1>5, <2>1, <2>2
  <1> QED
    BY <1>4, <1>6, <1>7

(* After the first move the loser has no winning strategy: whoever wins    *)
(* before level 1 is the other one.                                        *)
LEMMA FirstMoveRight ==
  ASSUME IsNodeSet, FirstMoverCounts, NEW q \in {"EXISTENTIAL", "UNIVERSAL"}, NEW e,
         ~ Loop!Winning(q, 0, e, Matrix)
  PROVE  e \notin WonBy(q, 1)
  <1>1. 1 \in Solvers /\ 1 - 1 = 0
    BY PrefShape DEF Solvers
  <1> QED
    BY <1>1, Determined

LEMMA PrintedMoveRight ==
  ASSUME IsNodeSet, FirstMoverCounts, BookInv, Loop!IInv
  PROVE  PrintedMoveWins
  <1> SUFFICES ASSUME PrintsMove PROVE Value(1, model) = (status = "TRUE")
    BY DEF PrintedMoveWins
  <1>1. pc = "solve" /\ last_solve /\ status \in {"TRUE", "FALSE"} /\ lev \in Int /\ 0 <= lev
    BY Scopes DEF BookInv, PrintsMove
  <1>2. lev > 0
    BY <1>1 DEF BookInv
  <1> DEFINE A == Assignment(vals)
             Keeps(e) == \A v \in dom_vars(0) : e[v] = A[v]
  <1>3. \A e \in Valuations(AllVars) : (\A n \in model : Holds(n, e)) <=> Keeps(e)
    BY <1>2, ModelMeans
  <1>4. Value(1, model) <=> \A e \in Valuations(AllVars) : Keeps(e) => e \in Won[1]
    <2> HIDE DEF Keeps
    <2> QED
      BY <1>3 DEF Value
  <1>5. \E e \in Valuations(AllVars) : Keeps(e)
    <2> DEFINE e == [v \in AllVars |-> IF v \in Earlier(lev) THEN A[v] ELSE FALSE]
    <2>1. \A v \in Earlier(lev) : A[v] \in BOOLEAN
      BY ValsShape DEF BookInv
    <2>2. e \in Valuations(AllVars)
      <3> HIDE DEF A
      <3> QED
        BY <2>1 DEF Valuations
    <2>3. \A v \in dom_vars(0) : v \in AllVars /\ v \in Earlier(lev)
      BY <1>2, FirstMoves, Scopes
    <2>4. Keeps(e)
      BY <2>3
    <2> QED
      BY <2>2, <2>4
  <1>6. \A e \in Valuations(AllVars) :
            Keeps(e) => ~ Loop!Winning(IF status = "TRUE" THEN "UNIVERSAL" ELSE "EXISTENTIAL", 0, e, Matrix)
    <2>1. Loop!FirstMoveDecides
      BY DEF Loop!IInv
    <2> QED
      BY <1>1, <1>2, <2>1, LoopWords DEF Loop!FirstMoveDecides, Loop!Loser
  <1>7. Value(1, model) \in BOOLEAN
    BY DEF Value
  <1> HIDE DEF Keeps
  <1>8. CASE status = "TRUE"
    <2>1. \A e \in Valuations(AllVars) : Keeps(e) => e \notin WonBy("UNIVERSAL", 1)
      BY <1>6, <1>8, FirstMoveRight
    <2>2. Value(1, model)
      BY <1>4, <2>1 DEF WonBy
    <2> QED
      BY <1>7, <1>8, <2>2
  <1>9. CASE status = "FALSE"
    <2>1. \A e \in Valuations(AllVars) : Keeps(e) => e \notin WonBy("EXISTENTIAL", 1)
      BY <1>6, <1>9, FirstMoveRight
    <2>2. ~ Value(1, model)
      BY <1>4, <1>5, <2>1 DEF WonBy
    <2> QED
      BY <1>7, <1>9, <2>2
  <1> QED
    BY <1>1, <1>8, <1>9

(* The "v" line of a formula the first player wins is a winning move       *)
(* (main.cpp:82-88).                                                       *)
THEOREM PrintedMovesRight == IsNodeSet /\ FirstMoverCounts => (Spec => []PrintedMoveWins)
  <1> SUFFICES ASSUME IsNodeSet, FirstMoverCounts PROVE Spec => []PrintedMoveWins
    OBVIOUS
  <1>1. Init => BookInv /\ Loop!IInv
    BY BothInit
  <1>2. BookInv /\ Loop!IInv /\ [Next]_vars => BookInv' /\ Loop!IInv'
    BY BothStep
  <1>3. BookInv /\ Loop!IInv => PrintedMoveWins
    BY PrintedMoveRight
  <1> QED
    BY <1>1, <1>2, <1>3, PTL DEF Spec

-----------------------------------------------------------------------------
(* The books of solve_all: a solution is counted before it is blocked, and *)
(* what is blocked are moves of the variables that count.                  *)
CountInv ==
    /\ count \in Nat /\ IsFiniteSet(found)
    /\ count = Cardinality(found) + (IF pc = "solve_all" THEN 1 ELSE 0)
    /\ \A s \in found : s = TrueLits(Project, Assignment(s)) /\ Assignment(s) \in [Project -> BOOLEAN]

(* The solution that is blocked is the first move. *)
LEMMA SolutionMove ==
  ASSUME IsNodeSet, BookInv, lev > 0
  PROVE  /\ Assignment(Solution) = [v \in Project |-> Assignment(vals)[v]]
         /\ Solution = TrueLits(Project, Assignment(Solution))
         /\ Assignment(Solution) \in [Project -> BOOLEAN]
  <1>1. \A v \in Project : v \in dom_vars(0)
    BY Scopes
  <1>2. \A v \in Project : Assignment(vals)[v] = (Literal(v, TRUE) \in model)
    BY <1>1, FirstMoves
  <1>3. /\ Assignment(Solution) = [v \in Project |-> Literal(v, TRUE) \in model]
        /\ Solution = TrueLits(Project, Assignment(Solution))
    BY SolutionRight
  <1>4. [v \in Project |-> Literal(v, TRUE) \in model] \in [Project -> BOOLEAN]
    OBVIOUS
  <1> QED
    BY <1>2, <1>3, <1>4

(* It was not blocked before. *)
LEMMA SolutionNew ==
  ASSUME IsNodeSet, FirstMoverCounts, BookInv, Loop!IInv, lev > 0
  PROVE  Solution \notin found
  <1> SUFFICES ASSUME Solution \in found PROVE FALSE
    OBVIOUS
  <1>1. 0 \in 0 .. lev - 1 /\ 0 \in Solvers
    BY Scopes DEF BookInv
  <1>2. Loop!MovesAllowed /\ Loop!ReportedOnce
    BY DEF Loop!IInv
  <1>3. PICK f \in Models(0, {}) : \A v \in dom_vars(0) : f[v] = Assignment(vals)[v]
    <2>1. PICK f \in [l \in Solvers |-> Models(l, {})][0] : Loop!Agree(f, Assignment(vals), Loop!Upto(0))
      BY <1>1, <1>2 DEF Loop!MovesAllowed
    <2>2. f \in Models(0, {})
      BY <1>1, <2>1
    <2>3. \A v \in dom_vars(0) : f[v] = Assignment(vals)[v]
      BY <2>1, LoopWords
    <2> QED
      BY <2>2, <2>3
  <1>4. [v \in Project |-> f[v]] \notin {Assignment(s) : s \in found}
    BY <1>1, <1>2, LoopWords DEF Loop!ReportedOnce
  <1>5. [v \in Project |-> f[v]] = Assignment(Solution)
    <2>1. \A v \in Project : f[v] = Assignment(vals)[v]
      BY <1>3, Scopes
    <2> QED
      BY <2>1, SolutionMove
  <1> QED
    BY <1>4, <1>5

LEMMA CountInit == ASSUME Init PROVE CountInv
  BY FS_EmptySet DEF Init, CountInv

LEMMA CountStep ==
  ASSUME IsNodeSet, FirstMoverCounts, BookInv, Loop!IInv, CountInv, [Next]_vars
  PROVE  CountInv'
  <1>0. Cardinality(found) \in Nat
    BY FS_CardinalityType DEF CountInv
  <1>1. CASE HasSolution \/ Conflict \/ Decided
    <2>1. UNCHANGED <<count, found>> /\ pc # "solve_all" /\ pc' # "solve_all"
      BY <1>1 DEF HasSolution, Conflict, Decided
    <2> QED
      BY <2>1 DEF CountInv, TrueLits, Assignment
  <1>2. CASE Return
    <2>1. found' = found /\ pc = "solve"
      BY <1>2 DEF Return
    <2>2. \/ pc' = "solve_all" /\ count' = count + 1
          \/ pc' = "done" /\ count' = count
      BY <1>2 DEF Return
    <2>3. (count \in Nat /\ IsFiniteSet(found))'
      BY <2>1, <2>2 DEF CountInv
    <2>4. (count = Cardinality(found) + (IF pc = "solve_all" THEN 1 ELSE 0))'
      BY <1>0, <2>1, <2>2 DEF CountInv
    <2>5. (\A s \in found : s = TrueLits(Project, Assignment(s)) /\ Assignment(s) \in [Project -> BOOLEAN])'
      BY <2>1 DEF CountInv, TrueLits, Assignment
    <2> QED
      BY <2>3, <2>4, <2>5 DEF CountInv
  <1>3. CASE BlockSolution
    <2>1. pc = "solve_all" /\ pc' = "solve_" /\ found' = found \cup {Solution} /\ count' = count
      BY <1>3 DEF BlockSolution
    <2>2. lev > 0
      <3>1. Enumerate /\ status = "TRUE"
        BY <2>1 DEF BookInv
      <3> QED
        BY <3>1 DEF Loop!IInv, Loop!SolutionFound
    <2>3. IsFiniteSet(found') /\ Cardinality(found') = Cardinality(found) + 1
      <3>1. Solution \notin found
        BY <2>2, SolutionNew
      <3> QED
        BY <2>1, <3>1, FS_AddElement DEF CountInv
    <2>4. \A s \in found' : s = TrueLits(Project, Assignment(s)) /\ Assignment(s) \in [Project -> BOOLEAN]
      BY <2>1, <2>2, SolutionMove DEF CountInv
    <2>5. (count \in Nat /\ IsFiniteSet(found))'
      BY <2>1, <2>3 DEF CountInv
    <2>6. (count = Cardinality(found) + (IF pc = "solve_all" THEN 1 ELSE 0))'
      BY <1>0, <2>1, <2>3 DEF CountInv
    <2>7. (\A s \in found : s = TrueLits(Project, Assignment(s)) /\ Assignment(s) \in [Project -> BOOLEAN])'
      BY <2>4 DEF TrueLits, Assignment
    <2> QED
      BY <2>5, <2>6, <2>7 DEF CountInv
  <1>4. CASE Done \/ UNCHANGED vars
    <2>1. UNCHANGED <<count, found, pc>>
      BY <1>4 DEF Done, vars
    <2> QED
      BY <2>1 DEF CountInv, TrueLits, Assignment
  <1> QED
    BY <1>1, <1>2, <1>3, <1>4 DEF Next

(* Projecting a first move. *)
LEMMA ProjectMove ==
  ASSUME NEW e, NEW P, NEW S, P \subseteq S
  PROVE  {n \in TrueLits(S, e) : LitVar(n) \in P} = TrueLits(P, e)
  BY LiteralParts DEF TrueLits

(* A first move wins if every assignment that keeps it does.               *)
LEMMA MoveValue ==
  ASSUME IsNodeSet, NEW e \in Valuations(AllVars)
  PROVE  Value(1, TrueLits(level_vars(0), e)) <=>
            \A f \in Valuations(AllVars) : (\A v \in level_vars(0) : f[v] = e[v]) => f \in Won[1]
  <1>1. ASSUME NEW f
        PROVE  (\A n \in TrueLits(level_vars(0), e) : Holds(n, f)) <=> \A v \in level_vars(0) : f[v] = e[v]
    <2>1. ASSUME NEW v \in level_vars(0) PROVE Holds(Literal(v, e[v]), f) <=> f[v] = e[v]
      <3>1. v \in AllVars /\ v \in Nat
        BY LevelOf, Scopes
      <3>2. e[v] \in BOOLEAN
        BY <3>1, Boolean
      <3>3. Literal(v, e[v]) \in Node
        BY <3>1, <3>2 DEF IsNodeSet, NodeSet
      <3> QED
        BY <3>3, LiteralParts, HoldsEqs
    <2> QED
      BY <2>1 DEF TrueLits
  <1> QED
    BY <1>1 DEF Value

LEMMA EnumerationRight ==
  ASSUME IsNodeSet, FirstMoverCounts, BookInv, Loop!IInv, CountInv
  PROVE  EnumerationExact
  <1> SUFFICES ASSUME pc = "done", Enumerate, level_type(0) = "EXISTENTIAL"
               PROVE  /\ count = Cardinality(found)
                      /\ found = {{n \in move : LitVar(n) \in Project} :
                                    move \in {m \in AllMoves(0) : Value(1, m)}}
    BY DEF EnumerationExact
  <1>1. count = Cardinality(found)
    <2>1. Cardinality(found) \in Nat
      BY FS_CardinalityType DEF CountInv
    <2> QED
      BY <2>1 DEF CountInv
  <1>2. status = "FALSE" /\ Project \subseteq level_vars(0) /\ level_vars(0) = dom_vars(0)
    BY Scopes DEF BookInv
  <1>3. ASSUME NEW s \in found
        PROVE  \E m \in AllMoves(0) : Value(1, m) /\ s = {n \in m : LitVar(n) \in Project}
    <2>1. PICK p \in Valuations(AllVars) :
            [v \in Project |-> p[v]] = Assignment(s) /\ ~ Loop!Winning("UNIVERSAL", 0, p, Matrix)
      <3>1. Loop!ReportedMovesWin
        BY DEF Loop!IInv
      <3> QED
        BY <3>1, LoopWords DEF Loop!ReportedMovesWin
    <2> DEFINE m == TrueLits(level_vars(0), p)
    <2>2. ASSUME NEW f \in Valuations(AllVars), \A v \in level_vars(0) : f[v] = p[v]
          PROVE  f \in Won[1]
      <3>1. ~ Loop!Winning("UNIVERSAL", 0, f, Matrix)
        <4>1. Loop!Agree(f, p, Loop!Upto(0))
          BY <1>2, <2>2, LoopWords
        <4> QED
          BY <2>1, <4>1, LoopAssumptions, Loop!SamePosition
      <3>2. f \notin WonBy("UNIVERSAL", 1)
        BY <3>1, FirstMoveRight
      <3> QED
        BY <3>2 DEF WonBy
    <2>3. Value(1, m)
      BY <2>2, MoveValue
    <2>4. {n \in m : LitVar(n) \in Project} = TrueLits(Project, p)
      BY <1>2, ProjectMove
    <2>5. TrueLits(Project, p) = s
      <3>1. s = TrueLits(Project, Assignment(s))
        BY DEF CountInv
      <3>2. \A v \in Project : Assignment(s)[v] = p[v]
        BY <2>1
      <3> QED
        BY <3>1, <3>2 DEF TrueLits
    <2>6. m \in AllMoves(0)
      BY DEF AllMoves
    <2> HIDE DEF m
    <2> QED
      BY <2>3, <2>4, <2>5, <2>6
  <1>4. ASSUME NEW m \in AllMoves(0), Value(1, m)
        PROVE  {n \in m : LitVar(n) \in Project} \in found
    <2>1. PICK e \in Valuations(AllVars) : m = TrueLits(level_vars(0), e)
      BY DEF AllMoves
    <2>2. e \in WonBy("EXISTENTIAL", 1)
      BY <1>4, <2>1, MoveValue DEF WonBy
    <2>3. Loop!Winning("EXISTENTIAL", 0, e, Matrix)
      BY <2>2, FirstMoveRight
    <2>4. [v \in Project |-> e[v]] \in {Assignment(s) : s \in found}
      <3>1. [l \in Levels |-> level_type(l)][0] = "EXISTENTIAL"
        BY Scopes
      <3>2. Loop!VerdictSound
        BY DEF Loop!IInv
      <3> QED
        BY <1>2, <2>3, <3>1, <3>2, LoopWords DEF Loop!VerdictSound
    <2>5. PICK s \in found : Assignment(s) = [v \in Project |-> e[v]]
      BY <2>4
    <2>6. s = TrueLits(Project, e)
      <3>1. s = TrueLits(Project, Assignment(s))
        BY DEF CountInv
      <3>2. \A v \in Project : Assignment(s)[v] = e[v]
        BY <2>5
      <3> QED
        BY <3>1, <3>2 DEF TrueLits
    <2> QED
      BY <1>2, <2>1, <2>6, ProjectMove
  <1>5. found = {{n \in move : LitVar(n) \in Project} : move \in {m \in AllMoves(0) : Value(1, m)}}
    <2> DEFINE S == {{n \in move : LitVar(n) \in Project} : move \in {m \in AllMoves(0) : Value(1, m)}}
    <2>1. ASSUME NEW s \in found PROVE s \in S
      BY <1>3
    <2>2. ASSUME NEW s \in S PROVE s \in found
      BY <1>4
    <2> HIDE DEF S
    <2>3. found = S
      BY <2>1, <2>2
    <2> QED
      BY <2>3 DEF S
  <1> QED
    BY <1>1, <1>5

(* Enumeration reports every winning first move exactly once, projected,   *)
(* and no other (zigzag.cpp:44-102).                                       *)
THEOREM EnumerationsRight == IsNodeSet => (Spec => []EnumerationExact)
  <1> SUFFICES ASSUME IsNodeSet PROVE Spec => []EnumerationExact
    OBVIOUS
  <1>1. CASE ~ FirstMoverCounts
    <2>1. EnumerationExact
      BY <1>1 DEF EnumerationExact, FirstMoverCounts
    <2> QED
      BY <2>1, PTL
  <1>2. CASE FirstMoverCounts
    <2>1. Init => BookInv /\ Loop!IInv /\ CountInv
      BY <1>2, BothInit, CountInit
    <2>2. BookInv /\ Loop!IInv /\ CountInv /\ [Next]_vars => BookInv' /\ Loop!IInv' /\ CountInv'
      BY <1>2, BothStep, CountStep
    <2>3. BookInv /\ Loop!IInv /\ CountInv => EnumerationExact
      BY <1>2, EnumerationRight
    <2> QED
      BY <2>1, <2>2, <2>3, PTL DEF Spec
  <1> QED
    BY <1>1, <1>2
=============================================================================
