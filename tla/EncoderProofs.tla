---------------------------- MODULE EncoderProofs ----------------------------
(***************************************************************************)
(* A level solver's clauses say what its constraints say and its answers   *)
(* mean what the solving loop takes them for, for any constraints, any     *)
(* numbers of variables and any way the SAT solver decides.                *)
(***************************************************************************)
EXTENDS Encoder, CircuitProofs

-----------------------------------------------------------------------------
(* The states of a SAT solver with its encoder: Sats is the set of them.   *)
(* As with IsNodeSet it is a hypothesis that TLC could not evaluate.       *)
Memos == UNION {[S -> Int] : S \in SUBSET Node}
SatStates == [last : Nat, nvars : Nat, clauses : SUBSET (SUBSET Int), m : Memos]
IsSatSet == Sats = SatStates

(* The node that Through visits last. *)
Chosen(S) == CHOOSE n \in S : TRUE

(* What holds of the empty set, and of a set when it holds of the set      *)
(* without one of its elements, holds of every finite set.                 *)
LEMMA SubsetInduction ==
  ASSUME NEW T, IsFiniteSet(T), NEW G, {} \in G,
         \A S \in SUBSET T : S # {} /\ S \ {Chosen(S)} \in G => S \in G
  PROVE  \A S \in SUBSET T : S \in G
  <1> SUFFICES ASSUME NEW R \in SUBSET T, R \notin G PROVE FALSE
    OBVIOUS
  <1> DEFINE bad == {i \in Nat : \E S \in SUBSET T : S \notin G /\ Cardinality(S) = i}
  <1>1. \A S \in SUBSET T : IsFiniteSet(S) /\ Cardinality(S) \in Nat
    BY FS_Subset, FS_CardinalityType
  <1>2. Cardinality(R) \in bad
    BY <1>1
  <1>3. PICK i \in bad : \A j \in bad : i <= j
    <2> HIDE DEF bad
    <2>1. bad \in SUBSET Nat
      BY DEF bad
    <2> QED
      BY <1>2, <2>1, NatMin
  <1>4. PICK S \in SUBSET T : S \notin G /\ Cardinality(S) = i
    BY <1>3
  <1>5. S # {} /\ Chosen(S) \in S
    BY <1>4 DEF Chosen
  <1>6. Cardinality(S \ {Chosen(S)}) = Cardinality(S) - 1
    BY <1>1, <1>5, FS_RemoveElement
  <1>7. S \ {Chosen(S)} \notin G /\ S \ {Chosen(S)} \in SUBSET T
    BY <1>4, <1>5
  <1>8. Cardinality(S \ {Chosen(S)}) \in bad
    BY <1>1, <1>7
  <1>9. i <= Cardinality(S \ {Chosen(S)}) /\ Cardinality(S) = i /\ i \in Nat
    <2> HIDE DEF bad
    <2> QED
      BY <1>1, <1>3, <1>4, <1>8
  <1> QED
    BY <1>6, <1>9

(* The states Through goes through. *)
Passing(f, s, nodes, after) ==
    /\ after \in [SUBSET nodes -> Sats]
    /\ after[{}] = s
    /\ \A S \in SUBSET nodes :
            S # {} => after[S] = f[Chosen(S)][after[S \ {Chosen(S)}]]

(* Through goes through such states.                                       *)
LEMMA ThroughEqs ==
  ASSUME NEW nodes, IsFiniteSet(nodes), NEW f, \A n \in nodes : f[n] \in [Sats -> Sats],
         NEW s \in Sats
  PROVE  \E after : Passing(f, s, nodes, after) /\ Through(f, s, nodes) = after[nodes]
  <1> DEFINE D == SUBSET nodes
             size == [S \in D |-> Cardinality(S)]
             step(a) == [S \in D |-> IF S = {} THEN s
                                     ELSE LET n == CHOOSE n \in S : TRUE IN f[n][a[S \ {n}]]]
             F == [a \in [D -> Sats] |-> step(a)]
             val == CHOOSE a : a = step(a)
  <1>1. \A S \in D : IsFiniteSet(S) /\ Cardinality(S) \in Nat
    BY FS_Subset, FS_CardinalityType
  <1>2. Through(f, s, nodes) = val[nodes]
    BY DEF Through
  <1>3. ASSUME NEW a PROVE /\ step(a)[{}] = s
                           /\ \A S \in D : S # {} => step(a)[S] = f[Chosen(S)][a[S \ {Chosen(S)}]]
                           /\ step(a) = [S \in D |-> step(a)[S]]
    BY DEF Chosen
  <1>4. ASSUME NEW a, a = step(a) PROVE val = step(val)
    <2> HIDE DEF step
    <2> QED
      BY <1>4
  <1>5. \A S \in D : S # {} => Chosen(S) \in S /\ S \ {Chosen(S)} \in D
    BY DEF Chosen
  <1>13. ASSUME NEW S \in D, S # {}, NEW v \in Sats PROVE f[Chosen(S)][v] \in Sats
    <2>1. Chosen(S) \in nodes
      BY <1>5, <1>13
    <2>2. f[Chosen(S)] \in [Sats -> Sats]
      BY <2>1
    <2> HIDE DEF D
    <2> QED
      BY <2>2
  <1> HIDE DEF step, val
  <1>6. ASSUME NEW a \in [D -> Sats] PROVE step(a) \in [D -> Sats]
    <2>1. ASSUME NEW S \in D PROVE step(a)[S] \in Sats
      <3>1. CASE S = {}
        BY <1>3, <3>1
      <3>2. CASE S # {}
        <4>1. a[S \ {Chosen(S)}] \in Sats
          BY <1>5, <3>2
        <4> QED
          BY <1>3, <1>13, <3>2, <4>1
      <3> QED
        BY <3>1, <3>2
    <2>2. step(a) = [S \in D |-> step(a)[S]]
      BY <1>3
    <2> QED
      BY <2>1, <2>2
  <1>7. Recursion(D, Sats, size, F)
    <2>1. size \in [D -> Nat]
      BY <1>1
    <2>2. F \in [[D -> Sats] -> [D -> Sats]]
      BY <1>6
    <2>3. ASSUME NEW a \in [D -> Sats], NEW b \in [D -> Sats], NEW S \in D,
                 \A R \in D : size[R] < size[S] => a[R] = b[R]
          PROVE  F[a][S] = F[b][S]
      <3>0. F[a] = step(a) /\ F[b] = step(b)
        OBVIOUS
      <3> HIDE DEF F
      <3>1. CASE S = {}
        BY <1>3, <3>0, <3>1
      <3>2. CASE S # {}
        <4>1. Cardinality(S \ {Chosen(S)}) = Cardinality(S) - 1
          BY <1>1, <1>5, <3>2, FS_RemoveElement
        <4>3. S \ {Chosen(S)} \in D /\ Cardinality(S) \in Nat
          BY <1>1, <1>5, <3>2
        <4>4. size[S \ {Chosen(S)}] < size[S]
          BY <4>1, <4>3
        <4>2. a[S \ {Chosen(S)}] = b[S \ {Chosen(S)}]
          BY <2>3, <4>3, <4>4
        <4> QED
          BY <1>3, <3>0, <3>2, <4>2
      <3> QED
        BY <3>1, <3>2
    <2>4. Sats # {}
      OBVIOUS
    <2> HIDE DEF F, size
    <2> QED
      BY <2>1, <2>2, <2>3, <2>4 DEF Recursion
  <1>8. PICK h \in [D -> Sats] : h = F[h]
    <2> HIDE DEF F, size
    <2> QED
      BY <1>7, Fixpoint
  <1>9. val = step(val)
    BY <1>4, <1>8
  <1>10. /\ val = [S \in D |-> val[S]]
         /\ val[{}] = s
         /\ \A S \in D : S # {} => val[S] = f[Chosen(S)][val[S \ {Chosen(S)}]]
    BY <1>3, <1>9
  <1>11. \A S \in D : val[S] \in Sats
    <2> DEFINE G == {S \in D : val[S] \in Sats}
    <2>1. {} \in G
      BY <1>10
    <2>2. ASSUME NEW S \in SUBSET nodes, S # {}, S \ {Chosen(S)} \in G PROVE S \in G
      <3>1. val[S \ {Chosen(S)}] \in Sats
        BY <2>2
      <3>2. val[S] \in Sats
        BY <1>10, <1>13, <2>2, <3>1
      <3> QED
        BY <3>2
    <2> HIDE DEF G
    <2>3. \A S \in SUBSET nodes : S \in G
      BY <2>1, <2>2, SubsetInduction
    <2> QED
      BY <2>3 DEF G
  <1>12. val \in [D -> Sats]
    BY <1>10, <1>11
  <1> QED
    BY <1>2, <1>10, <1>12 DEF Passing

(* Only what becomes of the nodes to visit counts. *)
LEMMA ThroughAlike ==
  ASSUME NEW nodes, IsFiniteSet(nodes), NEW f, \A n \in nodes : f[n] \in [Sats -> Sats],
         NEW g, \A n \in nodes : f[n] = g[n], NEW s \in Sats
  PROVE  Through(f, s, nodes) = Through(g, s, nodes)
  <1>1. PICK a : Passing(f, s, nodes, a) /\ Through(f, s, nodes) = a[nodes]
    BY ThroughEqs
  <1>2. PICK b : Passing(g, s, nodes, b) /\ Through(g, s, nodes) = b[nodes]
    <2>1. \A n \in nodes : g[n] \in [Sats -> Sats]
      OBVIOUS
    <2> QED
      BY <2>1, ThroughEqs
  <1> DEFINE G == {S \in SUBSET nodes : a[S] = b[S]}
  <1>3. {} \in G
    BY <1>1, <1>2 DEF Passing
  <1>4. ASSUME NEW S \in SUBSET nodes, S # {}, S \ {Chosen(S)} \in G PROVE S \in G
    <2>1. Chosen(S) \in nodes
      BY <1>4 DEF Chosen
    <2>2. a[S \ {Chosen(S)}] = b[S \ {Chosen(S)}] /\ f[Chosen(S)] = g[Chosen(S)]
      BY <1>4, <2>1
    <2>3. a[S] = f[Chosen(S)][a[S \ {Chosen(S)}]] /\ b[S] = g[Chosen(S)][b[S \ {Chosen(S)}]]
      BY <1>1, <1>2, <1>4 DEF Passing
    <2> QED
      BY <2>2, <2>3
  <1> HIDE DEF G
  <1>5. nodes \in G
    BY <1>3, <1>4, SubsetInduction
  <1> QED
    BY <1>1, <1>2, <1>5 DEF G

(* A recursion over what is below a node whose values are as W says        *)
(* wherever those below are.                                               *)
RecursionIn(V, W, F) ==
    /\ W \in [Node -> SUBSET V]
    /\ \A n \in Node : W[n] # {}
    /\ \A h \in [Node -> V] : F[h] = [n \in Node |-> F[h][n]]
    /\ \A h \in [Node -> V], n \in Node :
            (\A o \in Children(n) : h[o] \in W[o]) => F[h][n] \in W[n]
    /\ \A f, g \in [Node -> V], n \in Node :
            (\A o \in Children(n) : f[o] = g[o] /\ f[o] \in W[o]) => F[f][n] = F[g][n]

(* Such a recursion has a solution.                                        *)
LEMMA NodeFixpointIn ==
  ASSUME IsNodeSet, NEW V, NEW W, NEW F, RecursionIn(V, W, F)
  PROVE  \E h \in [Node -> V] : h = F[h] /\ \A n \in Node : h[n] \in W[n]
  <1> SUFFICES ASSUME W \in [Node -> SUBSET V], \A n \in Node : W[n] # {},
                      \A h \in [Node -> V] : F[h] = [n \in Node |-> F[h][n]],
                      \A h \in [Node -> V], n \in Node :
                        (\A o \in Children(n) : h[o] \in W[o]) => F[h][n] \in W[n],
                      \A f, g \in [Node -> V], n \in Node :
                        (\A o \in Children(n) : f[o] = g[o] /\ f[o] \in W[o]) => F[f][n] = F[g][n]
               PROVE  \E h \in [Node -> V] : h = F[h] /\ \A n \in Node : h[n] \in W[n]
    BY DEF RecursionIn
  <1> DEFINE some == [n \in Node |-> CHOOSE w \in W[n] : TRUE]
             within(h) == [n \in Node |-> IF h[n] \in W[n] THEN h[n] ELSE some[n]]
             G == [h \in [Node -> V] |-> F[within(h)]]
  <1>1. \A n \in Node : some[n] \in W[n]
    OBVIOUS
  <1> HIDE DEF some
  <1>2. \A h, n : n \in Node => within(h)[n] \in W[n] /\ within(h)[n] \in V
    BY <1>1
  <1>3. \A h : within(h) \in [Node -> V]
    BY <1>2
  <1>4. \A h, n : n \in Node => (within(h)[n] = IF h[n] \in W[n] THEN h[n] ELSE some[n])
    OBVIOUS
  <1>5. \A n \in Node : Children(n) \in SUBSET Node
    BY ChildrenOf
  <1> HIDE DEF within
  <1>6. \A h, n : n \in Node => F[within(h)][n] \in W[n]
    BY <1>2, <1>3, <1>5
  <1>7. G \in [[Node -> V] -> [Node -> V]]
    <2>1. ASSUME NEW h \in [Node -> V] PROVE F[within(h)] \in [Node -> V]
      <3>1. \A n \in Node : F[within(h)][n] \in V
        BY <1>6
      <3>2. F[within(h)] = [n \in Node |-> F[within(h)][n]]
        BY <1>3
      <3> QED
        BY <3>1, <3>2
    <2> QED
      BY <2>1
  <1>8. ASSUME NEW f \in [Node -> V], NEW g \in [Node -> V], NEW n \in Node,
               \A o \in Children(n) : f[o] = g[o]
        PROVE  G[f][n] = G[g][n]
    <2>1. \A o \in Children(n) : within(f)[o] = within(g)[o] /\ within(f)[o] \in W[o]
      BY <1>2, <1>4, <1>5, <1>8
    <2>2. F[within(f)][n] = F[within(g)][n]
      BY <1>3, <2>1
    <2> QED
      BY <2>2
  <1>9. PICK h \in [Node -> V] : h = G[h]
    <2>1. V # {}
      <3>1. PICK n \in Node : TRUE
        BY ConstNodes
      <3> QED
        BY <1>1, <3>1
    <2> HIDE DEF G
    <2> QED
      BY <1>7, <1>8, <2>1, NodeFixpoint
  <1>10. h = F[within(h)]
    BY <1>9
  <1>11. \A n \in Node : h[n] \in W[n]
    BY <1>6, <1>10
  <1>12. within(h) = h
    BY <1>4, <1>11 DEF within
  <1> QED
    BY <1>10, <1>11, <1>12

-----------------------------------------------------------------------------
Backends == {"minisat", "cms", "ipasir"}

(* Declaring a number forgets none, and a model has a value for it.        *)
LEMMA NewVariablesRight ==
  ASSUME backend \in Backends, NEW nvars \in Nat, NEW v \in Nat
  PROVE  /\ NewVariables(nvars, v) \in Nat
         /\ nvars <= NewVariables(nvars, v)
         /\ v < ModelSize(NewVariables(nvars, v))
  <1>1. CASE backend = "minisat"
    <2>1. NewVariables(nvars, v) = Max({nvars, v + 1})
      BY <1>1 DEF NewVariables, MiniSatNewVariables
    <2>2. \A x \in {nvars, v + 1} : x <= nvars + v + 1
      OBVIOUS
    <2>3. Max({nvars, v + 1}) \in {nvars, v + 1} /\ \A x \in {nvars, v + 1} : x <= Max({nvars, v + 1})
      <3>1. {nvars, v + 1} \in SUBSET Int /\ {nvars, v + 1} # {} /\ nvars + v + 1 \in Int
        OBVIOUS
      <3> QED
        BY <2>2, <3>1, MaxRight
    <2> QED
      BY <1>1, <2>1, <2>3 DEF ModelSize
  <1>2. CASE backend = "cms"
    BY <1>2 DEF NewVariables, CMSatNewVariables, ModelSize
  <1>3. CASE backend = "ipasir"
    BY <1>3 DEF NewVariables, IpasirNewVariables, ModelSize
  <1> QED
    BY <1>1, <1>2, <1>3 DEF Backends

(* More numbers only make models larger. *)
LEMMA ModelSizeGrows ==
  ASSUME NEW j \in Nat, NEW k \in Nat, j <= k
  PROVE  ModelSize(j) <= ModelSize(k) /\ ModelSize(j) \in Nat
BY DEF ModelSize

(* The parts of a state. *)
LEMMA SatParts ==
  ASSUME IsSatSet, NEW s \in Sats
  PROVE  /\ s.last \in Nat /\ s.nvars \in Nat /\ s.clauses \in SUBSET (SUBSET Int)
         /\ s.m \in [DOMAIN s.m -> Int] /\ DOMAIN s.m \in SUBSET Node
         /\ s = [last |-> s.last, nvars |-> s.nvars, clauses |-> s.clauses, m |-> s.m]
BY DEF IsSatSet, SatStates, Memos

(* And a state of such parts.                                              *)
LEMMA SatMade ==
  ASSUME IsSatSet, NEW l \in Nat, NEW v \in Nat, NEW c \in SUBSET (SUBSET Int),
         NEW S \in SUBSET Node, NEW m \in [S -> Int]
  PROVE  [last |-> l, nvars |-> v, clauses |-> c, m |-> m] \in Sats
BY DEF IsSatSet, SatStates, Memos

(* The steps of the encoder. *)
LEMMA NewLitRight ==
  ASSUME IsSatSet, backend \in Backends, NEW s \in Sats
  PROVE  /\ NewLit(s) \in Sats
         /\ NewLit(s).last = s.last + 1 /\ s.nvars <= NewLit(s).nvars
         /\ NewLit(s).clauses = s.clauses /\ NewLit(s).m = s.m
  <1> DEFINE k == NewVariables(s.nvars, s.last + 1)
             M == Memos
             C == SUBSET (SUBSET Int)
  <1>1. s \in [last : Nat, nvars : Nat, clauses : C, m : M]
    BY DEF IsSatSet, SatStates
  <1>2. s.last \in Nat /\ s.nvars \in Nat /\ s.last + 1 \in Nat
    BY <1>1
  <1>3. k \in Nat /\ s.nvars <= k
    BY <1>2, NewVariablesRight
  <1>4. Sats = [last : Nat, nvars : Nat, clauses : C, m : M]
    BY DEF IsSatSet, SatStates
  <1>5. NewLit(s) = [[s EXCEPT !.last = s.last + 1] EXCEPT !.nvars = k]
    BY <1>1 DEF NewLit
  <1> HIDE DEF k, M, C
  <1> QED
    BY <1>1, <1>2, <1>3, <1>4, <1>5

(* Clauses are added to the others.                                        *)
LEMMA AddClausesRight ==
  ASSUME IsSatSet, NEW s \in Sats, NEW cs \in SUBSET (SUBSET Int)
  PROVE  /\ AddClauses(s, cs) \in Sats
         /\ AddClauses(s, cs).last = s.last /\ AddClauses(s, cs).nvars = s.nvars
         /\ AddClauses(s, cs).clauses = s.clauses \cup cs /\ AddClauses(s, cs).m = s.m
  <1> DEFINE M == Memos
             C == SUBSET (SUBSET Int)
             c == s.clauses \cup cs
  <1>1. Sats = [last : Nat, nvars : Nat, clauses : C, m : M]
    BY DEF IsSatSet, SatStates
  <1>2. c \in C
    BY SatParts
  <1>3. AddClauses(s, cs) = [s EXCEPT !.clauses = c]
    BY DEF AddClauses
  <1> HIDE DEF C, M
  <1>4. s \in [last : Nat, nvars : Nat, clauses : C, m : M]
    BY <1>1
  <1>5. c = s.clauses \cup cs
    OBVIOUS
  <1> HIDE DEF c
  <1> QED
    BY <1>1, <1>2, <1>3, <1>4, <1>5

(* A node gets a literal, the others keep theirs.                          *)
LEMMA EncodedRight ==
  ASSUME IsSatSet, NEW s \in Sats, NEW n \in Node, NEW lit \in Int
  PROVE  /\ Encoded(s, n, lit) \in Sats
         /\ Encoded(s, n, lit).last = s.last /\ Encoded(s, n, lit).nvars = s.nvars
         /\ Encoded(s, n, lit).clauses = s.clauses
         /\ DOMAIN Encoded(s, n, lit).m = DOMAIN s.m \cup {n}
         /\ \A k \in DOMAIN s.m : Encoded(s, n, lit).m[k] = s.m[k]
         /\ n \notin DOMAIN s.m => Encoded(s, n, lit).m[n] = lit
  <1> DEFINE M == Memos
             C == SUBSET (SUBSET Int)
             m == Joined(s.m, [k \in {n} |-> lit])
  <1>1. Sats = [last : Nat, nvars : Nat, clauses : C, m : M]
    BY DEF IsSatSet, SatStates
  <1>2. /\ DOMAIN m = DOMAIN s.m \cup {n}
        /\ \A k \in DOMAIN s.m : m[k] = s.m[k]
        /\ n \notin DOMAIN s.m => m[n] = lit
        /\ m = [k \in DOMAIN s.m \cup {n} |-> m[k]]
    BY DEF Joined
  <1>3. Encoded(s, n, lit) = [s EXCEPT !.m = m]
    BY DEF Encoded
  <1> HIDE DEF m
  <1>4. \A k \in DOMAIN s.m \cup {n} : m[k] \in Int
    <2>1. \A k \in DOMAIN s.m : s.m[k] \in Int
      BY SatParts
    <2> QED
      BY <1>2, <2>1
  <1>5. m \in [DOMAIN s.m \cup {n} -> Int] /\ DOMAIN s.m \cup {n} \in SUBSET Node
    BY <1>2, <1>4, SatParts
  <1>6. m \in M
    BY <1>5 DEF Memos
  <1> HIDE DEF C, M
  <1>7. s \in [last : Nat, nvars : Nat, clauses : C, m : M]
    BY <1>1
  <1>8. /\ Encoded(s, n, lit) \in Sats /\ Encoded(s, n, lit).m = m
        /\ Encoded(s, n, lit).last = s.last /\ Encoded(s, n, lit).nvars = s.nvars
        /\ Encoded(s, n, lit).clauses = s.clauses
    BY <1>1, <1>3, <1>6, <1>7
  <1> QED
    BY <1>2, <1>8

(* The clauses of a gate are clauses.                                      *)
LEMMA GateClausesType ==
  ASSUME NEW type \in Gates, NEW r \in Int, NEW lits \in SUBSET Int
  PROVE  GateClauses(type, r, lits) \in SUBSET (SUBSET Int)
  <1>1. CASE type = "AND"
    <2>1. \A l \in lits : 1 * l \in Int /\ - 1 * r \in Int /\ - 1 * l \in Int /\ 1 * r \in Int
      OBVIOUS
    <2> QED
      BY <1>1, <2>1 DEF GateClauses
  <1>2. CASE type # "AND"
    <2>1. \A l \in lits : (-1) * l \in Int /\ - (-1) * r \in Int /\ - (-1) * l \in Int /\ (-1) * r \in Int
      OBVIOUS
    <2> QED
      BY <1>2, <2>1 DEF GateClauses
  <1> QED
    BY <1>1, <1>2

(* A way to encode a node o leaves it encoded, with all that was before.   *)
Remembers(g, o) ==
    /\ g \in [Sats -> Sats]
    /\ \A s \in Sats : o \in DOMAIN g[s].m /\ DOMAIN s.m \subseteq DOMAIN g[s].m

(* Through leaves all of the nodes encoded.                                *)
LEMMA ThroughRemembers ==
  ASSUME NEW nodes, IsFiniteSet(nodes), NEW f, \A n \in nodes : Remembers(f[n], n), NEW s \in Sats
  PROVE  /\ Through(f, s, nodes) \in Sats
         /\ nodes \cup DOMAIN s.m \subseteq DOMAIN Through(f, s, nodes).m
  <1>1. PICK a : Passing(f, s, nodes, a) /\ Through(f, s, nodes) = a[nodes]
    BY ThroughEqs DEF Remembers
  <1> DEFINE G == {S \in SUBSET nodes : S \cup DOMAIN s.m \subseteq DOMAIN a[S].m}
  <1>2. {} \in G
    BY <1>1 DEF Passing
  <1>3. ASSUME NEW S \in SUBSET nodes, S # {}, S \ {Chosen(S)} \in G PROVE S \in G
    <2> DEFINE n == Chosen(S)
               t == a[S \ {n}]
    <2>1. n \in S /\ S = (S \ {n}) \cup {n} /\ S \ {n} \in SUBSET nodes
      BY <1>3 DEF Chosen
    <2>2. t \in Sats
      BY <1>1, <2>1 DEF Passing
    <2>3. a[S] = f[n][t]
      BY <1>1, <1>3 DEF Passing
    <2>4. n \in DOMAIN f[n][t].m /\ DOMAIN t.m \subseteq DOMAIN f[n][t].m
      BY <2>1, <2>2 DEF Remembers
    <2>5. (S \ {n}) \cup DOMAIN s.m \subseteq DOMAIN t.m
      BY <1>3
    <2> HIDE DEF n, t
    <2> QED
      BY <2>1, <2>3, <2>4, <2>5
  <1> HIDE DEF G
  <1>4. nodes \in G
    BY <1>2, <1>3, SubsetInduction
  <1>5. a[nodes] \in Sats
    BY <1>1 DEF Passing
  <1> QED
    BY <1>1, <1>4, <1>5 DEF G

(* The encoding of a node, when f encodes those below it. *)
EncodedBy(f, n, s) ==
    CASE n \in DOMAIN s.m -> s
      [] n \notin DOMAIN s.m /\ IsConst(n) -> EncodeConst(NewLit(s), n)
      [] n \notin DOMAIN s.m /\ Type(n) = "LITERAL" ->
            Encoded(s, n, IF Positive(n) THEN LitVar(n) ELSE - LitVar(n))
      [] n \notin DOMAIN s.m /\ Type(n) = "NEGATION" ->
            LET t == f[Operand(n)][s] IN Encoded(t, n, - t.m[Operand(n)])
      [] OTHER ->
            EncodeGate(Through(f, NewLit(s), Operands(n)), n, s.last + 1)

(* By the type of the node.                                                *)
LEMMA EncodedByCases ==
  ASSUME IsNodeSet, NEW n \in Node, NEW f, NEW s
  PROVE  /\ n \in DOMAIN s.m => EncodedBy(f, n, s) = s
         /\ n \notin DOMAIN s.m =>
            /\ IsConst(n) => EncodedBy(f, n, s) = EncodeConst(NewLit(s), n)
            /\ Type(n) = "LITERAL" =>
                EncodedBy(f, n, s) = Encoded(s, n, IF Positive(n) THEN LitVar(n) ELSE - LitVar(n))
            /\ Type(n) = "NEGATION" =>
                EncodedBy(f, n, s) =
                    Encoded(f[Operand(n)][s], n, - f[Operand(n)][s].m[Operand(n)])
            /\ Type(n) \in Gates =>
                EncodedBy(f, n, s) =
                    EncodeGate(Through(f, NewLit(s), Operands(n)), n, s.last + 1)
  <1>1. CASE n \in DOMAIN s.m
    BY <1>1 DEF EncodedBy
  <1>2. CASE n \notin DOMAIN s.m /\ IsConst(n)
    BY <1>2, Shape DEF EncodedBy, Gates
  <1>3. CASE n \notin DOMAIN s.m /\ Type(n) = "LITERAL"
    BY <1>3, Shape DEF EncodedBy, Gates
  <1>4. CASE n \notin DOMAIN s.m /\ Type(n) = "NEGATION"
    BY <1>4, Shape DEF EncodedBy, Gates
  <1>5. CASE n \notin DOMAIN s.m /\ Type(n) \in Gates
    <2>1. ~ IsConst(n) /\ Type(n) # "LITERAL" /\ Type(n) # "NEGATION"
      BY <1>5, Shape DEF Gates
    <2> QED
      BY <1>5, <2>1 DEF EncodedBy
  <1> QED
    BY <1>1, <1>2, <1>3, <1>4, <1>5, Shape DEF Gates

(* The parts of EncodedBy. *)
LEMMA EncodeConstType ==
  ASSUME IsSatSet, NEW s \in Sats, NEW n \in Node
  PROVE  /\ EncodeConst(s, n) \in Sats
         /\ n \in DOMAIN EncodeConst(s, n).m /\ DOMAIN s.m \subseteq DOMAIN EncodeConst(s, n).m
  <1>1. s.last \in Int /\ - s.last \in Int
    BY SatParts
  <1>2. {{IF n = TrueNode THEN s.last ELSE - s.last}} \in SUBSET (SUBSET Int)
    BY <1>1
  <1> QED
    BY <1>1, <1>2, AddClausesRight, EncodedRight DEF EncodeConst

LEMMA EncodeGateType ==
  ASSUME IsNodeSet, IsSatSet, NEW s \in Sats, NEW n \in Node, Type(n) \in Gates,
         Operands(n) \subseteq DOMAIN s.m, NEW r \in Int
  PROVE  /\ EncodeGate(s, n, r) \in Sats
         /\ n \in DOMAIN EncodeGate(s, n, r).m /\ DOMAIN s.m \subseteq DOMAIN EncodeGate(s, n, r).m
  <1>1. {s.m[o] : o \in Operands(n)} \in SUBSET Int
    BY SatParts
  <1>2. GateClauses(Type(n), r, {s.m[o] : o \in Operands(n)}) \in SUBSET (SUBSET Int)
    BY <1>1, GateClausesType
  <1> QED
    BY <1>2, AddClausesRight, EncodedRight DEF EncodeGate

LEMMA EncodedByType ==
  ASSUME IsNodeSet, IsSatSet, backend \in Backends, NEW n \in Node,
         NEW f, \A o \in Children(n) : Remembers(f[o], o), NEW s \in Sats
  PROVE  /\ EncodedBy(f, n, s) \in Sats
         /\ n \in DOMAIN EncodedBy(f, n, s).m /\ DOMAIN s.m \subseteq DOMAIN EncodedBy(f, n, s).m
  <1> DEFINE Fits(t) == t \in Sats /\ n \in DOMAIN t.m /\ DOMAIN s.m \subseteq DOMAIN t.m
  <1>0. SUFFICES Fits(EncodedBy(f, n, s))
    OBVIOUS
  <1> DEFINE r == NewLit(s)
  <1>1. r \in Sats /\ r.m = s.m
    BY NewLitRight
  <1>2. CASE n \in DOMAIN s.m
    BY <1>2, EncodedByCases
  <1>3. CASE n \notin DOMAIN s.m /\ IsConst(n)
    BY <1>1, <1>3, EncodedByCases, EncodeConstType
  <1>4. CASE n \notin DOMAIN s.m /\ Type(n) = "LITERAL"
    <2> DEFINE lit == IF Positive(n) THEN LitVar(n) ELSE - LitVar(n)
    <2>1. lit \in Int
      BY <1>4, Shape
    <2>2. EncodedBy(f, n, s) = Encoded(s, n, lit)
      BY <1>4, EncodedByCases
    <2> HIDE DEF lit
    <2> QED
      BY <2>1, <2>2, EncodedRight
  <1>5. CASE n \notin DOMAIN s.m /\ Type(n) = "NEGATION"
    <2> DEFINE o == Operand(n)
               t == f[o][s]
    <2>1. o \in Children(n) /\ o \in Node
      BY <1>5, ChildrenOf
    <2>2. Remembers(f[o], o)
      BY <2>1
    <2>3. t \in Sats /\ o \in DOMAIN t.m /\ DOMAIN s.m \subseteq DOMAIN t.m
      BY <2>2 DEF Remembers
    <2>4. EncodedBy(f, n, s) = Encoded(t, n, - t.m[o])
      BY <1>5, EncodedByCases
    <2> HIDE DEF t, o
    <2>5. t.m[o] \in Int /\ - t.m[o] \in Int
      BY <2>3, SatParts
    <2> QED
      BY <2>3, <2>4, <2>5, EncodedRight
  <1>6. CASE n \notin DOMAIN s.m /\ Type(n) \in Gates
    <2> DEFINE t == Through(f, r, Operands(n))
    <2>1. Operands(n) = Children(n) /\ IsFiniteSet(Operands(n))
      BY <1>6, ChildrenOf
    <2>2. t \in Sats /\ Operands(n) \cup DOMAIN s.m \subseteq DOMAIN t.m
      BY <1>1, <2>1, ThroughRemembers
    <2>3. EncodedBy(f, n, s) = EncodeGate(t, n, s.last + 1)
      BY <1>6, EncodedByCases
    <2>4. s.last + 1 \in Int
      BY SatParts
    <2> HIDE DEF t, r
    <2> QED
      BY <1>6, <2>2, <2>3, <2>4, EncodeGateType
  <1> HIDE DEF Fits
  <1> QED
    BY <1>2, <1>3, <1>4, <1>5, <1>6, Shape DEF Gates

(* It depends on f only for what is below the node.                        *)
LEMMA EncodedByAlike ==
  ASSUME IsNodeSet, IsSatSet, backend \in Backends, NEW n \in Node,
         NEW f, \A o \in Children(n) : Remembers(f[o], o),
         NEW g, \A o \in Children(n) : f[o] = g[o], NEW s \in Sats
  PROVE  EncodedBy(f, n, s) = EncodedBy(g, n, s)
  <1>1. CASE n \in DOMAIN s.m \/ IsConst(n) \/ Type(n) = "LITERAL"
    BY <1>1, EncodedByCases
  <1>2. CASE n \notin DOMAIN s.m /\ Type(n) = "NEGATION"
    <2>1. Operand(n) \in Children(n)
      BY <1>2, ChildrenOf
    <2> QED
      BY <1>2, <2>1, EncodedByCases
  <1>3. CASE n \notin DOMAIN s.m /\ Type(n) \in Gates
    <2>1. Operands(n) = Children(n) /\ IsFiniteSet(Operands(n))
      BY <1>3, ChildrenOf
    <2>2. \A o \in Operands(n) : f[o] \in [Sats -> Sats] /\ f[o] = g[o]
      BY <2>1 DEF Remembers
    <2>3. NewLit(s) \in Sats
      BY NewLitRight
    <2>4. Through(f, NewLit(s), Operands(n)) = Through(g, NewLit(s), Operands(n))
      BY <2>1, <2>2, <2>3, ThroughAlike
    <2> QED
      BY <1>3, <2>4, EncodedByCases
  <1> QED
    BY <1>1, <1>2, <1>3, Shape DEF Gates

(* Encoding is defined: it encodes a node as EncodedBy says. *)
LEMMA EncodingEqs ==
  ASSUME IsNodeSet, IsSatSet, backend \in Backends
  PROVE  \A n \in Node : /\ Remembers(Encoding[n], n)
                         /\ \A s \in Sats : Encoding[n][s] = EncodedBy(Encoding, n, s)
  <1> DEFINE step(f) == [n \in Node |-> [s \in Sats |-> EncodedBy(f, n, s)]]
             V == [Sats -> Sats]
             W == [n \in Node |-> {g \in V : Remembers(g, n)}]
             F == [f \in [Node -> V] |-> step(f)]
  <1>1. Encoding = CHOOSE f : f = step(f)
    BY DEF Encoding, EncodedBy
  <1>2. \A f : step(f) = [n \in Node |-> step(f)[n]]
    OBVIOUS
  <1>3. \A f, n : n \in Node => step(f)[n] = [s \in Sats |-> EncodedBy(f, n, s)]
    OBVIOUS
  <1> HIDE DEF step
  <1>4. ASSUME NEW f, NEW n \in Node, \A o \in Children(n) : Remembers(f[o], o)
        PROVE  Remembers(step(f)[n], n)
    <2>1. \A s \in Sats : /\ EncodedBy(f, n, s) \in Sats /\ n \in DOMAIN EncodedBy(f, n, s).m
                          /\ DOMAIN s.m \subseteq DOMAIN EncodedBy(f, n, s).m
      BY <1>4, EncodedByType
    <2>2. step(f)[n] = [s \in Sats |-> EncodedBy(f, n, s)]
      BY <1>3
    <2> DEFINE e(s) == EncodedBy(f, n, s)
    <2> HIDE DEF e
    <2>3. step(f)[n] = [s \in Sats |-> e(s)]
      BY <2>2 DEF e
    <2>4. \A s \in Sats : e(s) \in Sats /\ n \in DOMAIN e(s).m /\ DOMAIN s.m \subseteq DOMAIN e(s).m
      BY <2>1 DEF e
    <2> QED
      BY <2>3, <2>4 DEF Remembers
  <1>5. ASSUME NEW f, NEW g, NEW n \in Node,
               \A o \in Children(n) : Remembers(f[o], o) /\ f[o] = g[o]
        PROVE  step(f)[n] = step(g)[n]
    <2>1. \A s \in Sats : EncodedBy(f, n, s) = EncodedBy(g, n, s)
      BY <1>5, EncodedByAlike
    <2>2. [s \in Sats |-> EncodedBy(f, n, s)] = [s \in Sats |-> EncodedBy(g, n, s)]
      BY <2>1
    <2>3. step(f)[n] = [s \in Sats |-> EncodedBy(f, n, s)]
      BY <1>3
    <2>4. step(g)[n] = [s \in Sats |-> EncodedBy(g, n, s)]
      BY <1>3
    <2> QED
      BY <2>2, <2>3, <2>4
  <1>6. \A n \in Node : \A g : g \in W[n] <=> Remembers(g, n)
    BY DEF Remembers
  <1>7. \A n \in Node : W[n] # {} /\ W[n] \in SUBSET V
    <2> TAKE n \in Node
    <2> DEFINE g == [s \in Sats |-> IF n \in DOMAIN s.m THEN s ELSE Encoded(s, n, 0)]
    <2>1. ASSUME NEW s \in Sats
          PROVE  g[s] \in Sats /\ n \in DOMAIN g[s].m /\ DOMAIN s.m \subseteq DOMAIN g[s].m
      BY EncodedRight
    <2>2. g = [s \in Sats |-> g[s]]
      OBVIOUS
    <2> HIDE DEF g
    <2>3. Remembers(g, n)
      BY <2>1, <2>2 DEF Remembers
    <2> QED
      BY <1>6, <2>3
  <1>8. W \in [Node -> SUBSET V]
    BY <1>7
  <1>9. \A f \in [Node -> V] : F[f] = step(f)
    OBVIOUS
  <1> HIDE DEF F, W, V
  <1>10. \A f \in [Node -> V] : F[f] = [n \in Node |-> F[f][n]]
    BY <1>2, <1>9
  <1>11. \A f \in [Node -> V], n \in Node :
            (\A o \in Children(n) : f[o] \in W[o]) => F[f][n] \in W[n]
    <2> TAKE f \in [Node -> V], n \in Node
    <2>1. Children(n) \in SUBSET Node
      BY ChildrenOf
    <2> QED
      BY <1>4, <1>6, <1>9, <2>1
  <1>12. \A f, g \in [Node -> V], n \in Node :
            (\A o \in Children(n) : f[o] = g[o] /\ f[o] \in W[o]) => F[f][n] = F[g][n]
    <2> TAKE f, g \in [Node -> V], n \in Node
    <2>1. Children(n) \in SUBSET Node
      BY ChildrenOf
    <2> QED
      BY <1>5, <1>6, <1>9, <2>1
  <1>13. PICK h \in [Node -> V] : h = F[h] /\ \A n \in Node : h[n] \in W[n]
    <2>1. \A n \in Node : W[n] # {}
      BY <1>7
    <2>2. RecursionIn(V, W, F)
      BY <1>8, <1>10, <1>11, <1>12, <2>1 DEF RecursionIn
    <2> QED
      BY <2>2, NodeFixpointIn
  <1>14. Encoding = step(Encoding)
    <2>1. h = step(h)
      BY <1>9, <1>13
    <2> QED
      BY <1>1, <2>1
  <1> DEFINE S == {n \in Node : Remembers(Encoding[n], n)}
  <1>15. \A n \in Node : (\A o \in Children(n) : o \in S) => n \in S
    BY <1>4, <1>14
  <1> HIDE DEF S
  <1>16. \A n \in Node : n \in S
    BY <1>15, NodeInduction
  <1>17. \A n \in Node, s \in Sats : Encoding[n][s] = EncodedBy(Encoding, n, s)
    <2> TAKE n \in Node, s \in Sats
    <2>1. step(Encoding)[n] = [t \in Sats |-> EncodedBy(Encoding, n, t)]
      BY <1>3
    <2>2. Encoding[n] = [t \in Sats |-> EncodedBy(Encoding, n, t)]
      BY <1>14, <2>1
    <2> QED
      BY <2>2
  <1> QED
    BY <1>16, <1>17 DEF S

-----------------------------------------------------------------------------
(* What the encoder keeps: nodes below encoded nodes are encoded, literals *)
(* have the numbers of their variables, negations the other sign, and      *)
(* every gate or constant a number of its own below the last one given     *)
(* out; the clauses are the units U and those of the encoded nodes.        *)
Own(n) == Type(n) \notin {"LITERAL", "NEGATION"}
Signed(n) == IF Positive(n) THEN LitVar(n) ELSE - LitVar(n)
ClausesFor(n, r, lits) ==
    CASE n = TrueNode -> {{r}}
      [] n = FalseNode -> {{- r}}
      [] Type(n) \in Gates -> GateClauses(Type(n), r, lits)
      [] OTHER -> {}
ClausesOf(m, n) == ClausesFor(n, m[n], {m[o] : o \in Children(n)})

MemoRight(vs, s) ==
    \A n \in DOMAIN s.m :
        /\ Children(n) \subseteq DOMAIN s.m /\ VarsOf(n) \subseteq vs
        /\ Type(n) = "LITERAL" => s.m[n] = Signed(n)
        /\ Type(n) = "NEGATION" => s.m[n] = - s.m[Operand(n)]
        /\ Own(n) => /\ s.m[n] \in 1 .. s.last /\ s.m[n] \notin vs
                     /\ \A k \in DOMAIN s.m : Own(k) /\ s.m[k] = s.m[n] => k = n
SatRight(vs, s, U) ==
    /\ s \in Sats
    /\ vs \subseteq 1 .. s.last
    /\ MemoRight(vs, s)
    /\ s.clauses = U \cup UNION {ClausesOf(s.m, n) : n \in DOMAIN s.m}

(* From s to t nothing is lost, and new gates have new numbers.            *)
Grown(s, t) ==
    /\ s.last <= t.last /\ s.nvars <= t.nvars
    /\ \A k \in DOMAIN s.m : k \in DOMAIN t.m /\ t.m[k] = s.m[k]
    /\ \A k \in DOMAIN t.m : Own(k) /\ k \notin DOMAIN s.m => s.last < t.m[k]

(* One step after the other.                                               *)
LEMMA GrownTwice ==
  ASSUME IsSatSet, NEW s \in Sats, NEW t \in Sats, NEW u \in Sats, Grown(s, t), Grown(t, u)
  PROVE  Grown(s, u)
  <1>1. /\ s.last \in Nat /\ t.last \in Nat /\ u.last \in Nat
        /\ s.nvars \in Nat /\ t.nvars \in Nat /\ u.nvars \in Nat
        /\ \A k \in DOMAIN u.m : u.m[k] \in Int
    BY SatParts
  <1>2. s.last <= u.last /\ s.nvars <= u.nvars
    BY <1>1 DEF Grown
  <1>3. ASSUME NEW k \in DOMAIN u.m, Own(k), k \notin DOMAIN s.m PROVE s.last < u.m[k]
    <2>1. CASE k \in DOMAIN t.m
      BY <1>3, <2>1 DEF Grown
    <2>2. CASE k \notin DOMAIN t.m
      <3>1. t.last < u.m[k] /\ s.last <= t.last
        BY <1>3, <2>2 DEF Grown
      <3> QED
        BY <1>1, <3>1
    <2> QED
      BY <2>1, <2>2
  <1> QED
    BY <1>2, <1>3 DEF Grown

(* One more node with the number lit and its clauses. *)
Added(t, u, n, lit) ==
    /\ u \in Sats /\ u.last = t.last /\ u.nvars = t.nvars
    /\ u.clauses = t.clauses \cup ClausesFor(n, lit, {t.m[o] : o \in Children(n)})
    /\ DOMAIN u.m = DOMAIN t.m \cup {n}
    /\ \A k \in DOMAIN t.m : u.m[k] = t.m[k]
    /\ u.m[n] = lit
(* The number suits the node. *)
Suits(vs, t, n, lit) ==
    /\ Type(n) = "LITERAL" => lit = Signed(n)
    /\ Type(n) = "NEGATION" => lit = - t.m[Operand(n)]
    /\ Own(n) => /\ lit \in 1 .. t.last /\ lit \notin vs
                 /\ \A k \in DOMAIN t.m : Own(k) => t.m[k] # lit

(* A number that suits the node keeps the encoder's book right.            *)
LEMMA AddedRight ==
  ASSUME IsNodeSet, IsSatSet, NEW vs, NEW U, NEW t, SatRight(vs, t, U),
         NEW n \in Node, n \notin DOMAIN t.m, Children(n) \subseteq DOMAIN t.m, VarsOf(n) \subseteq vs,
         NEW lit, Suits(vs, t, n, lit), NEW u, Added(t, u, n, lit)
  PROVE  SatRight(vs, u, U)
  <1>1. t \in Sats /\ u \in Sats /\ u.last = t.last /\ DOMAIN t.m \in SUBSET Node
    BY SatParts DEF SatRight, Added
  <1>2. /\ DOMAIN u.m = DOMAIN t.m \cup {n}
        /\ \A k \in DOMAIN t.m : u.m[k] = t.m[k]
        /\ u.m[n] = lit
    BY DEF Added
  <1>3. \A k \in DOMAIN t.m : Children(k) \subseteq DOMAIN t.m /\ VarsOf(k) \subseteq vs
    BY DEF SatRight, MemoRight
  <1>4. \A k \in DOMAIN u.m : Children(k) \subseteq DOMAIN t.m /\ VarsOf(k) \subseteq vs
    BY <1>2, <1>3
  <1>5. \A k \in DOMAIN u.m : Type(k) = "NEGATION" => Operand(k) \in DOMAIN t.m
    <2> TAKE k \in DOMAIN u.m
    <2>1. k \in Node
      BY <1>1, <1>2
    <2> QED
      BY <1>4, <2>1, ChildrenOf
  <1>6. MemoRight(vs, u)
    <2> SUFFICES ASSUME NEW k \in DOMAIN u.m
                 PROVE  /\ Type(k) = "LITERAL" => u.m[k] = Signed(k)
                        /\ Type(k) = "NEGATION" => u.m[k] = - u.m[Operand(k)]
                        /\ Own(k) => /\ u.m[k] \in 1 .. u.last /\ u.m[k] \notin vs
                                     /\ \A j \in DOMAIN u.m : Own(j) /\ u.m[j] = u.m[k] => j = k
      BY <1>2, <1>4 DEF MemoRight
    <2>1. CASE k = n
      <3>1. \A j \in DOMAIN u.m : Own(j) /\ Own(n) /\ u.m[j] = lit => j = n
        BY <1>2 DEF Suits
      <3> QED
        BY <1>1, <1>2, <1>5, <2>1, <3>1 DEF Suits
    <2>2. CASE k # n
      <3>1. k \in DOMAIN t.m
        BY <1>2, <2>2
      <3>2. /\ Type(k) = "LITERAL" => t.m[k] = Signed(k)
            /\ Type(k) = "NEGATION" => t.m[k] = - t.m[Operand(k)]
            /\ Own(k) => /\ t.m[k] \in 1 .. t.last /\ t.m[k] \notin vs
                         /\ \A j \in DOMAIN t.m : Own(j) /\ t.m[j] = t.m[k] => j = k
        BY <3>1 DEF SatRight, MemoRight
      <3>3. Own(k) /\ Own(n) => t.m[k] # lit
        BY <3>1 DEF Suits
      <3> QED
        BY <1>1, <1>2, <1>5, <3>1, <3>2, <3>3
    <2> QED
      BY <2>1, <2>2
  <1>7. \A k \in DOMAIN t.m : ClausesOf(u.m, k) = ClausesOf(t.m, k)
    <2> TAKE k \in DOMAIN t.m
    <2>1. {u.m[o] : o \in Children(k)} = {t.m[o] : o \in Children(k)}
      BY <1>2, <1>3
    <2> QED
      BY <1>2, <2>1 DEF ClausesOf
  <1>8. ClausesOf(u.m, n) = ClausesFor(n, lit, {t.m[o] : o \in Children(n)})
    <2>1. {u.m[o] : o \in Children(n)} = {t.m[o] : o \in Children(n)}
      BY <1>2
    <2> QED
      BY <1>2, <2>1 DEF ClausesOf
  <1>9. u.clauses = U \cup UNION {ClausesOf(u.m, k) : k \in DOMAIN u.m}
    <2>1. UNION {ClausesOf(u.m, k) : k \in DOMAIN u.m}
            = (UNION {ClausesOf(t.m, k) : k \in DOMAIN t.m}) \cup ClausesOf(u.m, n)
      BY <1>2, <1>7
    <2> QED
      BY <1>8, <2>1 DEF SatRight, Added
  <1>10. vs \subseteq 1 .. u.last
    BY <1>1 DEF SatRight
  <1> QED
    BY <1>1, <1>6, <1>9, <1>10 DEF SatRight

(* From s to t some nodes were encoded, of rank at most K. *)
Further(vs, U, rank, s, t, K) ==
    /\ SatRight(vs, t, U) /\ Grown(s, t)
    /\ \A k \in DOMAIN t.m : k \notin DOMAIN s.m => rank[k] <= K
(* The contract of a way g to encode the node n.                           *)
Encodes(vs, U, rank, g, n) ==
    \A s : SatRight(vs, s, U) =>
        /\ Further(vs, U, rank, s, g[s], rank[n])
        /\ n \in DOMAIN g[s].m

(* Encoding one after the other, or nothing at all.                        *)
LEMMA FurtherTwice ==
  ASSUME IsSatSet, NEW vs, NEW U, NEW rank, NEW s \in Sats, NEW t, NEW u, NEW K,
         Further(vs, U, rank, s, t, K), Further(vs, U, rank, t, u, K)
  PROVE  Further(vs, U, rank, s, u, K)
  <1>1. t \in Sats /\ u \in Sats
    BY DEF Further, SatRight
  <1>2. Grown(s, u)
    BY <1>1, GrownTwice DEF Further
  <1>3. ASSUME NEW k \in DOMAIN u.m, k \notin DOMAIN s.m PROVE rank[k] <= K
    <2>1. CASE k \in DOMAIN t.m
      BY <1>3, <2>1 DEF Further
    <2>2. CASE k \notin DOMAIN t.m
      BY <2>2 DEF Further
    <2> QED
      BY <2>1, <2>2
  <1> QED
    BY <1>2, <1>3 DEF Further

LEMMA FurtherNot ==
  ASSUME NEW vs, NEW U, NEW rank, NEW s, SatRight(vs, s, U), IsSatSet, NEW K
  PROVE  Further(vs, U, rank, s, s, K)
  <1>1. s.last \in Nat /\ s.nvars \in Nat
    BY SatParts DEF SatRight
  <1> QED
    BY <1>1 DEF Further, Grown

(* Encoding the nodes of a set one after the other.                        *)
LEMMA ThroughRight ==
  ASSUME IsSatSet, NEW vs, NEW U, NEW rank \in [Node -> Nat], NEW K \in Nat,
         NEW nodes \in SUBSET Node, IsFiniteSet(nodes), \A n \in nodes : rank[n] <= K,
         NEW f, \A n \in nodes : Remembers(f[n], n) /\ Encodes(vs, U, rank, f[n], n),
         NEW s, SatRight(vs, s, U)
  PROVE  /\ Further(vs, U, rank, s, Through(f, s, nodes), K)
         /\ nodes \cup DOMAIN s.m \subseteq DOMAIN Through(f, s, nodes).m
  <1>0. s \in Sats
    BY DEF SatRight
  <1>1. PICK a : Passing(f, s, nodes, a) /\ Through(f, s, nodes) = a[nodes]
    BY <1>0, ThroughEqs DEF Remembers
  <1> DEFINE G == {S \in SUBSET nodes : Further(vs, U, rank, s, a[S], K)}
  <1>2. {} \in G
    <2>1. a[{}] = s
      BY <1>1 DEF Passing
    <2> QED
      BY <2>1, FurtherNot
  <1>3. ASSUME NEW S \in SUBSET nodes, S # {}, S \ {Chosen(S)} \in G PROVE S \in G
    <2> DEFINE n == Chosen(S)
               t == a[S \ {n}]
    <2>1. n \in S /\ n \in nodes
      BY <1>3 DEF Chosen
    <2>2. Further(vs, U, rank, s, t, K)
      BY <1>3
    <2>3. a[S] = f[n][t]
      BY <1>1, <1>3 DEF Passing
    <2>4. Further(vs, U, rank, t, f[n][t], rank[n])
      BY <2>1, <2>2 DEF Further, Encodes
    <2>5. Further(vs, U, rank, t, f[n][t], K)
      <3> DEFINE u == f[n][t]
      <3>1. \A k \in DOMAIN u.m : k \notin DOMAIN t.m => rank[k] <= rank[n]
        BY <2>4 DEF Further
      <3>2. \A k \in DOMAIN u.m : k \in Node
        BY <2>4, SatParts DEF Further, SatRight
      <3>3. \A k \in DOMAIN u.m : k \notin DOMAIN t.m => rank[k] <= K
        BY <2>1, <3>1, <3>2
      <3> QED
        BY <2>4, <3>3 DEF Further
    <2>6. Further(vs, U, rank, s, f[n][t], K)
      BY <1>0, <2>2, <2>5, FurtherTwice
    <2> QED
      BY <2>3, <2>6
  <1> HIDE DEF G
  <1>4. nodes \in G
    BY <1>2, <1>3, SubsetInduction
  <1> QED
    BY <1>0, <1>1, <1>4, ThroughRemembers DEF G

(* One more node after those below it.                                     *)
LEMMA FurtherAdded ==
  ASSUME IsSatSet, NEW vs, NEW U, NEW rank, NEW s \in Sats, NEW t, NEW u, NEW n, NEW lit, NEW K,
         Further(vs, U, rank, s, t, K), Added(t, u, n, lit), SatRight(vs, u, U),
         n \notin DOMAIN t.m, rank[n] <= K, Own(n) => s.last < lit
  PROVE  Further(vs, U, rank, s, u, K) /\ n \in DOMAIN u.m
  <1>1. /\ u.last = t.last /\ u.nvars = t.nvars /\ DOMAIN u.m = DOMAIN t.m \cup {n}
        /\ \A k \in DOMAIN t.m : u.m[k] = t.m[k]
        /\ u.m[n] = lit
    BY DEF Added
  <1>2. Grown(s, t) /\ \A k \in DOMAIN t.m : k \notin DOMAIN s.m => rank[k] <= K
    BY DEF Further
  <1>3. Grown(s, u)
    BY <1>1, <1>2 DEF Grown
  <1> QED
    BY <1>1, <1>2, <1>3 DEF Further

(* A number taken for a gate changes nothing yet. *)
LEMMA NewLitFurther ==
  ASSUME IsNodeSet, IsSatSet, backend \in Backends,
         NEW vs, NEW U, NEW rank, NEW K, NEW s, SatRight(vs, s, U)
  PROVE  /\ Further(vs, U, rank, s, NewLit(s), K)
         /\ NewLit(s) \in Sats /\ NewLit(s).m = s.m /\ NewLit(s).last = s.last + 1
  <1> DEFINE r == NewLit(s)
  <1>1. s \in Sats
    BY DEF SatRight
  <1>2. /\ r \in Sats /\ r.last = s.last + 1 /\ s.nvars <= r.nvars
        /\ r.clauses = s.clauses /\ r.m = s.m
    BY <1>1, NewLitRight
  <1>3. s.last \in Nat
    BY <1>1, SatParts
  <1> HIDE DEF r
  <1>4. \A i : i \in 1 .. s.last => i \in 1 .. r.last
    BY <1>2, <1>3
  <1>5. MemoRight(vs, r)
    BY <1>2, <1>4 DEF SatRight, MemoRight
  <1>6. SatRight(vs, r, U)
    BY <1>2, <1>4, <1>5 DEF SatRight
  <1>7. Grown(s, r)
    BY <1>2, <1>3 DEF Grown
  <1> QED
    BY <1>2, <1>6, <1>7 DEF Further, r

(* The number that was taken is no variable's and no other node's. *)
LEMMA NewNumberSuits ==
  ASSUME IsNodeSet, IsSatSet, NEW vs, NEW U, NEW s, SatRight(vs, s, U),
         NEW t, SatRight(vs, t, U), s.last + 1 <= t.last,
         \A k \in DOMAIN t.m : Own(k) =>
            \/ k \in DOMAIN s.m /\ t.m[k] = s.m[k]
            \/ s.last + 1 < t.m[k],
         NEW n, Own(n)
  PROVE  Suits(vs, t, n, s.last + 1)
  <1>1. s.last \in Nat /\ t.last \in Nat
    BY SatParts DEF SatRight
  <1>2. s.last + 1 \in 1 .. t.last
    BY <1>1
  <1>3. s.last + 1 \notin vs
    BY <1>1 DEF SatRight
  <1>4. ASSUME NEW k \in DOMAIN t.m, Own(k) PROVE t.m[k] # s.last + 1
    <2>1. CASE k \in DOMAIN s.m /\ t.m[k] = s.m[k]
      <3>1. s.m[k] \in 1 .. s.last
        BY <1>4, <2>1 DEF SatRight, MemoRight
      <3> QED
        BY <1>1, <2>1, <3>1
    <2>2. CASE s.last + 1 < t.m[k]
      <3>1. t.m[k] \in Int
        BY SatParts DEF SatRight
      <3> QED
        BY <1>1, <2>2, <3>1
    <2> QED
      BY <1>4, <2>1, <2>2
  <1> QED
    BY <1>2, <1>3, <1>4 DEF Suits, Own

(* What EncodeConst and EncodeGate add. *)
LEMMA ConstAdded ==
  ASSUME IsNodeSet, IsSatSet, NEW t \in Sats, NEW n \in Node, IsConst(n), n \notin DOMAIN t.m
  PROVE  Added(t, EncodeConst(t, n), n, t.last)
  <1> DEFINE cs == {{IF n = TrueNode THEN t.last ELSE - t.last}}
             u == AddClauses(t, cs)
  <1>1. t.last \in Int /\ cs \in SUBSET (SUBSET Int)
    BY SatParts
  <1>2. u \in Sats /\ u.last = t.last /\ u.nvars = t.nvars /\ u.clauses = t.clauses \cup cs /\ u.m = t.m
    BY <1>1, AddClausesRight
  <1>3. EncodeConst(t, n) = Encoded(u, n, t.last)
    BY <1>2 DEF EncodeConst
  <1>4. cs = ClausesFor(n, t.last, {t.m[o] : o \in Children(n)})
    <2>1. FalseNode # TrueNode /\ Type(n) \notin Gates
      BY ConstNodes, Shape DEF Gates
    <2>2. CASE n = TrueNode
      BY <2>1, <2>2 DEF ClausesFor
    <2>3. CASE n = FalseNode
      BY <2>1, <2>3 DEF ClausesFor
    <2> QED
      BY <2>2, <2>3 DEF IsConst
  <1> HIDE DEF cs, u
  <1> QED
    BY <1>1, <1>2, <1>3, <1>4, EncodedRight DEF Added

LEMMA GateAdded ==
  ASSUME IsNodeSet, IsSatSet, NEW t \in Sats, NEW n \in Node, Type(n) \in Gates, n \notin DOMAIN t.m,
         Operands(n) \subseteq DOMAIN t.m, NEW r \in Int
  PROVE  Added(t, EncodeGate(t, n, r), n, r)
  <1> DEFINE cs == GateClauses(Type(n), r, {t.m[o] : o \in Operands(n)})
             u == AddClauses(t, cs)
  <1>1. {t.m[o] : o \in Operands(n)} \in SUBSET Int
    BY SatParts
  <1>2. cs \in SUBSET (SUBSET Int)
    BY <1>1, GateClausesType
  <1>3. u \in Sats /\ u.last = t.last /\ u.nvars = t.nvars /\ u.clauses = t.clauses \cup cs /\ u.m = t.m
    BY <1>2, AddClausesRight
  <1>4. EncodeGate(t, n, r) = Encoded(u, n, r)
    BY DEF EncodeGate
  <1>5. cs = ClausesFor(n, r, {t.m[o] : o \in Children(n)})
    <2>1. n # TrueNode /\ n # FalseNode /\ Children(n) = Operands(n)
      BY ChildrenOf, Shape, ConstNodes DEF Gates, IsConst
    <2> QED
      BY <2>1 DEF ClausesFor
  <1> HIDE DEF cs, u
  <1> QED
    BY <1>3, <1>4, <1>5, EncodedRight DEF Added

(* A node is encoded as it should be when those below it are. *)
LEMMA EncodedByRight ==
  ASSUME IsNodeSet, IsSatSet, backend \in Backends, NEW rank, Ranked(Node, rank),
         NEW vs, NEW U, NEW n \in Node, VarsOf(n) \subseteq vs,
         NEW f, \A o \in Children(n) : Remembers(f[o], o) /\ Encodes(vs, U, rank, f[o], o),
         NEW s, SatRight(vs, s, U)
  PROVE  /\ Further(vs, U, rank, s, EncodedBy(f, n, s), rank[n])
         /\ n \in DOMAIN EncodedBy(f, n, s).m
  <1> DEFINE Fits(u) == Further(vs, U, rank, s, u, rank[n]) /\ n \in DOMAIN u.m
             K == rank[n]
  <1>0. SUFFICES Fits(EncodedBy(f, n, s))
    OBVIOUS
  <1>1. s \in Sats /\ s.last \in Nat /\ K \in Nat
    BY SatParts DEF SatRight, Ranked
  <1>2. Further(vs, U, rank, s, s, K)
    BY FurtherNot
  <1>3. CASE n \in DOMAIN s.m
    BY <1>2, <1>3, EncodedByCases
  <1>4. CASE n \notin DOMAIN s.m /\ IsConst(n)
    <2> DEFINE t == NewLit(s)
               u == EncodeConst(t, n)
    <2>1. /\ Further(vs, U, rank, s, t, K)
          /\ t \in Sats /\ t.m = s.m /\ t.last = s.last + 1
      BY NewLitFurther
    <2>2. SatRight(vs, t, U)
      BY <2>1 DEF Further
    <2>3. Type(n) # "LITERAL" /\ Type(n) # "NEGATION" /\ Children(n) = {}
      BY <1>4, Shape, ChildrenOf
    <2>4. Suits(vs, t, n, s.last + 1)
      BY <1>1, <2>1, <2>2, <2>3, NewNumberSuits DEF Own
    <2>5. Added(t, u, n, s.last + 1)
      BY <1>4, <2>1, ConstAdded
    <2>6. SatRight(vs, u, U)
      BY <1>4, <2>1, <2>2, <2>3, <2>4, <2>5, AddedRight
    <2>7. Fits(u)
      <3>1. n \notin DOMAIN t.m /\ K <= K /\ s.last < s.last + 1
        BY <1>1, <1>4, <2>1
      <3> HIDE DEF t, u
      <3> QED
        BY <1>1, <2>1, <2>5, <2>6, <3>1, FurtherAdded
    <2> QED
      BY <1>4, <2>7, EncodedByCases
  <1>5. CASE n \notin DOMAIN s.m /\ Type(n) = "LITERAL"
    <2> DEFINE u == Encoded(s, n, Signed(n))
    <2>1. Signed(n) \in Int
      BY <1>5, Shape DEF Signed
    <2>2. Children(n) = {}
      BY <1>5, ChildrenOf
    <2>3. n # TrueNode /\ n # FalseNode /\ Type(n) \notin Gates /\ ~ Own(n) /\ Type(n) # "NEGATION"
      BY <1>5, Shape DEF Gates, IsConst, Own
    <2>4. ClausesFor(n, Signed(n), {s.m[o] : o \in Children(n)}) = {}
      BY <2>3 DEF ClausesFor
    <2>5. Added(s, u, n, Signed(n))
      BY <1>1, <1>5, <2>1, <2>4, EncodedRight DEF Added
    <2>6. Suits(vs, s, n, Signed(n))
      BY <2>3 DEF Suits
    <2>7. SatRight(vs, u, U)
      BY <1>5, <2>2, <2>5, <2>6, AddedRight
    <2>8. Fits(u)
      BY <1>1, <1>2, <1>5, <2>3, <2>5, <2>7, FurtherAdded
    <2> QED
      BY <1>5, <2>8, EncodedByCases DEF Signed
  <1>6. CASE n \notin DOMAIN s.m /\ Type(n) = "NEGATION"
    <2> DEFINE o == Operand(n)
               t == f[o][s]
               lit == - t.m[o]
               u == Encoded(t, n, lit)
    <2>1. Children(n) = {o} /\ o \in Node /\ rank[o] < rank[n] /\ rank[o] \in Nat
      BY <1>6, ChildrenOf DEF Ranked
    <2>2. Further(vs, U, rank, s, t, rank[o]) /\ o \in DOMAIN t.m
      BY <2>1 DEF Encodes
    <2>3. SatRight(vs, t, U) /\ t \in Sats /\ DOMAIN t.m \in SUBSET Node
      BY <2>2, SatParts DEF Further, SatRight
    <2>4. \A k \in DOMAIN t.m : k \notin DOMAIN s.m => rank[k] < rank[n]
      BY <1>1, <2>1, <2>2, <2>3 DEF Further, Ranked
    <2>5. Further(vs, U, rank, s, t, K)
      BY <1>1, <2>2, <2>3, <2>4 DEF Further, Ranked
    <2>6. n \notin DOMAIN t.m
      BY <1>1, <1>6, <2>4
    <2>7. lit \in Int
      BY <2>2, <2>3, SatParts
    <2>8. n # TrueNode /\ n # FalseNode /\ Type(n) \notin Gates /\ ~ Own(n) /\ Type(n) # "LITERAL"
      BY <1>6, Shape DEF Gates, IsConst, Own
    <2>9. ClausesFor(n, lit, {t.m[k] : k \in Children(n)}) = {}
      BY <2>8 DEF ClausesFor
    <2>10. Suits(vs, t, n, lit)
      BY <2>8 DEF Suits
    <2> HIDE DEF lit, t
    <2>11. Added(t, u, n, lit)
      BY <2>3, <2>6, <2>7, <2>9, EncodedRight DEF Added
    <2>12. SatRight(vs, u, U)
      BY <2>1, <2>2, <2>3, <2>6, <2>10, <2>11, AddedRight
    <2>13. Fits(u)
      BY <1>1, <2>5, <2>6, <2>8, <2>11, <2>12, FurtherAdded
    <2> QED
      BY <1>6, <2>13, EncodedByCases DEF lit, t
  <1>7. CASE n \notin DOMAIN s.m /\ Type(n) \in Gates
    <2> DEFINE r == NewLit(s)
               ops == Operands(n)
               t == Through(f, r, ops)
               lit == s.last + 1
               u == EncodeGate(t, n, lit)
    <2>1. /\ ops = Children(n) /\ ops \in SUBSET Node /\ IsFiniteSet(ops) /\ ops # {}
          /\ Own(n) /\ Type(n) # "NEGATION"
      BY <1>7, ChildrenOf, Shape DEF Gates, Own
    <2>2. \A o \in ops : rank[o] \in Nat /\ rank[o] < K
      BY <2>1 DEF Ranked
    <2>3. K - 1 \in Nat /\ \A o \in ops : rank[o] <= K - 1
      BY <1>1, <2>1, <2>2
    <2>4. /\ Further(vs, U, rank, s, r, K - 1)
          /\ r \in Sats /\ r.m = s.m /\ r.last = lit
      BY NewLitFurther
    <2>5. /\ Further(vs, U, rank, r, t, K - 1)
          /\ ops \cup DOMAIN r.m \subseteq DOMAIN t.m
      <3>1. SatRight(vs, r, U)
        BY <2>4 DEF Further
      <3>2. \A o \in ops : Remembers(f[o], o) /\ Encodes(vs, U, rank, f[o], o)
        BY <2>1
      <3>3. rank \in [Node -> Nat]
        BY DEF Ranked
      <3> HIDE DEF r, ops, K
      <3> QED
        BY <2>1, <2>3, <3>1, <3>2, <3>3, ThroughRight
    <2> HIDE DEF r, t
    <2>6. Further(vs, U, rank, s, t, K - 1)
      BY <1>1, <2>4, <2>5, FurtherTwice
    <2>7. SatRight(vs, t, U) /\ t \in Sats /\ DOMAIN t.m \in SUBSET Node
      BY <2>6, SatParts DEF Further, SatRight
    <2>8. \A k \in DOMAIN t.m : k \notin DOMAIN s.m => rank[k] \in Nat /\ rank[k] <= K - 1
      BY <2>6, <2>7 DEF Further, Ranked
    <2>9. Further(vs, U, rank, s, t, K) /\ n \notin DOMAIN t.m
      BY <1>1, <1>7, <2>6, <2>8 DEF Further
    <2>10. Suits(vs, t, n, lit)
      <3>1. lit <= t.last
        BY <2>4, <2>5 DEF Further, Grown
      <3>2. \A k \in DOMAIN t.m : Own(k) =>
                \/ k \in DOMAIN s.m /\ t.m[k] = s.m[k]
                \/ lit < t.m[k]
        BY <2>4, <2>5 DEF Further, Grown
      <3> QED
        BY <2>1, <2>7, <3>1, <3>2, NewNumberSuits
    <2>11. Added(t, u, n, lit)
      BY <1>1, <1>7, <2>5, <2>7, <2>9, GateAdded
    <2>12. SatRight(vs, u, U)
      BY <2>1, <2>5, <2>7, <2>9, <2>10, <2>11, AddedRight
    <2>13. Fits(u)
      BY <1>1, <2>9, <2>11, <2>12, FurtherAdded
    <2> QED
      BY <1>7, <2>13, EncodedByCases DEF t, r
  <1> HIDE DEF Fits
  <1> QED
    BY <1>3, <1>4, <1>5, <1>6, <1>7, Shape DEF Gates

(* The variables of what is below a node are variables of the node. *)
LEMMA ChildVars ==
  ASSUME IsNodeSet, NEW n \in Node
  PROVE  \A o \in Children(n) : VarsOf(o) \subseteq VarsOf(n)
  <1>1. CASE IsConst(n) \/ Type(n) = "LITERAL"
    BY <1>1, ChildrenOf
  <1>2. CASE Type(n) = "NEGATION"
    BY <1>2, ChildrenOf, VarsOfCases
  <1>3. CASE Type(n) \in Gates
    BY <1>3, ChildrenOf, VarsOfCases
  <1> QED
    BY <1>1, <1>2, <1>3, Shape DEF Gates

(* Encoding encodes every node over the variables vs. *)
LEMMA EncodingRight ==
  ASSUME IsNodeSet, IsSatSet, backend \in Backends, NEW rank, Ranked(Node, rank), NEW vs, NEW U
  PROVE  \A n \in Node : VarsOf(n) \subseteq vs =>
            Remembers(Encoding[n], n) /\ Encodes(vs, U, rank, Encoding[n], n)
  <1> DEFINE Right(n) == Remembers(Encoding[n], n) /\ Encodes(vs, U, rank, Encoding[n], n)
             S == {n \in Node : VarsOf(n) \subseteq vs => Right(n)}
  <1>1. ASSUME NEW n \in Node, \A o \in Children(n) : o \in S, VarsOf(n) \subseteq vs
        PROVE  Right(n)
    <2>1. \A o \in Children(n) : VarsOf(o) \subseteq VarsOf(n)
      BY ChildVars
    <2> HIDE DEF Right
    <2>2. \A o \in Children(n) : Right(o)
      BY <1>1, <2>1
    <2>3. \A o \in Children(n) : Remembers(Encoding[o], o) /\ Encodes(vs, U, rank, Encoding[o], o)
      BY <2>2 DEF Right
    <2>4. ASSUME NEW s, SatRight(vs, s, U)
          PROVE  /\ Further(vs, U, rank, s, Encoding[n][s], rank[n])
                 /\ n \in DOMAIN Encoding[n][s].m
      <3>1. s \in Sats
        BY <2>4 DEF SatRight
      <3>2. Encoding[n][s] = EncodedBy(Encoding, n, s)
        BY <3>1, EncodingEqs
      <3>3. /\ Further(vs, U, rank, s, EncodedBy(Encoding, n, s), rank[n])
            /\ n \in DOMAIN EncodedBy(Encoding, n, s).m
        BY <1>1, <2>3, <2>4, EncodedByRight
      <3> QED
        BY <3>2, <3>3
    <2>5. Encodes(vs, U, rank, Encoding[n], n)
      BY <2>4 DEF Encodes
    <2> QED
      BY <2>5, EncodingEqs DEF Right
  <1> HIDE DEF Right
  <1>2. \A n \in Node : (\A o \in Children(n) : o \in S) => n \in S
    BY <1>1
  <1> HIDE DEF S
  <1>3. \A n \in Node : n \in S
    BY <1>2, NodeInduction
  <1> QED
    BY <1>3 DEF S, Right

(* The nodes of a cut or a constraint are encoded and nothing is lost.     *)
Kept(s, t) ==
    /\ s.nvars <= t.nvars
    /\ \A k \in DOMAIN s.m : k \in DOMAIN t.m /\ t.m[k] = s.m[k]

LEMMA EncodeRight ==
  ASSUME IsNodeSet, IsSatSet, backend \in Backends, NEW vs, NEW U,
         NEW n \in Node, VarsOf(n) \subseteq vs, NEW s, SatRight(vs, s, U)
  PROVE  SatRight(vs, Encode(s, n), U) /\ Kept(s, Encode(s, n)) /\ n \in DOMAIN Encode(s, n).m
  <1> PICK rank : Ranked(Node, rank)
    BY DEF IsNodeSet, NodeSet
  <1>1. Encodes(vs, U, rank, Encoding[n], n)
    BY EncodingRight
  <1> QED
    BY <1>1 DEF Encodes, Encode, Further, Grown, Kept

LEMMA EncodeAllRight ==
  ASSUME IsNodeSet, IsSatSet, backend \in Backends, NEW vs, NEW U,
         NEW nodes \in SUBSET Node, IsFiniteSet(nodes), \A n \in nodes : VarsOf(n) \subseteq vs,
         NEW s, SatRight(vs, s, U)
  PROVE  /\ SatRight(vs, EncodeAll(s, nodes), U) /\ Kept(s, EncodeAll(s, nodes))
         /\ nodes \subseteq DOMAIN EncodeAll(s, nodes).m
         /\ (\A n \in nodes : Type(n) = "LITERAL") =>
                \A k \in DOMAIN EncodeAll(s, nodes).m : k \in DOMAIN s.m \/ Type(k) = "LITERAL"
  <1> PICK rank : Ranked(Node, rank)
    BY DEF IsNodeSet, NodeSet
  <1> DEFINE t == EncodeAll(s, nodes)
             lowest == [n \in Node |-> IF Type(n) = "LITERAL" THEN 0 ELSE rank[n] + 1]
             G == {S \in SUBSET nodes : \E K \in Nat : \A n \in S : rank[n] <= K}
  <1>1. \A S \in SUBSET nodes : S \in G
    <2>1. {} \in G
      OBVIOUS
    <2>2. ASSUME NEW S \in SUBSET nodes, S # {}, S \ {Chosen(S)} \in G PROVE S \in G
      <3>1. PICK K \in Nat : \A n \in S \ {Chosen(S)} : rank[n] <= K
        BY <2>2
      <3>2. Chosen(S) \in S
        BY <2>2 DEF Chosen
      <3>3. \A n \in S : rank[n] \in Nat
        BY DEF Ranked
      <3>4. K + rank[Chosen(S)] \in Nat /\ \A n \in S : rank[n] <= K + rank[Chosen(S)]
        BY <3>1, <3>2, <3>3
      <3> QED
        BY <3>4
    <2> HIDE DEF G
    <2> QED
      BY <2>1, <2>2, SubsetInduction
  <1>2. PICK K \in Nat : \A n \in nodes : rank[n] <= K
    BY <1>1
  <1>3. /\ Further(vs, U, rank, s, t, K)
        /\ nodes \cup DOMAIN s.m \subseteq DOMAIN t.m
    <2>1. \A n \in nodes : Remembers(Encoding[n], n) /\ Encodes(vs, U, rank, Encoding[n], n)
      BY EncodingRight
    <2>2. rank \in [Node -> Nat]
      BY DEF Ranked
    <2> QED
      BY <1>2, <2>1, <2>2, ThroughRight DEF EncodeAll
  <1>4. ASSUME \A n \in nodes : Type(n) = "LITERAL"
        PROVE  \A k \in DOMAIN t.m : k \in DOMAIN s.m \/ Type(k) = "LITERAL"
    <2>1. Ranked(Node, lowest)
      <3>1. lowest \in [Node -> Nat]
        BY DEF Ranked
      <3>2. ASSUME NEW n \in Node, NEW o \in Children(n) PROVE lowest[o] < lowest[n]
        <4>1. Type(n) # "LITERAL" /\ o \in Node
          BY ChildrenOf
        <4>2. rank[o] \in Nat /\ rank[n] \in Nat /\ rank[o] < rank[n]
          BY <4>1 DEF Ranked
        <4> QED
          BY <4>1, <4>2
      <3> QED
        BY <3>1, <3>2 DEF Ranked
    <2>2. \A n \in nodes : lowest[n] <= 0
      BY <1>4
    <2>3. \A k \in Node : lowest[k] <= 0 => Type(k) = "LITERAL"
      BY DEF Ranked
    <2> HIDE DEF lowest
    <2>4. \A n \in nodes : Remembers(Encoding[n], n) /\ Encodes(vs, U, lowest, Encoding[n], n)
      BY <2>1, EncodingRight
    <2>5. lowest \in [Node -> Nat] /\ 0 \in Nat
      BY <2>1 DEF Ranked
    <2>6. Further(vs, U, lowest, s, t, 0)
      BY <2>2, <2>4, <2>5, ThroughRight DEF EncodeAll
    <2>7. DOMAIN t.m \in SUBSET Node
      BY <2>6, SatParts DEF Further, SatRight
    <2> QED
      BY <2>3, <2>6, <2>7 DEF Further
  <1> HIDE DEF t
  <1>5. SatRight(vs, t, U) /\ Kept(s, t) /\ nodes \subseteq DOMAIN t.m
    BY <1>3 DEF Further, Grown, Kept
  <1> QED
    BY <1>4, <1>5 DEF t

-----------------------------------------------------------------------------
(* The literal l is true in f. *)
Says(f, l) == f[Abs(l)] = (l > 0)
(* f has a value for the number of l. *)
Valued(f, l) == l \in Int /\ l # 0 /\ Abs(l) \in DOMAIN f /\ f[Abs(l)] \in BOOLEAN

(* The literal with the other sign says the opposite.                      *)
LEMMA Opposite ==
  ASSUME NEW f, NEW l, Valued(f, l)
  PROVE  /\ Says(f, - l) <=> ~ Says(f, l)
         /\ Valued(f, - l) /\ Abs(- l) = Abs(l) /\ - (- l) = l
  <1>1. l \in Int /\ l # 0 /\ f[Abs(l)] \in BOOLEAN
    BY DEF Valued
  <1>2. Abs(- l) = Abs(l) /\ (- l > 0) = ~ (l > 0) /\ - l \in Int /\ - l # 0 /\ - (- l) = l
    BY <1>1 DEF Abs
  <1>3. (l > 0) \in BOOLEAN
    OBVIOUS
  <1>4. Says(f, - l) <=> (f[Abs(l)] = ~ (l > 0))
    BY <1>2 DEF Says
  <1>5. (f[Abs(l)] = ~ (l > 0)) <=> ~ (f[Abs(l)] = (l > 0))
    BY <1>1, <1>3
  <1> QED
    BY <1>2, <1>4, <1>5 DEF Says, Valued

(* The clauses of a gate say that its number has the gate's value.         *)
LEMMA GateClausesRight ==
  ASSUME NEW f, NEW type \in Gates, NEW r, Valued(f, r),
         NEW lits, \A l \in lits : Valued(f, l)
  PROVE  (\A c \in GateClauses(type, r, lits) : Satisfied(c, f)) <=>
            (Says(f, r) <=> IF type = "AND" THEN \A l \in lits : Says(f, l)
                            ELSE \E l \in lits : Says(f, l))
  <1>1. \A c : Satisfied(c, f) <=> \E l \in c : Abs(l) \in DOMAIN f /\ Says(f, l)
    BY DEF Satisfied, Says
  <1>2. \A l \in lits \cup {r} :
            /\ Says(f, - l) <=> ~ Says(f, l)
            /\ Abs(- l) \in DOMAIN f /\ Abs(l) \in DOMAIN f /\ l \in Int
    <2> TAKE l \in lits \cup {r}
    <2>1. Valued(f, l)
      OBVIOUS
    <2>2. Abs(l) \in DOMAIN f /\ l \in Int
      BY <2>1 DEF Valued
    <2> QED
      BY <2>1, <2>2, Opposite
  <1>3. CASE type = "AND"
    <2>1. GateClauses(type, r, lits) =
            {{l, - r} : l \in lits} \cup {{- l : l \in lits} \cup {r}}
      <3>1. \A l \in lits \cup {r} : 1 * l = l /\ (- 1) * l = - l
        BY <1>2
      <3>2. {{1 * l, - 1 * r} : l \in lits} = {{l, - r} : l \in lits}
        BY <3>1
      <3>3. {- 1 * l : l \in lits} = {- l : l \in lits} /\ 1 * r = r
        BY <3>1
      <3> QED
        BY <1>3, <3>2, <3>3 DEF GateClauses
    <2>2. (\A c \in GateClauses(type, r, lits) : Satisfied(c, f)) <=>
            /\ \A l \in lits : Satisfied({l, - r}, f)
            /\ Satisfied({- l : l \in lits} \cup {r}, f)
      BY <2>1
    <2>3. \A l \in lits : Satisfied({l, - r}, f) <=> Says(f, l) \/ ~ Says(f, r)
      BY <1>1, <1>2
    <2>4. Satisfied({- l : l \in lits} \cup {r}, f) <=> (\E l \in lits : ~ Says(f, l)) \/ Says(f, r)
      BY <1>1, <1>2
    <2> QED
      BY <1>3, <2>2, <2>3, <2>4
  <1>4. CASE type = "OR"
    <2>1. GateClauses(type, r, lits) =
            {{- l, r} : l \in lits} \cup {lits \cup {- r}}
      <3>1. \A l \in lits \cup {r} : (- 1) * l = - l /\ - (- 1) * l = l
        BY <1>2
      <3>2. {{(- 1) * l, - (- 1) * r} : l \in lits} = {{- l, r} : l \in lits}
        BY <3>1
      <3>3. {- (- 1) * l : l \in lits} = lits /\ (- 1) * r = - r
        BY <3>1
      <3> QED
        BY <1>4, <3>2, <3>3 DEF GateClauses
    <2>2. (\A c \in GateClauses(type, r, lits) : Satisfied(c, f)) <=>
            /\ \A l \in lits : Satisfied({- l, r}, f)
            /\ Satisfied(lits \cup {- r}, f)
      BY <2>1
    <2>3. \A l \in lits : Satisfied({- l, r}, f) <=> ~ Says(f, l) \/ Says(f, r)
      BY <1>1, <1>2
    <2>4. Satisfied(lits \cup {- r}, f) <=> (\E l \in lits : Says(f, l)) \/ ~ Says(f, r)
      BY <1>1, <1>2
    <2> QED
      BY <1>4, <2>2, <2>3, <2>4
  <1> QED
    BY <1>3, <1>4 DEF Gates

(* Every number in use is a variable's or that of a gate or constant.      *)
LEMMA NumbersRight ==
  ASSUME IsNodeSet, IsSatSet, NEW s, NEW U, SatRight(vars, s, U),
         NEW f \in [Numbers(s) -> BOOLEAN], NEW n \in DOMAIN s.m
  PROVE  Valued(f, s.m[n])
  <1>1. MemoRight(vars, s) /\ s \in Sats /\ vars \subseteq 1 .. s.last
    BY DEF SatRight
  <1> DEFINE S == {k \in Node : k \in DOMAIN s.m => s.m[k] # 0}
  <1>2. \A k \in DOMAIN s.m : s.m[k] \in Int
    BY <1>1, SatParts
  <1>3. ASSUME NEW k \in Node, \A o \in Children(k) : o \in S PROVE k \in S
    <2> SUFFICES ASSUME k \in DOMAIN s.m PROVE s.m[k] # 0
      BY <1>3
    <2>1. CASE Own(k)
      BY <1>1, <2>1 DEF MemoRight
    <2>2. CASE Type(k) = "LITERAL"
      <3>1. LitVar(k) \in 1 .. s.last
        BY <1>1, <2>2, VarsOfCases DEF MemoRight
      <3>2. s.m[k] = Signed(k)
        BY <1>1, <2>2 DEF MemoRight
      <3> QED
        BY <3>1, <3>2 DEF Signed
    <2>3. CASE Type(k) = "NEGATION"
      <3>1. Operand(k) \in Children(k)
        BY <2>3, ChildrenOf
      <3>2. Operand(k) \in DOMAIN s.m /\ s.m[k] = - s.m[Operand(k)]
        BY <1>1, <2>3, <3>1 DEF MemoRight
      <3>3. s.m[Operand(k)] # 0 /\ s.m[Operand(k)] \in Int
        BY <1>2, <1>3, <3>1, <3>2
      <3> QED
        BY <3>2, <3>3
    <2> QED
      BY <2>1, <2>2, <2>3 DEF Own
  <1> HIDE DEF S
  <1>4. n \in S
    BY <1>1, <1>3, NodeInduction, SatParts
  <1>5. Abs(s.m[n]) \in Numbers(s)
    BY DEF Numbers
  <1> QED
    BY <1>2, <1>4, <1>5 DEF S, Valued

(* A node's clauses say that its number has its value when the numbers of  *)
(* those below it have theirs.                                             *)
LEMMA ClausesSay ==
  ASSUME IsNodeSet, IsSatSet, NEW s, NEW U, SatRight(vars, s, U),
         NEW f \in [Numbers(s) -> BOOLEAN], NEW n \in DOMAIN s.m, Own(n), NEW e,
         \A o \in Children(n) : Says(f, s.m[o]) <=> Holds(o, e)
  PROVE  (\A c \in ClausesOf(s.m, n) : Satisfied(c, f)) <=> (Says(f, s.m[n]) <=> Holds(n, e))
  <1> DEFINE r == s.m[n]
             lits == {s.m[o] : o \in Children(n)}
  <1>1. MemoRight(vars, s) /\ s \in Sats /\ n \in Node
    BY SatParts DEF SatRight
  <1>2. Valued(f, r)
    BY NumbersRight
  <1>3. \A o \in Children(n) : o \in DOMAIN s.m
    BY <1>1 DEF MemoRight
  <1>4. \A l \in lits : Valued(f, l)
    BY <1>3, NumbersRight
  <1>5. CASE IsConst(n)
    <2>1. Abs(r) \in DOMAIN f /\ Abs(- r) \in DOMAIN f
      BY <1>2, Opposite DEF Valued
    <2>2. \A l : Satisfied({l}, f) <=> Abs(l) \in DOMAIN f /\ Says(f, l)
      BY DEF Satisfied, Says
    <2>3. (n = TrueNode \/ n = FalseNode) /\ TrueNode # FalseNode /\ Type(n) \notin Gates
      BY <1>1, <1>5, ConstNodes, Shape DEF IsConst, Gates
    <2>4. CASE n = TrueNode
      <3>1. ClausesOf(s.m, n) = {{r}}
        BY <2>3, <2>4 DEF ClausesOf, ClausesFor
      <3> QED
        BY <2>1, <2>2, <2>4, <3>1, ConstNodes
    <2>5. CASE n = FalseNode
      <3>1. ClausesOf(s.m, n) = {{- r}}
        BY <2>3, <2>5 DEF ClausesOf, ClausesFor
      <3>2. Says(f, - r) <=> ~ Says(f, r)
        BY <1>2, Opposite
      <3> QED
        BY <2>1, <2>2, <2>5, <3>1, <3>2, ConstNodes
    <2> QED
      BY <2>3, <2>4, <2>5
  <1>6. CASE Type(n) \in Gates
    <2>1. ~ IsConst(n) /\ Children(n) = Operands(n)
      BY <1>1, <1>6, Shape, ChildrenOf DEF Gates
    <2>2. ClausesOf(s.m, n) = GateClauses(Type(n), r, lits)
      BY <1>6, <2>1 DEF ClausesOf, ClausesFor, IsConst
    <2>3. (\A c \in GateClauses(Type(n), r, lits) : Satisfied(c, f)) <=>
            (Says(f, r) <=> IF Type(n) = "AND" THEN \A l \in lits : Says(f, l)
                            ELSE \E l \in lits : Says(f, l))
      <3> HIDE DEF r, lits
      <3> QED
        BY <1>2, <1>4, <1>6, GateClausesRight
    <2>4. Holds(n, e) <=> IF Type(n) = "AND" THEN \A l \in lits : Says(f, l)
                          ELSE \E l \in lits : Says(f, l)
      <3>1. CASE Type(n) = "AND"
        <4>1. Holds(n, e) <=> \A o \in Children(n) : Holds(o, e)
          BY <1>1, <2>1, <3>1, HoldsEqs
        <4> QED
          BY <3>1, <4>1
      <3>2. CASE Type(n) = "OR"
        <4>1. Holds(n, e) <=> \E o \in Children(n) : Holds(o, e)
          BY <1>1, <2>1, <3>2, HoldsEqs
        <4> QED
          BY <3>2, <4>1
      <3> QED
        BY <1>6, <3>1, <3>2 DEF Gates
    <2> QED
      BY <2>2, <2>3, <2>4
  <1> QED
    BY <1>1, <1>5, <1>6, Shape DEF Own, Gates

(* Literals and negations need no clauses.                                 *)
LEMMA SignsSay ==
  ASSUME IsNodeSet, IsSatSet, NEW s, NEW U, SatRight(vars, s, U),
         NEW f \in [Numbers(s) -> BOOLEAN], NEW n \in DOMAIN s.m, ~ Own(n), NEW e,
         \A v \in vars : f[v] = e[v],
         \A o \in Children(n) : Says(f, s.m[o]) <=> Holds(o, e)
  PROVE  ClausesOf(s.m, n) = {} /\ (Says(f, s.m[n]) <=> Holds(n, e))
  <1>1. MemoRight(vars, s) /\ s \in Sats /\ n \in Node /\ vars \subseteq 1 .. s.last /\ s.last \in Nat
    BY SatParts DEF SatRight
  <1>2. n # TrueNode /\ n # FalseNode /\ Type(n) \notin Gates
    BY <1>1, Shape DEF Gates, IsConst, Own
  <1>3. ClausesOf(s.m, n) = {}
    BY <1>2 DEF ClausesOf, ClausesFor
  <1>4. CASE Type(n) = "LITERAL"
    <2> DEFINE v == LitVar(n)
    <2>1. v \in vars /\ s.m[n] = Signed(n)
      BY <1>1, <1>4, VarsOfCases DEF MemoRight
    <2>2. v \in Nat /\ v > 0
      <3>1. \A x \in 1 .. s.last : x \in Nat /\ x > 0
        BY <1>1
      <3> QED
        BY <1>1, <2>1, <3>1
    <2>3. f[v] \in BOOLEAN /\ f[v] = e[v] /\ Positive(n) \in BOOLEAN
      BY <1>1, <1>4, <2>1, Shape DEF Numbers
    <2> HIDE DEF v
    <2>4. Abs(Signed(n)) = v /\ (Signed(n) > 0) = Positive(n)
      <3>1. CASE Positive(n)
        <4>1. Positive(n) = TRUE /\ Signed(n) = v
          BY <2>3, <3>1 DEF Signed, v
        <4>2. Abs(v) = v /\ (v > 0) = TRUE
          BY <2>2 DEF Abs
        <4> QED
          BY <4>1, <4>2
      <3>2. CASE ~ Positive(n)
        BY <2>2, <2>3, <3>2 DEF Signed, Abs, v
      <3> QED
        BY <3>1, <3>2
    <2>5. Holds(n, e) <=> (e[v] = Positive(n))
      BY <1>1, <1>4, HoldsEqs DEF v
    <2> QED
      BY <1>3, <2>1, <2>3, <2>4, <2>5 DEF Says
  <1>5. CASE Type(n) = "NEGATION"
    <2> DEFINE o == Operand(n)
    <2>1. o \in Children(n)
      BY <1>1, <1>5, ChildrenOf
    <2>2. o \in DOMAIN s.m /\ s.m[n] = - s.m[o]
      BY <1>1, <1>5, <2>1 DEF MemoRight
    <2>3. Valued(f, s.m[o])
      BY <2>2, NumbersRight
    <2>4. Holds(n, e) <=> ~ Holds(o, e)
      BY <1>1, <1>5, HoldsEqs
    <2>5. Says(f, - s.m[o]) <=> ~ Says(f, s.m[o])
      BY <2>3, Opposite
    <2> QED
      BY <1>3, <2>1, <2>2, <2>4, <2>5
  <1> QED
    BY <1>4, <1>5 DEF Own

(* In a model the number of every node has the node's value.               *)
LEMMA ModelSays ==
  ASSUME IsNodeSet, IsSatSet, NEW s, NEW U, SatRight(vars, s, U), NEW f \in SatModels(s)
  PROVE  \A n \in DOMAIN s.m : Says(f, s.m[n]) <=> Holds(n, f)
  <1>1. /\ f \in [Numbers(s) -> BOOLEAN]
        /\ \A n \in DOMAIN s.m : \A c \in ClausesOf(s.m, n) : Satisfied(c, f)
    BY DEF SatModels, SatRight
  <1>2. MemoRight(vars, s) /\ \A n \in DOMAIN s.m : n \in Node
    BY SatParts DEF SatRight
  <1> DEFINE S == {n \in Node : n \in DOMAIN s.m => (Says(f, s.m[n]) <=> Holds(n, f))}
  <1>3. ASSUME NEW n \in Node, \A o \in Children(n) : o \in S, n \in DOMAIN s.m
        PROVE  Says(f, s.m[n]) <=> Holds(n, f)
    <2>1. \A o \in Children(n) : Says(f, s.m[o]) <=> Holds(o, f)
      BY <1>2, <1>3 DEF MemoRight
    <2>2. CASE Own(n)
      BY <1>1, <1>3, <2>1, <2>2, ClausesSay
    <2>3. CASE ~ Own(n)
      BY <1>1, <1>3, <2>1, <2>3, SignsSay
    <2> QED
      BY <2>2, <2>3
  <1> HIDE DEF S
  <1>4. \A n \in Node : (\A o \in Children(n) : o \in S) => n \in S
    BY <1>3 DEF S
  <1>5. \A n \in Node : n \in S
    BY <1>4, NodeInduction
  <1> QED
    BY <1>2, <1>5 DEF S

(* The units of the constraints C. *)
Units(s, C) == {{s.m[c]} : c \in C}

(* An assignment of the variables extends to the other numbers.            *)
LEMMA ModelExtends ==
  ASSUME IsNodeSet, IsSatSet, NEW s, NEW U, SatRight(vars, s, U), NEW e \in Valuations
  PROVE  \E f \in [Numbers(s) -> BOOLEAN] :
            /\ \A v \in vars : f[v] = e[v]
            /\ \A n \in DOMAIN s.m : Says(f, s.m[n]) <=> Holds(n, e)
            /\ \A n \in DOMAIN s.m : \A c \in ClausesOf(s.m, n) : Satisfied(c, f)
  <1> DEFINE of(x) == \E n \in DOMAIN s.m : Own(n) /\ s.m[n] = x /\ Holds(n, e)
             f == [x \in Numbers(s) |-> IF x \in vars THEN e[x] ELSE of(x)]
  <1>1. MemoRight(vars, s) /\ (\A n \in DOMAIN s.m : n \in Node) /\ vars \subseteq Numbers(s)
    BY SatParts DEF SatRight, Numbers
  <1>2. \A x : of(x) \in BOOLEAN
    OBVIOUS
  <1>3. \A v \in vars : e[v] \in BOOLEAN
    BY DEF Valuations
  <1>4. f \in [Numbers(s) -> BOOLEAN] /\ \A v \in vars : f[v] = e[v]
    <2> HIDE DEF of
    <2> QED
      BY <1>1, <1>2, <1>3
  <1>5. ASSUME NEW n \in DOMAIN s.m, Own(n) PROVE Says(f, s.m[n]) <=> Holds(n, e)
    <2>1. s.m[n] \in 1 .. s.last /\ s.m[n] \notin vars /\ s.last \in Nat
      BY <1>1, <1>5, SatParts DEF MemoRight, SatRight
    <2>2. s.m[n] > 0 /\ Abs(s.m[n]) = s.m[n]
      BY <2>1 DEF Abs
    <2>3. s.m[n] \in Numbers(s)
      BY <2>2 DEF Numbers
    <2>4. f[s.m[n]] = of(s.m[n])
      BY <2>1, <2>3
    <2>5. of(s.m[n]) <=> Holds(n, e)
      BY <1>1, <1>5 DEF MemoRight
    <2>6. (s.m[n] > 0) = TRUE
      BY <2>2
    <2> HIDE DEF of, f
    <2>7. Says(f, s.m[n]) <=> (of(s.m[n]) = TRUE)
      BY <2>2, <2>4, <2>6 DEF Says
    <2> QED
      BY <1>2, <2>5, <2>7
  <1> HIDE DEF f
  <1> DEFINE S == {n \in Node : n \in DOMAIN s.m => (Says(f, s.m[n]) <=> Holds(n, e))}
  <1>6. ASSUME NEW n \in Node, \A o \in Children(n) : o \in S, n \in DOMAIN s.m
        PROVE  Says(f, s.m[n]) <=> Holds(n, e)
    <2>1. \A o \in Children(n) : Says(f, s.m[o]) <=> Holds(o, e)
      BY <1>1, <1>6 DEF MemoRight
    <2>2. CASE Own(n)
      BY <1>5, <1>6, <2>2
    <2>3. CASE ~ Own(n)
      BY <1>4, <1>6, <2>1, <2>3, SignsSay
    <2> QED
      BY <2>2, <2>3
  <1> HIDE DEF S
  <1>7. \A n \in Node : (\A o \in Children(n) : o \in S) => n \in S
    BY <1>6 DEF S
  <1>8. \A n \in Node : n \in S
    BY <1>7, NodeInduction
  <1>9. \A n \in DOMAIN s.m : Says(f, s.m[n]) <=> Holds(n, e)
    BY <1>1, <1>8 DEF S
  <1>10. ASSUME NEW n \in DOMAIN s.m PROVE \A c \in ClausesOf(s.m, n) : Satisfied(c, f)
    <2>1. \A o \in Children(n) : Says(f, s.m[o]) <=> Holds(o, e)
      BY <1>1, <1>9 DEF MemoRight
    <2>2. CASE Own(n)
      BY <1>4, <1>9, <2>1, <2>2, ClausesSay
    <2>3. CASE ~ Own(n)
      BY <1>4, <2>1, <2>3, SignsSay
    <2> QED
      BY <2>2, <2>3
  <1> QED
    BY <1>4, <1>9, <1>10

(* Such an f is a model when the constraints allow e, and every model is   *)
(* one of an assignment they allow.                                        *)
LEMMA ModelOf ==
  ASSUME IsNodeSet, IsSatSet, NEW s, NEW C, C \subseteq DOMAIN s.m,
         SatRight(vars, s, Units(s, C)), NEW e \in Allow(C)
  PROVE  \E f \in SatModels(s) :
            /\ \A v \in vars : f[v] = e[v]
            /\ \A n \in DOMAIN s.m : Says(f, s.m[n]) <=> Holds(n, e)
  <1>0. e \in Valuations /\ \A c \in C : Holds(c, e)
    BY DEF Allow
  <1>1. PICK f \in [Numbers(s) -> BOOLEAN] :
            /\ \A v \in vars : f[v] = e[v]
            /\ \A n \in DOMAIN s.m : Says(f, s.m[n]) <=> Holds(n, e)
            /\ \A n \in DOMAIN s.m : \A c \in ClausesOf(s.m, n) : Satisfied(c, f)
    BY <1>0, ModelExtends
  <1>2. ASSUME NEW c \in C PROVE Satisfied({s.m[c]}, f)
    <2>1. Valued(f, s.m[c])
      BY NumbersRight
    <2>2. Says(f, s.m[c]) /\ Abs(s.m[c]) \in DOMAIN f
      BY <1>0, <1>1, <2>1 DEF Valued
    <2> QED
      BY <2>2 DEF Says, Satisfied
  <1>3. \A c \in s.clauses : Satisfied(c, f)
    BY <1>1, <1>2 DEF SatRight, Units
  <1>4. f \in SatModels(s)
    BY <1>3 DEF SatModels
  <1> QED
    BY <1>1, <1>4

LEMMA ModelAllowed ==
  ASSUME IsNodeSet, IsSatSet, NEW s, NEW C, C \subseteq DOMAIN s.m,
         SatRight(vars, s, Units(s, C)), NEW f \in SatModels(s)
  PROVE  /\ [v \in vars |-> f[v]] \in Allow(C)
         /\ \A n \in DOMAIN s.m :
                /\ Says(f, s.m[n]) <=> Holds(n, f)
                /\ Holds(n, f) <=> Holds(n, [v \in vars |-> f[v]])
  <1> DEFINE e == [v \in vars |-> f[v]]
  <1>1. f \in [Numbers(s) -> BOOLEAN] /\ (\A c \in s.clauses : Satisfied(c, f)) /\ vars \subseteq Numbers(s)
    BY DEF SatModels, Numbers
  <1>2. e \in Valuations /\ \A v \in vars : e[v] = f[v] /\ f[v] \in BOOLEAN
    BY <1>1 DEF Valuations
  <1> HIDE DEF e
  <1>3. ASSUME NEW n \in DOMAIN s.m
        PROVE  (Says(f, s.m[n]) <=> Holds(n, f)) /\ (Holds(n, f) <=> Holds(n, e))
    <2>1. n \in Node /\ VarsOf(n) \subseteq vars
      BY SatParts DEF SatRight, MemoRight
    <2>2. Defined(f, n) /\ \A v \in VarsOf(n) : e[v] = f[v]
      BY <1>2, <2>1 DEF Defined
    <2> QED
      BY <2>1, <2>2, HoldsAlike, ModelSays
  <1>4. ASSUME NEW c \in C PROVE Holds(c, e)
    <2>1. {s.m[c]} \in s.clauses
      BY DEF SatRight, Units
    <2>2. Says(f, s.m[c])
      BY <1>1, <2>1 DEF Satisfied, Says
    <2> QED
      BY <1>3, <2>2
  <1> QED
    BY <1>2, <1>3, <1>4 DEF Allow, e

-----------------------------------------------------------------------------
(* What Simplify's memo keeps: nodes that mean the same wherever the       *)
(* constraints hold.                                                       *)
SameWhere(C, n, k) ==
    /\ k \in Node /\ VarsOf(k) \subseteq VarsOf(n)
    /\ \A e \in Allow(C) : Holds(k, e) <=> Holds(n, e)
MemoSame ==
    \A n \in DOMAIN memo : n \in Node /\ VarsOf(n) \subseteq vars /\ SameWhere(constrs, n, memo[n])

(* The facts of the SAT solver are facts of the constraints.               *)
SatConstrs == constrs \subseteq DOMAIN sat.m /\ SatRight(vars, sat, Units(sat, constrs))

(* What get_val tells is so wherever the constraints hold.                 *)
LEMMA GetValRight ==
  ASSUME IsNodeSet, IsSatSet, SatConstrs,
         NEW c, NEW facts \in SUBSET FixedLiterals(c), NEW n, GetVal(n, facts) # Undefined,
         NEW e \in Allow(constrs)
  PROVE  Holds(n, e) <=> (GetVal(n, facts) = "TRUE")
  <1>1. PICK f \in SatModels(sat) : \A k \in DOMAIN sat.m : Says(f, sat.m[k]) <=> Holds(k, e)
    BY ModelOf DEF SatConstrs
  <1>2. \A l \in facts : Says(f, l)
    BY DEF FixedLiterals, Says
  <1>3. n \in DOMAIN sat.m /\ {sat.m[n], - sat.m[n]} \cap facts # {}
    BY DEF GetVal
  <1>4. GetVal(n, facts) = ValueOf(sat.m[n] \in facts)
    BY <1>3 DEF GetVal
  <1>5. Valued(f, sat.m[n])
    BY <1>3, NumbersRight DEF SatConstrs, SatModels
  <1>6. Says(f, - sat.m[n]) <=> ~ Says(f, sat.m[n])
    BY <1>5, Opposite
  <1>7. CASE sat.m[n] \in facts
    BY <1>1, <1>2, <1>3, <1>4, <1>7 DEF ValueOf
  <1>8. CASE sat.m[n] \notin facts
    <2>1. - sat.m[n] \in facts
      BY <1>3, <1>8
    <2>2. ~ Holds(n, e)
      BY <1>1, <1>2, <1>3, <1>6, <2>1
    <2>3. GetVal(n, facts) = "FALSE"
      BY <1>4, <1>8 DEF ValueOf
    <2> QED
      BY <2>2, <2>3
  <1> QED
    BY <1>7, <1>8

(* Simplified, operand by operand. *)
LEMMA SimplifiedEqs ==
  ASSUME IsNodeSet, MemoSame, NEW facts
  PROVE  \E h \in [Node -> Node] :
            /\ \A m \in Node : Simplified(m, facts) = h[m]
            /\ \A m \in Node :
                \/ GetVal(m, facts) # Undefined /\ h[m] = ConstNode(GetVal(m, facts) = "TRUE")
                \/ m \in DOMAIN memo /\ h[m] = memo[m]
                \/ (IsConst(m) \/ Type(m) = "LITERAL") /\ h[m] = m
                \/ Type(m) = "NEGATION" /\ h[m] = RebuildNot(m, h[Operand(m)])
                \/ Type(m) \in Gates /\ h[m] = PropagatedFrom(m, h)
  <1> DEFINE step(h) ==
        [m \in Node |->
            IF GetVal(m, facts) # Undefined THEN ConstNode(GetVal(m, facts) = "TRUE")
            ELSE IF m \in DOMAIN memo THEN memo[m]
            ELSE IF IsConst(m) \/ Type(m) = "LITERAL" THEN m
            ELSE IF Type(m) = "NEGATION" THEN RebuildNot(m, h[Operand(m)])
            ELSE PropagateUnits(m, {<<o, h[o]>> : o \in Operands(m)})]
      F == [h \in [Node -> Node] |-> step(h)]
      val == CHOOSE h : h = step(h)
      Step(h, m, r) ==
            \/ GetVal(m, facts) # Undefined /\ r = ConstNode(GetVal(m, facts) = "TRUE")
            \/ m \in DOMAIN memo /\ r = memo[m]
            \/ (IsConst(m) \/ Type(m) = "LITERAL") /\ r = m
            \/ Type(m) = "NEGATION" /\ r = RebuildNot(m, h[Operand(m)])
            \/ Type(m) \in Gates /\ r = PropagatedFrom(m, h)
  <1>1. ASSUME NEW h, NEW m \in Node PROVE Step(h, m, step(h)[m])
    <2>1. PropagatedFrom(m, h) = PropagateUnits(m, {<<o, h[o]>> : o \in Operands(m)})
      BY DEF PropagatedFrom
    <2>2. Type(m) \in Gates \/ Type(m) = "NEGATION" \/ IsConst(m) \/ Type(m) = "LITERAL"
      BY Shape DEF Gates
    <2>3. step(h)[m] =
            IF GetVal(m, facts) # Undefined THEN ConstNode(GetVal(m, facts) = "TRUE")
            ELSE IF m \in DOMAIN memo THEN memo[m]
            ELSE IF IsConst(m) \/ Type(m) = "LITERAL" THEN m
            ELSE IF Type(m) = "NEGATION" THEN RebuildNot(m, h[Operand(m)])
            ELSE PropagatedFrom(m, h)
      BY <2>1
    <2> HIDE DEF step
    <2> QED
      BY <2>2, <2>3
  <1>2. \A h : step(h) = [m \in Node |-> step(h)[m]]
    OBVIOUS
  <1>3. F = [h \in [Node -> Node] |-> step(h)]
    OBVIOUS
  <1>4. \A m : Simplified(m, facts) = val[m]
    BY DEF Simplified
  <1>5. ASSUME NEW h, h = step(h) PROVE val = step(val)
    BY <1>5
  <1>6. ASSUME NEW f, NEW g, NEW m \in Node,
               \A o \in Children(m) : f[o] = g[o]
        PROVE  step(f)[m] = step(g)[m]
    <2>1. CASE IsConst(m) \/ Type(m) = "LITERAL" \/ GetVal(m, facts) # Undefined \/ m \in DOMAIN memo
      BY <2>1
    <2>2. CASE Type(m) = "NEGATION"
      BY <1>6, <2>2, ChildrenOf
    <2>3. CASE Type(m) \in Gates
      <3>1. {<<o, f[o]>> : o \in Operands(m)} = {<<o, g[o]>> : o \in Operands(m)}
        BY <1>6, <2>3, ChildrenOf
      <3> QED
        BY <3>1, <2>3, Shape DEF Gates
    <2> QED
      BY <2>1, <2>2, <2>3, Shape DEF Gates
  <1> HIDE DEF step, F, val
  <1>7. ASSUME NEW h \in [Node -> Node], NEW m \in Node PROVE step(h)[m] \in Node
    <2> DEFINE r == step(h)[m]
    <2>1. Step(h, m, r)
      BY <1>1
    <2>2. Type(m) \in Gates => PropagatedFrom(m, h) \in Node
      <3>1. Type(m) \in Gates => \A o \in Operands(m) : h[o] \in Node
        BY Shape
      <3> QED
        BY <3>1, PropagateRight
    <2>3. Type(m) = "NEGATION" => RebuildNot(m, h[Operand(m)]) \in Node
      BY Shape, RebuildNotRight
    <2>4. (m \in DOMAIN memo => memo[m] \in Node)
            /\ ConstNode(GetVal(m, facts) = "TRUE") \in Node
      BY ConstNodes DEF MemoSame, SameWhere
    <2> HIDE DEF r
    <2>5. r \in Node
      BY <2>1, <2>2, <2>3, <2>4
    <2> QED
      BY <2>5 DEF r
  <1>8. F \in [[Node -> Node] -> [Node -> Node]]
    <2>1. \A h \in [Node -> Node] : step(h) \in [Node -> Node]
      BY <1>2, <1>7
    <2> QED
      BY <1>3, <2>1
  <1>9. PICK h \in [Node -> Node] : h = step(h)
    <2>1. \A f, g \in [Node -> Node], m \in Node :
            (\A o \in Children(m) : f[o] = g[o]) => F[f][m] = F[g][m]
      BY <1>3, <1>6
    <2>2. Node # {}
      BY ConstNodes
    <2>3. PICK h \in [Node -> Node] : h = F[h]
      BY <1>8, <2>1, <2>2, NodeFixpoint
    <2>4. h = step(h)
      BY <1>3, <2>3
    <2> QED
      BY <2>4
  <1>10. val = step(val)
    BY <1>5, <1>9
  <1>11. \A m \in Node : m \in {k \in Node : h[k] = val[k]}
    <2>1. ASSUME NEW m \in Node, \A o \in Children(m) : o \in {k \in Node : h[k] = val[k]}
          PROVE  h[m] = val[m]
      <3>1. step(h)[m] = step(val)[m]
        BY <1>6, <2>1
      <3> QED
        BY <1>9, <1>10, <3>1
    <2> QED
      BY <2>1, NodeInduction
  <1>12. \A m \in Node : Simplified(m, facts) = h[m]
    BY <1>4, <1>11
  <1>13. \A m \in Node : Step(h, m, h[m])
    BY <1>1, <1>9
  <1> HIDE DEF Step
  <1>14. h \in [Node -> Node] /\ \A m \in Node : Simplified(m, facts) = h[m] /\ Step(h, m, h[m])
    BY <1>12, <1>13
  <1> QED
    BY <1>14 DEF Step

(* Simplifying with facts and memo keeps what a circuit means wherever the *)
(* constraints hold.                                                       *)
LEMMA SimplifiedRight ==
  ASSUME IsNodeSet, IsSatSet, SatConstrs, MemoSame, NEW c, NEW facts \in SUBSET FixedLiterals(c),
         NEW n \in Node, VarsOf(n) \subseteq vars
  PROVE  SameWhere(constrs, n, Simplified(n, facts))
  <1> PICK h \in [Node -> Node] :
            /\ \A m \in Node : Simplified(m, facts) = h[m]
            /\ \A m \in Node :
                \/ GetVal(m, facts) # Undefined /\ h[m] = ConstNode(GetVal(m, facts) = "TRUE")
                \/ m \in DOMAIN memo /\ h[m] = memo[m]
                \/ (IsConst(m) \/ Type(m) = "LITERAL") /\ h[m] = m
                \/ Type(m) = "NEGATION" /\ h[m] = RebuildNot(m, h[Operand(m)])
                \/ Type(m) \in Gates /\ h[m] = PropagatedFrom(m, h)
    BY SimplifiedEqs
  <1> DEFINE S == {k \in Node : VarsOf(k) \subseteq vars => SameWhere(constrs, k, h[k])}
  <1>0. \A k \in Node, e \in Allow(constrs) : VarsOf(k) \subseteq vars => Defined(e, k)
    BY DEF Allow, Valuations, Defined
  <1>1. ASSUME NEW m \in Node, \A o \in Children(m) : o \in S, VarsOf(m) \subseteq vars
        PROVE  SameWhere(constrs, m, h[m])
    <2>1. CASE GetVal(m, facts) # Undefined /\ h[m] = ConstNode(GetVal(m, facts) = "TRUE")
      <3>1. VarsOf(h[m]) = {} /\ h[m] \in Node
        BY <2>1, ConstNodes
      <3>2. ASSUME NEW e \in Allow(constrs) PROVE Holds(h[m], e) <=> Holds(m, e)
        <4>1. Holds(m, e) <=> (GetVal(m, facts) = "TRUE")
          BY <2>1, GetValRight
        <4> QED
          BY <2>1, <4>1, ConstNodes
      <3> QED
        BY <3>1, <3>2 DEF SameWhere
    <2>2. CASE m \in DOMAIN memo /\ h[m] = memo[m]
      BY <2>2 DEF MemoSame
    <2>3. CASE (IsConst(m) \/ Type(m) = "LITERAL") /\ h[m] = m
      BY <2>3 DEF SameWhere
    <2>4. CASE Type(m) = "NEGATION" /\ h[m] = RebuildNot(m, h[Operand(m)])
      <3> DEFINE o == Operand(m)
      <3>1. o \in Node /\ VarsOf(m) = VarsOf(o) /\ h[o] \in Node /\ SameWhere(constrs, o, h[o])
        BY <1>1, <2>4, Shape, ChildrenOf, VarsOfCases
      <3>2. VarsOf(h[m]) = VarsOf(h[o]) /\ VarsOf(h[o]) \subseteq VarsOf(o)
        BY <2>4, <3>1, RebuildNotRight DEF SameWhere
      <3>3. ASSUME NEW e \in Allow(constrs) PROVE Holds(h[m], e) <=> Holds(m, e)
        <4>1. Defined(e, h[o])
          BY <1>0, <1>1, <3>1, <3>2
        <4>2. Holds(h[o], e) <=> Holds(o, e)
          BY <3>1 DEF SameWhere
        <4> QED
          BY <2>4, <3>1, <4>1, <4>2, RebuildNotRight
      <3> QED
        BY <3>1, <3>2, <3>3 DEF SameWhere
    <2>5. CASE Type(m) \in Gates /\ h[m] = PropagatedFrom(m, h)
      <3>1. /\ Operands(m) \in SUBSET Node
            /\ VarsOf(m) = UNION {VarsOf(o) : o \in Operands(m)}
            /\ \A o \in Operands(m) : SameWhere(constrs, o, h[o]) /\ VarsOf(h[o]) \subseteq VarsOf(o)
        <4>1. Operands(m) \in SUBSET Node /\ VarsOf(m) = UNION {VarsOf(o) : o \in Operands(m)}
                /\ Children(m) = Operands(m)
          BY <2>5, Shape, ChildrenOf, VarsOfCases
        <4> QED
          BY <1>1, <4>1 DEF SameWhere
      <3>2. VarsOf(h[m]) \subseteq UNION {VarsOf(h[o]) : o \in Operands(m)}
        BY <2>5, <3>1, PropagateRight
      <3>3. VarsOf(h[m]) \subseteq VarsOf(m)
        BY <3>1, <3>2
      <3>4. ASSUME NEW e \in Allow(constrs) PROVE Holds(h[m], e) <=> Holds(m, e)
        <4>1. ASSUME NEW o \in Operands(m)
              PROVE  Defined(e, h[o]) /\ (Holds(h[o], e) <=> Holds(o, e))
          <5>1. VarsOf(h[o]) \subseteq vars
            BY <1>1, <3>1
          <5> QED
            BY <1>0, <3>1, <5>1 DEF SameWhere
        <4> QED
          BY <2>5, <3>1, <4>1, PropagateRight
      <3> QED
        BY <3>3, <3>4 DEF SameWhere
    <2> QED
      BY <2>1, <2>2, <2>3, <2>4, <2>5
  <1>2. \A m \in Node : m \in S
    <2>1. \A m \in Node : (\A o \in Children(m) : o \in S) => m \in S
      BY <1>1
    <2> HIDE DEF S
    <2> QED
      BY <2>1, NodeInduction
  <1> QED
    BY <1>2

(* What Simplify visits has the variables of what it is called for.        *)
LEMMA VisitedRight ==
  ASSUME IsNodeSet, NEW facts, NEW n \in Node
  PROVE  \A k \in Visited(n, facts) : k \in Node /\ VarsOf(k) \subseteq VarsOf(n)
  <1> DEFINE step(h) ==
        [m \in Node |->
            IF GetVal(m, facts) # Undefined \/ m \in DOMAIN memo THEN {}
            ELSE {m} \cup UNION {h[o] : o \in Children(m)}]
             F == [h \in [Node -> SUBSET Node] |-> step(h)]
             val == CHOOSE h : h = step(h)
  <1>1. ASSUME NEW h \in [Node -> SUBSET Node], NEW m \in Node
        PROVE  step(h)[m] \in SUBSET Node
    BY ChildrenOf
  <1>2. F \in [[Node -> SUBSET Node] -> [Node -> SUBSET Node]]
    BY <1>1
  <1>3. ASSUME NEW f \in [Node -> SUBSET Node], NEW g \in [Node -> SUBSET Node], NEW m \in Node,
               \A o \in Children(m) : f[o] = g[o]
        PROVE  step(f)[m] = step(g)[m]
    <2>1. UNION {f[o] : o \in Children(m)} = UNION {g[o] : o \in Children(m)}
      BY <1>3
    <2> QED
      BY <2>1
  <1>4. PICK h \in [Node -> SUBSET Node] : h = step(h)
    <2>1. \A f \in [Node -> SUBSET Node] : F[f] = step(f)
      OBVIOUS
    <2> HIDE DEF F, step
    <2>2. \A f, g \in [Node -> SUBSET Node], m \in Node :
            (\A o \in Children(m) : f[o] = g[o]) => F[f][m] = F[g][m]
      BY <1>3, <2>1
    <2>3. PICK h \in [Node -> SUBSET Node] : h = F[h]
      BY <1>2, <2>2, NodeFixpoint
    <2> QED
      BY <2>1, <2>3
  <1>5. val = step(val)
    BY <1>4
  <1>6. Visited(n, facts) = val[n]
    BY DEF Visited
  <1>7. \A m \in Node : \A k \in val[m] : k = m \/ \E o \in Children(m) : k \in val[o]
    <2>1. \A w, m : m \in Node =>
                \A k \in step(w)[m] : k = m \/ \E o \in Children(m) : k \in w[o]
      OBVIOUS
    <2> HIDE DEF val, step
    <2> QED
      BY <1>5, <2>1
  <1> HIDE DEF val
  <1> DEFINE S == {m \in Node : \A k \in val[m] : k \in Node /\ VarsOf(k) \subseteq VarsOf(m)}
  <1>8. ASSUME NEW m \in Node, \A o \in Children(m) : o \in S PROVE m \in S
    <2>1. \A o \in Children(m) : VarsOf(o) \subseteq VarsOf(m)
      BY ChildVars
    <2> QED
      BY <1>7, <1>8, <2>1
  <1> HIDE DEF S
  <1>9. \A m \in Node : m \in S
    BY <1>8, NodeInduction
  <1> QED
    BY <1>6, <1>9 DEF S

-----------------------------------------------------------------------------
(* The moves below the level, and the cut found under them.                *)
LEMMA MovesRight ==
  ASSUME IsNodeSet, vars \subseteq Nat, IsFiniteSet(vars), NEW moves \in Moves
  PROVE  /\ IsFiniteSet(moves) /\ Consistent(moves)
         /\ \A n \in moves : n \in Node /\ Type(n) = "LITERAL" /\ VarsOf(n) \subseteq vars
  <1>0. PICK S \in SUBSET vars : \E e \in [S -> BOOLEAN] : moves = {Literal(v, e[v]) : v \in S}
    BY DEF Moves
  <1>1. PICK e \in [S -> BOOLEAN] : moves = {Literal(v, e[v]) : v \in S}
    BY <1>0
  <1>2. \A v \in Nat, b \in BOOLEAN :
            /\ Literal(v, b) \in Node /\ Type(Literal(v, b)) = "LITERAL"
            /\ LitVar(Literal(v, b)) = v /\ Positive(Literal(v, b)) = b
    BY DEF IsNodeSet, NodeSet, Literal, Type, LitVar, Positive
  <1>3. \A v \in S : v \in Nat /\ v \in vars /\ e[v] \in BOOLEAN
    OBVIOUS
  <1>4. \A n \in moves : n \in Node /\ Type(n) = "LITERAL" /\ VarsOf(n) \subseteq vars
    BY <1>1, <1>2, <1>3, VarsOfCases
  <1>5. Consistent(moves)
    <2> SUFFICES ASSUME NEW n \in moves, Complement(n) \in moves PROVE FALSE
      BY DEF Consistent
    <2>1. PICK v \in S : n = Literal(v, e[v])
      BY <1>1
    <2>2. PICK w \in S : Complement(n) = Literal(w, e[w])
      BY <1>1
    <2>3. LitVar(Complement(n)) = LitVar(n) /\ Positive(Complement(n)) = ~ Positive(n)
      BY <1>4, ComplementRight
    <2>4. w = v /\ e[w] = ~ e[v] /\ e[v] \in BOOLEAN
      BY <1>2, <1>3, <2>1, <2>2, <2>3
    <2> QED
      BY <2>4
  <1>6. IsFiniteSet(moves)
    <2> DEFINE g == [v \in S |-> Literal(v, e[v])]
    <2>1. IsFiniteSet(S)
      BY FS_Subset
    <2>2. {g[v] : v \in S} = moves
      BY <1>1
    <2> HIDE DEF g
    <2> QED
      BY <2>1, <2>2, FiniteImage
  <1> QED
    BY <1>4, <1>5, <1>6

(* The cut is made of nodes over the level's variables.                    *)
LEMMA CutRight ==
  ASSUME IsNodeSet, vars \subseteq Nat, IsFiniteSet(vars), find_cut \in {"last", "simple", "orig"},
         IsFiniteSet(constrs), \A c \in constrs : c \in Node /\ VarsOf(c) \subseteq vars,
         NEW moves \in Moves
  PROVE  /\ IsFiniteSet(Cut(moves))
         /\ \A n \in Cut(moves) : n \in Node /\ VarsOf(n) \subseteq vars
         /\ constrs = {} => \A n \in Cut(moves) : Type(n) = "LITERAL"
  <1>1. CASE find_cut = "last"
    <2>1. Cut(moves) = {MakeNot(c) : c \in constrs}
      BY <1>1 DEF Cut
    <2> DEFINE g == [c \in constrs |-> MakeNot(c)]
    <2>2. Cut(moves) = {g[c] : c \in constrs}
      BY <2>1
    <2> HIDE DEF g
    <2>3. IsFiniteSet(Cut(moves))
      BY <2>2, FiniteImage
    <2> QED
      BY <2>1, <2>3, MakeNotRight
  <1>2. CASE find_cut = "simple"
    <2>1. Cut(moves) = moves
      BY <1>2 DEF Cut
    <2> QED
      BY <2>1, MovesRight
  <1>3. CASE find_cut = "orig"
    <2>1. Cut(moves) = UNION {FindCut(c, moves) : c \in constrs}
      BY <1>3 DEF Cut
    <2>2. Consistent(moves)
      BY MovesRight
    <2>3. \A c \in constrs : /\ IsFiniteSet(FindCut(c, moves))
                             /\ \A n \in FindCut(c, moves) : n \in Node /\ VarsOf(n) \subseteq VarsOf(c)
      BY <2>2, FindCutKnown
    <2> DEFINE g == [c \in constrs |-> FindCut(c, moves)]
    <2>4. {g[c] : c \in constrs} = {FindCut(c, moves) : c \in constrs}
      OBVIOUS
    <2> HIDE DEF g
    <2>5. IsFiniteSet({FindCut(c, moves) : c \in constrs})
      BY <2>4, FiniteImage
    <2>6. IsFiniteSet(Cut(moves))
      <3>1. \A T \in {FindCut(c, moves) : c \in constrs} : IsFiniteSet(T)
        BY <2>3
      <3>2. IsFiniteSet(UNION {FindCut(c, moves) : c \in constrs})
        BY <2>5, <3>1, FS_UNION
      <3> QED
        BY <2>1, <3>2
    <2> QED
      BY <2>1, <2>3, <2>6
  <1> QED
    BY <1>1, <1>2, <1>3

(* A variable's own number, and the unit of a constraint.                  *)
LEMMA AllocRight ==
  ASSUME IsNodeSet, IsSatSet, backend \in Backends, NEW s \in Sats, NEW v \in Nat
  PROVE  /\ Alloc(s, v) \in Sats
         /\ s.last <= Alloc(s, v).last /\ v <= Alloc(s, v).last
         /\ s.nvars <= Alloc(s, v).nvars /\ v < ModelSize(Alloc(s, v).nvars)
         /\ Alloc(s, v).clauses = s.clauses /\ Alloc(s, v).m = s.m
  <1> DEFINE k == NewVariables(s.nvars, v)
             l == Max({s.last, v})
             M == Memos
             C == SUBSET (SUBSET Int)
  <1>1. Sats = [last : Nat, nvars : Nat, clauses : C, m : M]
    BY DEF IsSatSet, SatStates
  <1>2. s.last \in Nat /\ s.nvars \in Nat
    BY <1>1
  <1>3. k \in Nat /\ s.nvars <= k /\ v < ModelSize(k)
    BY <1>2, NewVariablesRight
  <1>4. l \in Nat /\ s.last <= l /\ v <= l
    <2>1. {s.last, v} \in SUBSET Int /\ {s.last, v} # {} /\ s.last + v \in Int
      BY <1>2
    <2>2. \A x \in {s.last, v} : x <= s.last + v
      BY <1>2
    <2>3. l \in {s.last, v} /\ \A x \in {s.last, v} : x <= l
      BY <2>1, <2>2, MaxRight
    <2> QED
      BY <1>2, <2>3
  <1>5. Alloc(s, v) = [[s EXCEPT !.last = l] EXCEPT !.nvars = k]
    BY <1>1 DEF Alloc
  <1> HIDE DEF k, l, M, C
  <1>6. /\ Alloc(s, v) \in Sats
        /\ Alloc(s, v).last = l /\ Alloc(s, v).nvars = k
        /\ Alloc(s, v).clauses = s.clauses /\ Alloc(s, v).m = s.m
    BY <1>1, <1>2, <1>3, <1>4, <1>5
  <1> QED
    BY <1>3, <1>4, <1>6

LEMMA UnitRight ==
  ASSUME IsNodeSet, IsSatSet, NEW vs, NEW U, NEW s, SatRight(vs, s, U), NEW n \in DOMAIN s.m,
         NEW cs, cs = {{s.m[n]}}
  PROVE  /\ SatRight(vs, AddClauses(s, cs), U \cup cs)
         /\ AddClauses(s, cs).m = s.m /\ AddClauses(s, cs).nvars = s.nvars
  <1> DEFINE t == AddClauses(s, cs)
  <1>1. s \in Sats /\ s.m[n] \in Int
    BY SatParts DEF SatRight
  <1>2. cs \in SUBSET (SUBSET Int)
    BY <1>1
  <1>3. t \in Sats /\ t.last = s.last /\ t.nvars = s.nvars /\ t.clauses = s.clauses \cup cs /\ t.m = s.m
    BY <1>1, <1>2, AddClausesRight
  <1> HIDE DEF t
  <1>4. MemoRight(vs, t)
    BY <1>3 DEF SatRight, MemoRight
  <1>5. SatRight(vs, t, U \cup cs)
    BY <1>3, <1>4 DEF SatRight
  <1> QED
    BY <1>3, <1>5 DEF t

(* Constraints that stay encoded keep their units. *)
LEMMA UnitsKept ==
  ASSUME NEW s, NEW t, NEW C, C \subseteq DOMAIN s.m, Kept(s, t)
  PROVE  Units(t, C) = Units(s, C)
BY DEF Units, Kept

-----------------------------------------------------------------------------
(* The inductive invariant. *)
Build == backend \in Backends /\ find_cut \in {"last", "simple", "orig"}
VarsKept == vars \subseteq Nat \ {0} /\ IsFiniteSet(vars)
ConstrsKept ==
    /\ IsFiniteSet(constrs)
    /\ \A c \in constrs \cup given : c \in Node /\ VarsOf(c) \subseteq vars
(* Variables are added while no gate has a number.                         *)
NoGates ==
    constrs = {} => given = {} /\ DOMAIN memo = {} /\ \A n \in DOMAIN sat.m : Type(n) = "LITERAL"
(* A model has a value for every variable's number.                        *)
VarsDeclared == \A v \in vars : v < ModelSize(sat.nvars)
CutKept == \A n \in Range(cut2id) : n \in Node /\ VarsOf(n) \subseteq vars

EncoderInv ==
    /\ Build /\ VarsKept /\ ConstrsKept /\ NoGates
    /\ SatConstrs /\ VarsDeclared
    /\ MemoSame /\ ConstrsFaithful
    /\ CutKept /\ AnswerDecoded

(* It holds of a new level solver.                                         *)
LEMMA EncoderInit ==
  ASSUME IsNodeSet, IsSatSet, Init
  PROVE  EncoderInv
  <1>1. Build /\ VarsKept /\ ConstrsKept
    <2>1. backend \in Backends /\ find_cut \in {"last", "simple", "orig"}
      BY BuildsAssumption DEF Init, Backends
    <2> QED
      BY <2>1, FS_EmptySet DEF Init, Build, VarsKept, ConstrsKept
  <1>2. DOMAIN sat.m = {} /\ sat.last = 0 /\ sat.clauses = {} /\ DOMAIN memo = {} /\ DOMAIN cut2id = {}
    BY DEF Init
  <1>3. sat \in Sats
    <2>1. <<>> \in [{} -> Int]
      OBVIOUS
    <2>2. <<>> \in Memos
      BY <2>1 DEF Memos
    <2> HIDE DEF Memos
    <2>3. {} \in SUBSET (SUBSET Int)
      OBVIOUS
    <2> QED
      BY <2>2, <2>3 DEF Init, IsSatSet, SatStates
  <1>4. SatConstrs
    <2>1. Units(sat, constrs) = {} /\ UNION {ClausesOf(sat.m, n) : n \in DOMAIN sat.m} = {}
      BY <1>2 DEF Units, Init
    <2>2. MemoRight(vars, sat)
      BY <1>2 DEF MemoRight
    <2>3. vars \subseteq 1 .. sat.last /\ constrs \subseteq DOMAIN sat.m
      BY DEF Init
    <2> QED
      BY <1>2, <1>3, <2>1, <2>2, <2>3 DEF SatConstrs, SatRight
  <1>5. NoGates /\ VarsDeclared /\ MemoSame
    BY <1>2 DEF Init, NoGates, VarsDeclared, MemoSame
  <1>6. ConstrsFaithful
    BY DEF Init, ConstrsFaithful
  <1>7. CutKept /\ AnswerDecoded
    BY <1>2 DEF Init, CutKept, AnswerDecoded, None, Range
  <1> QED
    BY <1>1, <1>4, <1>5, <1>6, <1>7 DEF EncoderInv

(* A new variable leaves an answer what it was. *)
LEMMA AnswerKept ==
  ASSUME IsNodeSet, AnswerDecoded, CutKept, constrs = {}, constrs' = {},
         UNCHANGED <<cut2id, answer>>, vars \subseteq vars'
  PROVE  AnswerDecoded'
  <1> DEFINE old == [v \in vars |-> Literal(v, TRUE) \in answer.move]
             new == [v \in vars' |-> Literal(v, TRUE) \in answer.move]
  <1>1. ASSUME answer.solved = "sat", NEW n \in Range(cut2id)
        PROVE  Holds(n, new)
    <2>1. n \in Node /\ VarsOf(n) \subseteq vars /\ Holds(n, old)
      BY <1>1 DEF CutKept, AnswerDecoded
    <2>2. Defined(old, n) /\ \A v \in VarsOf(n) : new[v] = old[v]
      <3> DEFINE true(v) == Literal(v, TRUE) \in answer.move
      <3>1. \A v : true(v) \in BOOLEAN
        OBVIOUS
      <3>2. old = [v \in vars |-> true(v)] /\ new = [v \in vars' |-> true(v)]
        OBVIOUS
      <3> HIDE DEF true, old, new
      <3>3. \A v \in vars : old[v] = true(v) /\ new[v] = true(v)
        BY <3>2
      <3> QED
        BY <2>1, <3>1, <3>3 DEF Defined
    <2> HIDE DEF old, new
    <2> QED
      BY <2>1, <2>2, HoldsAlike
  <1>2. ASSUME answer.solved = "unsat", NEW e \in [vars' -> BOOLEAN], \A n \in answer.core : Holds(n, e)
        PROVE  FALSE
    <2> DEFINE d == [v \in vars |-> e[v]]
    <2>1. d \in Valuations /\ \A v \in vars : d[v] = e[v] /\ e[v] \in BOOLEAN
      BY DEF Valuations
    <2> HIDE DEF d
    <2>2. \A n \in answer.core : n \in Node /\ VarsOf(n) \subseteq vars
      BY <1>2 DEF AnswerDecoded, CutKept
    <2>3. ASSUME NEW n \in answer.core PROVE Holds(n, d)
      <3>1. Defined(e, n) /\ \A v \in VarsOf(n) : d[v] = e[v]
        BY <2>1, <2>2 DEF Defined
      <3> QED
        BY <1>2, <2>2, <3>1, HoldsAlike
    <2>4. d \in Allow(constrs \cup answer.core)
      BY <2>1, <2>3 DEF Allow
    <2> QED
      BY <1>2, <2>4 DEF AnswerDecoded
  <1>3. answer.solved = "unsat" => answer.core \subseteq Range(cut2id)
    BY DEF AnswerDecoded
  <1>4. answer.solved = "unsat" => Allow(constrs \cup answer.core)' = {}
    <2>1. Valuations' = [vars' -> BOOLEAN] /\ answer' = answer
      BY DEF Valuations
    <2> QED
      BY <1>2, <2>1 DEF Allow
  <1>5. Range(cut2id)' = Range(cut2id)
    BY DEF Range
  <1> QED
    BY <1>1, <1>3, <1>4, <1>5 DEF AnswerDecoded

(* A variable is added before any gate has a number.                       *)
LEMMA AddVarKeeps ==
  ASSUME IsNodeSet, IsSatSet, EncoderInv, NEW v \in Variables, AddVar(v)
  PROVE  EncoderInv'
  <1> DEFINE t == Alloc(sat, v)
  <1>1. /\ constrs = {} /\ constrs' = {} /\ given = {} /\ given' = {} /\ vars' = vars \cup {v} /\ sat' = t
        /\ DOMAIN memo' = {} /\ v \in Nat /\ v # 0
    BY VariablesAssumption DEF AddVar, EncoderInv, NoGates
  <1>2. sat \in Sats /\ sat.last \in Nat /\ sat.nvars \in Nat
        /\ \A n \in DOMAIN sat.m : n \in Node /\ Type(n) = "LITERAL"
    BY <1>1, SatParts DEF EncoderInv, SatConstrs, SatRight, NoGates
  <1>3. /\ t \in Sats /\ sat.last <= t.last /\ v <= t.last
        /\ sat.nvars <= t.nvars /\ v < ModelSize(t.nvars)
        /\ t.clauses = sat.clauses /\ t.m = sat.m
    BY <1>1, <1>2, AllocRight DEF EncoderInv, Build
  <1> HIDE DEF t
  <1>4. Build' /\ VarsKept' /\ ConstrsKept' /\ NoGates' /\ MemoSame'
    <2>1. Build'
      BY DEF EncoderInv, Build, AddVar, level
    <2>2. VarsKept'
      BY <1>1, FS_AddElement DEF EncoderInv, VarsKept
    <2>3. ConstrsKept'
      BY <1>1, FS_EmptySet DEF ConstrsKept
    <2>4. NoGates' /\ MemoSame'
      BY <1>1, <1>2, <1>3 DEF NoGates, MemoSame
    <2> QED
      BY <2>1, <2>2, <2>3, <2>4
  <1>5. SatConstrs'
    <2>1. vars' \subseteq 1 .. t.last
      <3>1. t.last \in Nat
        BY <1>3, SatParts
      <3>2. vars \subseteq 1 .. sat.last
        BY DEF EncoderInv, SatConstrs, SatRight
      <3> QED
        BY <1>1, <1>2, <1>3, <3>1, <3>2
    <2>2. MemoRight(vars', t)
      <3>1. \A n \in DOMAIN sat.m : ~ Own(n)
        BY <1>2 DEF Own
      <3> QED
        BY <1>1, <1>3, <3>1 DEF EncoderInv, SatConstrs, SatRight, MemoRight
    <2>3. Units(t, {}) = {} /\ Units(sat, {}) = {}
      BY DEF Units
    <2>4. t.clauses = Units(t, {}) \cup UNION {ClausesOf(t.m, n) : n \in DOMAIN t.m}
      BY <1>1, <1>3, <2>3 DEF EncoderInv, SatConstrs, SatRight
    <2> QED
      BY <1>1, <1>3, <2>1, <2>2, <2>4 DEF SatConstrs, SatRight
  <1>6. VarsDeclared'
    <2>1. ModelSize(sat.nvars) <= ModelSize(t.nvars)
            /\ ModelSize(t.nvars) \in Nat /\ ModelSize(sat.nvars) \in Nat
      <3>1. t.nvars \in Nat
        BY <1>3, SatParts
      <3>2. sat.nvars <= sat.nvars
        BY <1>2
      <3> QED
        BY <1>2, <1>3, <3>1, <3>2, ModelSizeGrows
    <2>2. \A x \in vars' : x < ModelSize(t.nvars)
      <3>1. \A x \in vars : x \in Nat /\ x < ModelSize(sat.nvars)
        BY DEF EncoderInv, VarsDeclared, VarsKept
      <3> QED
        BY <1>1, <1>3, <2>1, <3>1
    <2>3. ModelSize(t.nvars) = ModelSize(sat.nvars)'
      BY <1>1 DEF ModelSize, AddVar, level
    <2> QED
      BY <2>2, <2>3 DEF VarsDeclared
  <1>7. ConstrsFaithful'
    BY <1>1 DEF ConstrsFaithful
  <1>8. UNCHANGED <<cut2id, answer>>
    BY DEF AddVar
  <1>9. CutKept'
    BY <1>1, <1>8 DEF EncoderInv, CutKept, Range
  <1>10. AnswerDecoded'
    BY <1>1, <1>8, AnswerKept DEF EncoderInv
  <1> QED
    BY <1>4, <1>5, <1>6, <1>7, <1>9, <1>10 DEF EncoderInv

(* A constraint is simplified, encoded and asserted.                       *)
LEMMA AddConstrKeeps ==
  ASSUME IsNodeSet, IsSatSet, EncoderInv, NEW c \in Constraints, AddConstr(c)
  PROVE  EncoderInv'
  <1>1. PICK facts \in SUBSET FixedLiterals(c) :
            LET strengthening == Simplified(c, facts)
                s == Encode(sat, strengthening)
            IN  /\ memo' = Joined(memo, [n \in Visited(c, facts) |-> Simplified(n, facts)])
                /\ constrs' = constrs \cup {strengthening}
                /\ sat' = AddClauses(s, {{s.m[strengthening]}})
    BY DEF AddConstr
  <1> DEFINE st == Simplified(c, facts)
             s == Encode(sat, st)
             t == AddClauses(s, {{s.m[st]}})
  <1>2. /\ memo' = Joined(memo, [n \in Visited(c, facts) |-> Simplified(n, facts)])
        /\ constrs' = constrs \cup {st}
        /\ sat' = t
    BY <1>1
  <1>3. /\ given' = given \cup {c} /\ answer' = None
        /\ vars' = vars /\ backend' = backend /\ find_cut' = find_cut /\ cut2id' = cut2id
        /\ c \in Node /\ VarsOf(c) \subseteq vars
    BY ConstraintsAssumption DEF AddConstr, level
  <1>4. /\ backend \in Backends /\ SatConstrs /\ MemoSame
        /\ constrs \subseteq DOMAIN sat.m /\ SatRight(vars, sat, Units(sat, constrs))
    BY DEF EncoderInv, Build, SatConstrs
  <1>5. \A n \in Node : VarsOf(n) \subseteq vars => SameWhere(constrs, n, Simplified(n, facts))
    BY <1>4, SimplifiedRight
  <1>6. SameWhere(constrs, c, st) /\ st \in Node /\ VarsOf(st) \subseteq vars
    BY <1>3, <1>5 DEF SameWhere
  <1> HIDE DEF st
  <1>7. SatRight(vars, s, Units(sat, constrs)) /\ Kept(sat, s) /\ st \in DOMAIN s.m
    BY <1>4, <1>6, EncodeRight
  <1> HIDE DEF s
  <1>8. /\ SatRight(vars, t, Units(sat, constrs) \cup {{s.m[st]}})
        /\ t.m = s.m /\ t.nvars = s.nvars
    <2> DEFINE U == Units(sat, constrs)
               cs == {{s.m[st]}}
    <2>1. SatRight(vars, s, U) /\ t = AddClauses(s, cs) /\ cs = {{s.m[st]}}
      BY <1>7
    <2> HIDE DEF U, cs, t
    <2>2. SatRight(vars, t, U \cup cs) /\ t.m = s.m /\ t.nvars = s.nvars
      BY <1>7, <2>1, UnitRight
    <2> QED
      BY <2>1, <2>2 DEF U
  <1> HIDE DEF t
  <1>9. Units(t, constrs \cup {st}) = Units(sat, constrs) \cup {{s.m[st]}}
    <2>1. Units(s, constrs) = Units(sat, constrs)
      BY <1>4, <1>7, UnitsKept
    <2> QED
      BY <1>8, <2>1 DEF Units
  <1>10. SatConstrs'
    <2>1. constrs' \subseteq DOMAIN t.m
      BY <1>2, <1>4, <1>7, <1>8 DEF Kept
    <2>2. SatRight(vars', t, Units(t, constrs'))
      BY <1>2, <1>3, <1>8, <1>9
    <2> QED
      BY <1>2, <2>1, <2>2 DEF SatConstrs
  <1>11. Build' /\ VarsKept' /\ ConstrsKept' /\ NoGates' /\ CutKept'
    <2>1. Build' /\ VarsKept'
      BY <1>3 DEF EncoderInv, Build, VarsKept
    <2>2. ConstrsKept'
      <3>1. IsFiniteSet(constrs')
        BY <1>2, FS_AddElement DEF EncoderInv, ConstrsKept
      <3>2. \A x \in constrs' \cup given' : x \in Node /\ VarsOf(x) \subseteq vars
        BY <1>2, <1>3, <1>6 DEF EncoderInv, ConstrsKept
      <3> QED
        BY <1>3, <3>1, <3>2 DEF ConstrsKept
    <2>3. NoGates'
      <3>1. constrs' # {}
        BY <1>2
      <3> QED
        BY <3>1 DEF NoGates
    <2>4. CutKept'
      BY <1>3 DEF EncoderInv, CutKept, Range
    <2> QED
      BY <2>1, <2>2, <2>3, <2>4
  <1>12. VarsDeclared'
    <2>1. \A x \in vars : x \in Nat /\ x < ModelSize(sat.nvars)
      BY DEF EncoderInv, VarsDeclared, VarsKept
    <2>2. sat.nvars \in Nat /\ t.nvars \in Nat /\ sat.nvars <= t.nvars
      BY <1>4, <1>7, <1>8, SatParts DEF SatRight, Kept
    <2>3. /\ ModelSize(sat.nvars) <= ModelSize(t.nvars)
          /\ ModelSize(sat.nvars) \in Nat /\ ModelSize(t.nvars) \in Nat
      BY <2>2, ModelSizeGrows DEF ModelSize
    <2>4. \A x \in vars : x < ModelSize(t.nvars)
      BY <2>1, <2>3
    <2>5. ModelSize(sat.nvars)' = ModelSize(t.nvars)
      BY <1>2, <1>3 DEF ModelSize
    <2> QED
      BY <1>3, <2>4, <2>5 DEF VarsDeclared
  <1>13. Allow(constrs)' = {e \in Allow(constrs) : Holds(c, e)}
    <2>1. Allow(constrs)' = {e \in Allow(constrs) : Holds(st, e)}
      BY <1>2, <1>3 DEF Allow, Valuations
    <2>2. \A e \in Allow(constrs) : Holds(st, e) <=> Holds(c, e)
      BY <1>6 DEF SameWhere
    <2> QED
      BY <2>1, <2>2
  <1>14. ConstrsFaithful'
    <2>1. Allow(given)' = {e \in Allow(given) : Holds(c, e)}
      BY <1>3 DEF Allow, Valuations
    <2>2. Allow(constrs) = Allow(given)
      BY DEF EncoderInv, ConstrsFaithful
    <2> QED
      BY <1>13, <2>1, <2>2 DEF ConstrsFaithful
  <1>15. MemoSame'
    <2> SUFFICES ASSUME NEW n \in DOMAIN memo'
                 PROVE  /\ n \in Node /\ VarsOf(n) \subseteq vars
                        /\ memo'[n] \in Node /\ VarsOf(memo'[n]) \subseteq VarsOf(n)
                        /\ \A e \in Allow(constrs) : Holds(memo'[n], e) <=> Holds(n, e)
      <3>1. \A e \in Allow(constrs)' : e \in Allow(constrs)
        BY <1>13
      <3> QED
        BY <1>3, <3>1 DEF MemoSame, SameWhere, Allow, Valuations
    <2>1. \/ n \in DOMAIN memo /\ memo'[n] = memo[n]
          \/ n \in Visited(c, facts) /\ memo'[n] = Simplified(n, facts)
      BY <1>2 DEF Joined
    <2>2. CASE n \in DOMAIN memo /\ memo'[n] = memo[n]
      BY <1>4, <2>2 DEF MemoSame, SameWhere
    <2>3. CASE n \in Visited(c, facts) /\ memo'[n] = Simplified(n, facts)
      <3>1. n \in Node /\ VarsOf(n) \subseteq vars
        BY <1>3, <2>3, VisitedRight
      <3>2. SameWhere(constrs, n, Simplified(n, facts))
        BY <1>5, <3>1
      <3> QED
        BY <2>3, <3>1, <3>2 DEF SameWhere
    <2> QED
      BY <2>1, <2>2, <2>3
  <1>16. AnswerDecoded'
    BY <1>3 DEF AnswerDecoded, None
  <1> QED
    BY <1>10, <1>11, <1>12, <1>14, <1>15, <1>16 DEF EncoderInv

(* What is known of the clauses and the cut when the SAT solver is called. *)
Asked(s, cut, id) ==
    /\ constrs \cup cut \subseteq DOMAIN s.m
    /\ SatRight(vars, s, Units(s, constrs))
    /\ \A v \in vars : v \in Nat /\ v < ModelSize(s.nvars)
    /\ DOMAIN id \subseteq Int
    /\ \A el \in DOMAIN id : id[el] \in cut /\ s.m[id[el]] = el

(* A model answers with an assignment that makes constraints and cut true. *)
LEMMA SatisfiableRight ==
  ASSUME IsNodeSet, IsSatSet, NEW s, NEW cut, NEW id, Asked(s, cut, id),
         NEW f \in Under(SatModels(s), DOMAIN id), NEW n \in constrs \cup Range(id)
  PROVE  Holds(n, [v \in vars |-> Literal(v, TRUE) \in Move(f, s.nvars)])
  <1> DEFINE true(v) == Literal(v, TRUE) \in Move(f, s.nvars)
             new == [v \in vars |-> true(v)]
             d == [v \in vars |-> f[v]]
  <1>1. f \in SatModels(s) /\ \A l \in DOMAIN id : Says(f, l)
    BY DEF Under, Says
  <1>2. f \in [Numbers(s) -> BOOLEAN] /\ \A v \in vars : f[v] \in BOOLEAN
    BY <1>1 DEF SatModels, Numbers
  <1>3. \A v \in vars : true(v) <=> f[v]
    <2> TAKE v \in vars
    <2>1. \A w, b, c : Literal(w, b) = Literal(v, c) => w = v /\ b = c
      BY DEF Literal
    <2>2. Literal(v, TRUE) \in Move(f, s.nvars) <=> (ModelValue(f, s.nvars, v) = TRUE)
      <3> DEFINE val(w) == ModelValue(f, s.nvars, w)
      <3>1. Move(f, s.nvars) = {Literal(w, val(w)) : w \in vars}
        BY DEF Move
      <3> HIDE DEF val
      <3>2. ASSUME Literal(v, TRUE) \in Move(f, s.nvars) PROVE val(v) = TRUE
        <4>1. PICK w \in vars : Literal(w, val(w)) = Literal(v, TRUE)
          BY <3>1, <3>2
        <4> QED
          BY <2>1, <4>1
      <3>3. ASSUME val(v) = TRUE PROVE Literal(v, TRUE) \in Move(f, s.nvars)
        BY <3>1, <3>3
      <3> QED
        BY <3>2, <3>3 DEF val
    <2>3. v < ModelSize(s.nvars)
      BY DEF Asked
    <2>4. ModelValue(f, s.nvars, v) = f[v]
      BY <1>2, <2>3 DEF ModelValue
    <2> QED
      BY <1>2, <2>2, <2>4
  <1>4. \A v : true(v) \in BOOLEAN
    OBVIOUS
  <1> HIDE DEF true
  <1>5. \A v \in vars : new[v] = d[v] /\ d[v] \in BOOLEAN
    <2>1. \A v \in vars : new[v] = true(v) /\ d[v] = f[v]
      OBVIOUS
    <2> HIDE DEF new, d
    <2> QED
      BY <1>2, <1>3, <1>4, <2>1
  <1>6. /\ d \in Allow(constrs)
        /\ \A k \in DOMAIN s.m : (Says(f, s.m[k]) <=> Holds(k, f)) /\ (Holds(k, f) <=> Holds(k, d))
    BY <1>1, ModelAllowed DEF Asked
  <1> HIDE DEF new, d
  <1>7. n \in DOMAIN s.m /\ Holds(n, d)
    <2>1. CASE n \in constrs
      BY <1>6, <2>1 DEF Allow, Asked
    <2>2. CASE n \in Range(id)
      <3>1. PICK el \in DOMAIN id : n = id[el]
        BY <2>2 DEF Range
      <3>2. n \in DOMAIN s.m /\ s.m[n] = el
        BY <3>1 DEF Asked
      <3> QED
        BY <1>1, <1>6, <3>2
    <2> QED
      BY <2>1, <2>2
  <1>8. n \in Node /\ VarsOf(n) \subseteq vars
    BY <1>7, SatParts DEF Asked, SatRight, MemoRight
  <1>9. Holds(n, d) <=> Holds(n, new)
    BY <1>5, <1>8, HoldsAlike DEF Defined
  <1> QED
    BY <1>7, <1>9 DEF new, true

(* A set of assumptions without a model stands for nodes that contradict   *)
(* the constraints.                                                        *)
LEMMA UnsatisfiableRight ==
  ASSUME IsNodeSet, IsSatSet, NEW s, NEW cut, NEW id, Asked(s, cut, id),
         NEW failed \in SUBSET DOMAIN id, Under(SatModels(s), failed) = {}
  PROVE  /\ NodesOf(Conflict(failed), id) \subseteq Range(id)
         /\ Allow(constrs \cup NodesOf(Conflict(failed), id)) = {}
  <1>1. NodesOf(Conflict(failed), id) = {id[l] : l \in failed}
    <2>1. \A l \in failed : l \in Int /\ - (- l) = l
      BY DEF Asked
    <2> QED
      BY <2>1 DEF NodesOf, Conflict
  <1>2. \A l \in failed : id[l] \in Range(id)
    BY DEF Range
  <1>3. ASSUME NEW e \in Allow(constrs \cup {id[l] : l \in failed}) PROVE FALSE
    <2>1. e \in Allow(constrs) /\ \A l \in failed : Holds(id[l], e)
      BY DEF Allow
    <2>2. PICK f \in SatModels(s) : \A k \in DOMAIN s.m : Says(f, s.m[k]) <=> Holds(k, e)
      BY <2>1, ModelOf DEF Asked
    <2>3. \A l \in failed : Says(f, l)
      BY <2>1, <2>2 DEF Asked
    <2>4. f \in Under(SatModels(s), failed)
      BY <2>3 DEF Under, Says
    <2> QED
      BY <2>4
  <1> QED
    BY <1>1, <1>2, <1>3

(* The cut is encoded and the SAT solver answers.                          *)
LEMMA SolveKeeps ==
  ASSUME IsNodeSet, IsSatSet, EncoderInv, NEW moves \in Moves, Solve(Cut(moves))
  PROVE  EncoderInv'
  <1> DEFINE cut == Cut(moves)
             s == EncodeAll(sat, cut)
             id == CutClause(s, cut)
  <1>1. /\ sat' = s /\ cut2id' = id
        /\ Satisfiable(s, SatModels(s), DOMAIN id) \/ Unsatisfiable(SatModels(s), id)
        /\ vars' = vars /\ constrs' = constrs /\ given' = given /\ memo' = memo
        /\ backend' = backend /\ find_cut' = find_cut
    BY DEF Solve, level
  <1>2. /\ backend \in Backends /\ vars \subseteq Nat
        /\ constrs \subseteq DOMAIN sat.m /\ SatRight(vars, sat, Units(sat, constrs))
    BY DEF EncoderInv, Build, VarsKept, SatConstrs
  <1>3. /\ IsFiniteSet(cut) /\ \A n \in cut : n \in Node /\ VarsOf(n) \subseteq vars
        /\ constrs = {} => \A n \in cut : Type(n) = "LITERAL"
    BY <1>2, CutRight DEF EncoderInv, Build, VarsKept, ConstrsKept
  <1> HIDE DEF cut
  <1>4. /\ SatRight(vars, s, Units(sat, constrs)) /\ Kept(sat, s) /\ cut \subseteq DOMAIN s.m
        /\ constrs = {} => \A k \in DOMAIN s.m : k \in DOMAIN sat.m \/ Type(k) = "LITERAL"
    <2>1. cut \in SUBSET Node /\ \A n \in cut : VarsOf(n) \subseteq vars
      BY <1>3
    <2> QED
      BY <1>2, <1>3, <2>1, EncodeAllRight
  <1> HIDE DEF s
  <1>5. /\ Units(s, constrs) = Units(sat, constrs) /\ constrs \subseteq DOMAIN s.m
        /\ DOMAIN s.m \subseteq Node /\ s.m \in [DOMAIN s.m -> Int]
    BY <1>2, <1>4, UnitsKept, SatParts DEF Kept, SatRight
  <1>6. /\ DOMAIN id = {s.m[l] : l \in cut}
        /\ \A el \in DOMAIN id : id[el] \in cut /\ s.m[id[el]] = el
    BY DEF CutClause
  <1> HIDE DEF id
  <1>7. \A n \in Range(id) : n \in cut
    BY <1>6 DEF Range
  <1>8. \A v \in vars : v \in Nat /\ v < ModelSize(s.nvars)
    <2>1. \A v \in vars : v < ModelSize(sat.nvars)
      BY DEF EncoderInv, VarsDeclared
    <2>2. sat.nvars \in Nat /\ s.nvars \in Nat /\ sat.nvars <= s.nvars
      BY <1>2, <1>4, SatParts DEF SatRight, Kept
    <2>3. /\ ModelSize(sat.nvars) <= ModelSize(s.nvars)
          /\ ModelSize(sat.nvars) \in Nat /\ ModelSize(s.nvars) \in Nat
      BY <2>2, ModelSizeGrows DEF ModelSize
    <2> QED
      BY <1>2, <2>1, <2>3
  <1>9. Asked(s, cut, id)
    <2>1. DOMAIN id \subseteq Int
      BY <1>4, <1>5, <1>6
    <2> QED
      BY <1>4, <1>5, <1>6, <1>8, <2>1 DEF Asked
  <1>10. Build' /\ VarsKept' /\ ConstrsKept' /\ MemoSame' /\ ConstrsFaithful'
    <2>1. Build' /\ VarsKept' /\ ConstrsKept'
      BY <1>1 DEF EncoderInv, Build, VarsKept, ConstrsKept
    <2>2. ConstrsFaithful'
      BY <1>1 DEF EncoderInv, ConstrsFaithful, Allow, Valuations
    <2>3. MemoSame'
      BY <1>1 DEF EncoderInv, MemoSame, SameWhere, Allow, Valuations
    <2> QED
      BY <2>1, <2>2, <2>3
  <1>11. NoGates' /\ SatConstrs' /\ VarsDeclared' /\ CutKept'
    <2>1. NoGates'
      BY <1>1, <1>4 DEF EncoderInv, NoGates
    <2>2. SatConstrs'
      BY <1>1, <1>4, <1>5 DEF SatConstrs
    <2>3. VarsDeclared'
      <3>1. ModelSize(sat.nvars)' = ModelSize(s.nvars)
        BY <1>1 DEF ModelSize
      <3> QED
        BY <1>1, <1>8, <3>1 DEF VarsDeclared
    <2>4. CutKept'
      BY <1>1, <1>3, <1>7 DEF CutKept
    <2> QED
      BY <2>1, <2>2, <2>3, <2>4
  <1>12. CASE Satisfiable(s, SatModels(s), DOMAIN id)
    <2>1. PICK f \in Under(SatModels(s), DOMAIN id) :
                answer' = [solved |-> "sat", move |-> Move(f, s.nvars), core |-> {}]
      BY <1>12 DEF Satisfiable
    <2>2. \A n \in constrs \cup Range(id) :
                Holds(n, [v \in vars |-> Literal(v, TRUE) \in Move(f, s.nvars)])
      BY <1>9, SatisfiableRight
    <2>3. answer'.solved = "sat" /\ answer'.move = Move(f, s.nvars)
      BY <2>1
    <2>4. AnswerDecoded'
      BY <1>1, <2>2, <2>3 DEF AnswerDecoded
    <2> QED
      BY <1>10, <1>11, <2>4 DEF EncoderInv
  <1>13. CASE Unsatisfiable(SatModels(s), id)
    <2>1. PICK failed \in SUBSET DOMAIN id :
                /\ Under(SatModels(s), failed) = {}
                /\ answer' = [solved |-> "unsat", move |-> {}, core |-> NodesOf(Conflict(failed), id)]
      BY <1>13 DEF Unsatisfiable
    <2> DEFINE core == NodesOf(Conflict(failed), id)
    <2>2. core \subseteq Range(id) /\ Allow(constrs \cup core) = {}
      BY <1>9, <2>1, UnsatisfiableRight
    <2>3. answer'.solved = "unsat" /\ answer'.core = core
      BY <2>1
    <2> HIDE DEF core
    <2>4. AnswerDecoded'
      BY <1>1, <2>2, <2>3 DEF AnswerDecoded, Allow, Valuations
    <2> QED
      BY <1>10, <1>11, <2>4 DEF EncoderInv
  <1> QED
    BY <1>1, <1>12, <1>13

(* After every variable added, constraint added and answer, whatever the   *)
(* SAT solver decides and fixes (level_solver.cpp).                        *)
THEOREM EncoderInvariant ==
  ASSUME IsNodeSet, IsSatSet
  PROVE  Spec => []EncoderInv
  <1>1. Init => EncoderInv
    BY EncoderInit
  <1>2. EncoderInv /\ [Next]_<<level, solver>> => EncoderInv'
    <2> SUFFICES ASSUME EncoderInv, [Next]_<<level, solver>> PROVE EncoderInv'
      OBVIOUS
    <2>1. ASSUME NEW v \in Variables, AddVar(v) PROVE EncoderInv'
      BY <2>1, AddVarKeeps
    <2>2. ASSUME NEW c \in Constraints, AddConstr(c) PROVE EncoderInv'
      BY <2>2, AddConstrKeeps
    <2>3. ASSUME NEW moves \in Moves, Solve(Cut(moves)) PROVE EncoderInv'
      BY <2>3, SolveKeeps
    <2>4. ASSUME UNCHANGED <<level, solver>> PROVE EncoderInv'
      <3>1. UNCHANGED <<backend, find_cut, vars, constrs, given, memo, sat, cut2id, answer>>
        BY <2>4 DEF level, solver
      <3>2. Build' /\ VarsKept' /\ ConstrsKept' /\ NoGates' /\ SatConstrs'
        BY <3>1 DEF EncoderInv, Build, VarsKept, ConstrsKept, NoGates, SatConstrs
      <3>3. VarsDeclared' /\ CutKept'
        BY <3>1 DEF EncoderInv, VarsDeclared, ModelSize, CutKept
      <3>4. MemoSame' /\ ConstrsFaithful'
        BY <3>1 DEF EncoderInv, MemoSame, SameWhere, ConstrsFaithful, Allow, Valuations
      <3>5. AnswerDecoded'
        BY <3>1 DEF EncoderInv, AnswerDecoded, Allow, Valuations
      <3> QED
        BY <3>2, <3>3, <3>4, <3>5 DEF EncoderInv
    <2> QED
      BY <2>1, <2>2, <2>3, <2>4 DEF Next
  <1> QED
    BY <1>1, <1>2, PTL DEF Spec

(* What the invariant says of numbers and of the clauses. *)
LEMMA NumbersApartThen ==
  ASSUME EncoderInv
  PROVE  NumbersApart
BY DEF EncoderInv, SatConstrs, SatRight, MemoRight, NumbersApart, Own

LEMMA ClausesFaithfulThen ==
  ASSUME IsNodeSet, IsSatSet, EncoderInv
  PROVE  ClausesFaithful
  <1>1. constrs \subseteq DOMAIN sat.m /\ SatRight(vars, sat, Units(sat, constrs))
    BY DEF EncoderInv, SatConstrs
  <1>2. \A f \in SatModels(sat) :
            /\ [v \in vars |-> f[v]] \in Allow(constrs)
            /\ \A n \in DOMAIN sat.m : Says(f, sat.m[n]) <=> Holds(n, f)
    BY <1>1, ModelAllowed
  <1>3. ASSUME NEW e \in Allow(constrs) PROVE \E f \in SatModels(sat) : e = [v \in vars |-> f[v]]
    <2>1. PICK f \in SatModels(sat) : \A v \in vars : f[v] = e[v]
      BY <1>1, ModelOf
    <2>2. e = [v \in vars |-> e[v]]
      BY DEF Allow, Valuations
    <2> QED
      BY <2>1, <2>2
  <1>4. {[v \in vars |-> f[v]] : f \in SatModels(sat)} = Allow(constrs)
    BY <1>2, <1>3
  <1>5. ASSUME NEW f \in SatModels(sat), NEW n \in DOMAIN sat.m
        PROVE  (f[Abs(sat.m[n])] = (sat.m[n] > 0)) = Holds(n, f)
    <2>1. n \in Node
      BY <1>1, SatParts DEF SatRight
    <2>2. Holds(n, f) \in BOOLEAN
      BY <2>1, HoldsEqs
    <2>3. (f[Abs(sat.m[n])] = (sat.m[n] > 0)) <=> Holds(n, f)
      BY <1>2 DEF Says
    <2> QED
      BY <2>2, <2>3
  <1> QED
    BY <1>4, <1>5 DEF ClausesFaithful

(* A number stands for a variable or for one gate or constant, however the *)
(* variables are numbered (encoder_to_sat.h:17-22, 104-108, variable_manager.h). *)
THEOREM NumbersStayApart ==
  ASSUME IsNodeSet, IsSatSet
  PROVE  Spec => []NumbersApart
  <1>1. EncoderInv => NumbersApart
    BY NumbersApartThen
  <1> QED
    BY <1>1, EncoderInvariant, PTL

(* Simplifying with the SAT solver's facts and with the memo of earlier    *)
(* ones loses nothing and adds nothing (level_solver.cpp:43-56, simplify.h). *)
THEOREM ConstrsSaySame ==
  ASSUME IsNodeSet, IsSatSet
  PROVE  Spec => []ConstrsFaithful
  <1>1. EncoderInv => ConstrsFaithful
    BY DEF EncoderInv
  <1> QED
    BY <1>1, EncoderInvariant, PTL

(* The models of the clauses are those of the constraints, and the literal *)
(* of every node ever encoded has its value in them                        *)
(* (encoder_to_sat.h:55-102).                                              *)
THEOREM ClausesSaySame ==
  ASSUME IsNodeSet, IsSatSet
  PROVE  Spec => []ClausesFaithful
  <1>1. EncoderInv => ClausesFaithful
    BY ClausesFaithfulThen
  <1> QED
    BY <1>1, EncoderInvariant, PTL

(* A move makes the constraints and the cut true, and a core is a part of  *)
(* the cut that contradicts the constraints, whatever the SAT solver       *)
(* answers (LevelSolver::solve, val, analyze, learn).                      *)
THEOREM AnswersMeanIt ==
  ASSUME IsNodeSet, IsSatSet
  PROVE  Spec => []AnswerDecoded
  <1>1. EncoderInv => AnswerDecoded
    BY DEF EncoderInv
  <1> QED
    BY <1>1, EncoderInvariant, PTL
=============================================================================
