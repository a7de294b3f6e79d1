---------------------------- MODULE CircuitProofs ----------------------------
(***************************************************************************)
(* The passes over circuits do what the solver relies on, for circuits of  *)
(* any size and shape.                                                     *)
(*                                                                         *)
(* A circuit is data, so its theorems are proved by induction over it: the *)
(* nodes have ranks, a recursive function is a fixpoint because it looks   *)
(* at smaller ranks only, and a set that contains a node whenever it has   *)
(* the nodes below contains them all.                                      *)
(***************************************************************************)
EXTENDS Circuit, FiniteSetTheorems, WellFoundedInduction, TLAPS

-----------------------------------------------------------------------------
(* A nonempty set of numbers has a least one.                              *)
LEMMA NatMin ==
  ASSUME NEW S \in SUBSET Nat, S # {}
  PROVE  \E n \in S : \A m \in S : n <= m
  <1>1. IsWellFoundedOn(OpToRel(<, Nat), Nat)
    BY NatLessThanWellFounded
  <1>2. PICK x \in S : \A y \in S : ~ (<<y, x>> \in OpToRel(<, Nat))
    BY <1>1, WFMin
  <1>3. \A y \in Nat : y < x => <<y, x>> \in OpToRel(<, Nat)
    BY <1>2 DEF OpToRel
  <1>4. \A y \in S : y \in Nat /\ x \in Nat
    BY <1>2
  <1>5. ASSUME NEW y \in S PROVE x <= y
    <2>1. ~ (y < x)
      BY <1>2, <1>3, <1>4
    <2> QED
      BY <1>4, <2>1
  <1> QED
    BY <1>2, <1>5

(* A map F on the functions from D to V that at every x of D looks only at *)
(* points of smaller rank.                                                 *)
Recursion(D, V, rank, F) ==
    /\ V # {}
    /\ rank \in [D -> Nat]
    /\ F \in [[D -> V] -> [D -> V]]
    /\ \A f, g \in [D -> V], x \in D :
            (\A y \in D : rank[y] < rank[x] => f[y] = g[y]) => F[f][x] = F[g][x]

(* Such a map has a fixpoint: a recursive function exists.                 *)
LEMMA Fixpoint ==
  ASSUME NEW D, NEW V, NEW rank, NEW F, Recursion(D, V, rank, F)
  PROVE  \E h \in [D -> V] : h = F[h]
  <1> SUFFICES ASSUME V # {}, rank \in [D -> Nat], F \in [[D -> V] -> [D -> V]],
                      \A f, g \in [D -> V], x \in D :
                        (\A y \in D : rank[y] < rank[x] => f[y] = g[y]) => F[f][x] = F[g][x]
               PROVE  \E h \in [D -> V] : h = F[h]
    BY DEF Recursion
  <1> DEFINE Good(h, k) == \A x \in D : rank[x] < k => h[x] = F[h][x]
  <1>1. ASSUME NEW k \in Nat PROVE \E h \in [D -> V] : Good(h, k)
    <2> DEFINE bad == {i \in Nat : ~ \E h \in [D -> V] : Good(h, i)}
    <2>1. SUFFICES ASSUME bad # {} PROVE FALSE
      BY <2>1
    <2>2. PICK i \in bad : \A j \in bad : i <= j
      <3>1. bad \in SUBSET Nat
        OBVIOUS
      <3> QED
        BY <2>1, <3>1, NatMin
    <2>3. i # 0
      <3>1. PICK v \in V : TRUE
        OBVIOUS
      <3>2. [x \in D |-> v] \in [D -> V]
        OBVIOUS
      <3>3. \A x \in D : ~ (rank[x] < 0)
        OBVIOUS
      <3>4. Good([x \in D |-> v], 0)
        BY <3>3
      <3> HIDE DEF Good
      <3>5. 0 \notin bad
        BY <3>2, <3>4
      <3> QED
        BY <2>2, <3>5
    <2>4. i - 1 \in Nat /\ i \in Nat
      BY <2>2, <2>3
    <2>5. i - 1 \notin bad
      BY <2>2, <2>4
    <2>6. PICK h \in [D -> V] : Good(h, i - 1)
      BY <2>4, <2>5
    <2>7. F[h] \in [D -> V]
      OBVIOUS
    <2>8. ASSUME NEW x \in D, rank[x] < i PROVE F[h][x] = F[F[h]][x]
      <3>1. \A y \in D : rank[y] < rank[x] => h[y] = F[h][y]
        <4> SUFFICES ASSUME NEW y \in D, rank[y] < rank[x] PROVE h[y] = F[h][y]
          OBVIOUS
        <4>1. rank[y] \in Nat /\ rank[x] \in Nat
          OBVIOUS
        <4>2. rank[y] < i - 1
          BY <4>1, <2>8, <2>4
        <4> QED
          BY <2>6, <4>2
      <3> QED
        BY <2>7, <3>1
    <2>9. Good(F[h], i)
      BY <2>8
    <2> HIDE DEF Good
    <2>10. i \notin bad
      BY <2>7, <2>9
    <2> QED
      BY <2>2, <2>10
  <1>2. ASSUME NEW k \in Nat, NEW g \in [D -> V], NEW h \in [D -> V], Good(g, k), Good(h, k)
        PROVE  \A x \in D : rank[x] < k => g[x] = h[x]
    <2> DEFINE bad == {i \in Nat : \E y \in D : rank[y] = i /\ i < k /\ g[y] # h[y]}
    <2>0. bad \in SUBSET Nat
      OBVIOUS
    <2>1. SUFFICES ASSUME NEW z \in D, rank[z] < k, g[z] # h[z] PROVE FALSE
      OBVIOUS
    <2>9. bad # {}
      <3>1. rank[z] \in bad
        BY <2>1
      <3> QED
        BY <3>1
    <2> HIDE DEF bad
    <2>2. PICK i \in bad : \A j \in bad : i <= j
      BY <2>0, <2>9, NatMin
    <2> USE DEF bad
    <2>3. PICK x \in D : rank[x] = i /\ rank[x] < k /\ g[x] # h[x]
      BY <2>2
    <2>4. ASSUME NEW y \in D, rank[y] < rank[x] PROVE g[y] = h[y]
      <3>1. rank[y] \in Nat /\ rank[x] \in Nat
        OBVIOUS
      <3>2. rank[y] < k /\ ~ (rank[x] <= rank[y])
        BY <3>1, <2>3, <2>4
      <3>3. rank[y] \notin bad
        BY <2>2, <2>3, <3>2
      <3> QED
        BY <3>2, <3>3
    <2>5. F[g][x] = F[h][x]
      BY <2>4
    <2> QED
      BY <1>2, <2>3, <2>5
  <1> DEFINE approx == [x \in D |-> CHOOSE h \in [D -> V] : Good(h, rank[x] + 1)]
             H == [x \in D |-> approx[x][x]]
  <1>3. \A x \in D : approx[x] \in [D -> V] /\ Good(approx[x], rank[x] + 1)
    <2> TAKE x \in D
    <2>1. rank[x] + 1 \in Nat
      OBVIOUS
    <2>2. \E h \in [D -> V] : Good(h, rank[x] + 1)
      BY <2>1, <1>1
    <2> HIDE DEF Good
    <2> QED
      BY <2>2
  <1>4. H \in [D -> V]
    <2>1. \A x \in D : approx[x] \in [D -> V]
      BY <1>3
    <2> HIDE DEF approx
    <2> QED
      BY <2>1
  <1>5. ASSUME NEW x \in D PROVE H[x] = F[H][x]
    <2>1. \A y \in D : rank[y] < rank[x] => approx[x][y] = H[y]
      <3> SUFFICES ASSUME NEW y \in D, rank[y] < rank[x] PROVE approx[x][y] = H[y]
        OBVIOUS
      <3>1. rank[y] \in Nat /\ rank[x] \in Nat /\ rank[y] + 1 \in Nat
        OBVIOUS
      <3>2. \A z \in D : rank[z] < rank[y] + 1 => rank[z] < rank[x] + 1
        <4> SUFFICES ASSUME NEW z \in D, rank[z] < rank[y] + 1 PROVE rank[z] < rank[x] + 1
          OBVIOUS
        <4>1. rank[z] \in Nat
          OBVIOUS
        <4> QED
          BY <3>1, <4>1
      <3>3. Good(approx[x], rank[y] + 1) /\ Good(approx[y], rank[y] + 1)
        BY <1>3, <3>2
      <3>4. rank[y] < rank[y] + 1
        BY <3>1
      <3> HIDE DEF Good
      <3>5. approx[x][y] = approx[y][y]
        BY <1>2, <1>3, <3>1, <3>3, <3>4
      <3> QED
        BY <3>5
    <2>2. F[approx[x]][x] = F[H][x]
      <3>1. approx[x] \in [D -> V]
        BY <1>3
      <3> HIDE DEF approx, H, Good
      <3> QED
        BY <1>4, <2>1, <3>1
    <2>3. approx[x][x] = F[approx[x]][x]
      <3>1. rank[x] < rank[x] + 1
        OBVIOUS
      <3> QED
        BY <1>3, <3>1
    <2> QED
      BY <2>2, <2>3
  <1>6. F[H] \in [D -> V]
    BY <1>4
  <1>7. H = F[H]
    BY <1>4, <1>5, <1>6
  <1> QED
    BY <1>4, <1>7

(* The types of gates.                                                     *)
Gates == {"AND", "OR"}
(* Ranks that grow from a node to what it is an operand of: circuits are   *)
(* finite.                                                                 *)
Ranked(N, rank) ==
    /\ rank \in [N -> Nat]
    /\ \A n \in N : \A o \in Children(n) : rank[o] < rank[n]
(* A set of well-formed circuits that is closed under the factory          *)
(* (expressions.h): every node is a constant, a literal, a negation or a   *)
(* gate over a nonempty finite set of nodes.                               *)
NodeSet(N) ==
    /\ \A n \in N :
        \/ IsConst(n)
        \/ \E v \in Nat, b \in BOOLEAN : n = Literal(v, b)
        \/ \E o \in N : n = <<"NEGATION", o>>
        \/ \E t \in Gates, ops \in SUBSET N :
                n = <<t, ops>> /\ ops # {} /\ IsFiniteSet(ops)
    /\ \A b \in BOOLEAN : ConstNode(b) \in N
    /\ \A v \in Nat, b \in BOOLEAN : Literal(v, b) \in N
    /\ \A n \in N : Type(n) \in Gates => <<"NEGATION", n>> \in N
    /\ \A t \in Gates, ops \in SUBSET N :
            ops # {} /\ IsFiniteSet(ops) => <<t, ops>> \in N
    /\ \E rank : Ranked(N, rank)
IsNodeSet == NodeSet(Node)

-----------------------------------------------------------------------------
(* There is such a set: the circuits that are built from the leaves in     *)
(* finitely many steps.                                                    *)
Leaves == {FalseNode, TrueNode} \cup {Literal(v, b) : v \in Nat, b \in BOOLEAN}
FiniteOf(S) == {ops \in SUBSET S : ops # {} /\ IsFiniteSet(ops)}
Built(S) ==
    S \cup {<<"NEGATION", n>> : n \in {m \in S : Type(m) \in Gates}}
      \cup {<<t, ops>> : t \in Gates, ops \in FiniteOf(S)}
(* The first k steps, and what is there after them.                        *)
Tower(f, k) == f = [i \in 0 .. k |-> IF i = 0 THEN Leaves ELSE Built(f[i - 1])]
Storey(k) == (CHOOSE f : Tower(f, k))[k]

LEMMA TowerExists ==
  ASSUME NEW k \in Nat
  PROVE  \E f : Tower(f, k)
  <1> DEFINE bad == {i \in Nat : ~ \E f : Tower(f, i)}
  <1> SUFFICES ASSUME bad # {} PROVE FALSE
    OBVIOUS
  <1>1. PICK i \in bad : \A j \in bad : i <= j
    <2>1. bad \in SUBSET Nat
      OBVIOUS
    <2> HIDE DEF bad
    <2> QED
      BY <2>1, NatMin
  <1>2. i \in Nat
    BY <1>1
  <1>3. CASE i = 0
    <2>1. Tower([j \in 0 .. 0 |-> Leaves], 0)
      BY DEF Tower
    <2> QED
      BY <1>1, <1>3, <2>1
  <1>4. CASE i # 0
    <2>1. i - 1 \in Nat /\ ~ (i <= i - 1)
      BY <1>2, <1>4
    <2>2. i - 1 \notin bad
      BY <1>1, <2>1
    <2>3. PICK f : Tower(f, i - 1)
      BY <2>1, <2>2
    <2> DEFINE g == [j \in 0 .. i |-> IF j = i THEN Built(f[i - 1]) ELSE f[j]]
    <2>4. \A j \in 0 .. i - 1 : f[j] = IF j = 0 THEN Leaves ELSE Built(f[j - 1])
      BY <2>3 DEF Tower
    <2>5. \A j \in 0 .. i : j # i => j \in 0 .. i - 1
      BY <1>2
    <2>6. \A j \in 0 .. i : j # 0 => j - 1 \in 0 .. i /\ j - 1 # i
      BY <1>2
    <2>7. \A j \in 0 .. i : g[j] = IF j = 0 THEN Leaves ELSE Built(g[j - 1])
      <3> SUFFICES ASSUME NEW j \in 0 .. i
                   PROVE  g[j] = IF j = 0 THEN Leaves ELSE Built(g[j - 1])
        OBVIOUS
      <3>1. CASE j = i
        <4>1. g[j] = Built(f[i - 1])
          BY <3>1
        <4>2. g[i - 1] = f[i - 1]
          BY <1>4, <2>6, <3>1
        <4> HIDE DEF g
        <4> QED
          BY <1>4, <3>1, <4>1, <4>2
      <3>2. CASE j # i
        <4>1. g[j] = f[j] /\ j \in 0 .. i - 1
          BY <2>5, <3>2
        <4>2. j # 0 => g[j - 1] = f[j - 1]
          BY <2>6
        <4> HIDE DEF g
        <4> QED
          BY <2>4, <4>1, <4>2
      <3> QED
        BY <3>1, <3>2
    <2>8. g = [j \in 0 .. i |-> IF j = 0 THEN Leaves ELSE Built(g[j - 1])]
      <3>1. g = [j \in 0 .. i |-> g[j]]
        OBVIOUS
      <3> HIDE DEF g
      <3> QED
        BY <2>7, <3>1
    <2> HIDE DEF g
    <2>9. Tower(g, i)
      BY <2>8 DEF Tower
    <2> QED
      BY <1>1, <2>9
  <1> QED
    BY <1>3, <1>4

LEMMA TowersAgree ==
  ASSUME NEW k \in Nat, NEW l \in Nat, k <= l, NEW f, NEW g, Tower(f, k), Tower(g, l)
  PROVE  \A i \in 0 .. k : f[i] = g[i]
  <1> DEFINE bad == {i \in Nat : i <= k /\ f[i] # g[i]}
  <1> SUFFICES ASSUME bad # {} PROVE FALSE
    OBVIOUS
  <1>1. PICK i \in bad : \A j \in bad : i <= j
    <2>1. bad \in SUBSET Nat
      OBVIOUS
    <2> HIDE DEF bad
    <2> QED
      BY <2>1, NatMin
  <1>2. i \in 0 .. k /\ i \in 0 .. l /\ f[i] # g[i] /\ i \in Nat
    BY <1>1
  <1>3. /\ f[i] = IF i = 0 THEN Leaves ELSE Built(f[i - 1])
        /\ g[i] = IF i = 0 THEN Leaves ELSE Built(g[i - 1])
    BY <1>2 DEF Tower
  <1>4. i # 0
    BY <1>2, <1>3
  <1>5. i - 1 \in Nat /\ i - 1 <= k /\ ~ (i <= i - 1)
    BY <1>2, <1>4
  <1>6. f[i - 1] = g[i - 1]
    BY <1>1, <1>5
  <1> QED
    BY <1>2, <1>3, <1>6

LEMMA Storeys ==
  /\ Storey(0) = Leaves
  /\ \A k \in Nat : Storey(k + 1) = Built(Storey(k))
  <1>1. \A k \in Nat : Tower(CHOOSE f : Tower(f, k), k)
    BY TowerExists
  <1>2. Storey(0) = Leaves
    <2>1. Tower(CHOOSE f : Tower(f, 0), 0)
      BY <1>1
    <2> QED
      BY <2>1 DEF Tower, Storey
  <1>3. ASSUME NEW k \in Nat PROVE Storey(k + 1) = Built(Storey(k))
    <2> DEFINE f == CHOOSE h : Tower(h, k)
               g == CHOOSE h : Tower(h, k + 1)
    <2>1. Tower(f, k) /\ Tower(g, k + 1) /\ k + 1 \in Nat /\ k <= k + 1
      BY <1>1
    <2>2. Storey(k) = f[k] /\ Storey(k + 1) = g[k + 1]
      BY DEF Storey
    <2> HIDE DEF f, g
    <2>3. f[k] = g[k]
      <3>1. k \in 0 .. k
        OBVIOUS
      <3> QED
        BY <2>1, <3>1, TowersAgree
    <2>4. g[k + 1] = Built(g[k])
      <3>1. k + 1 \in 0 .. k + 1 /\ k + 1 # 0 /\ (k + 1) - 1 = k
        OBVIOUS
      <3> QED
        BY <2>1, <3>1 DEF Tower
    <2> QED
      BY <2>2, <2>3, <2>4
  <1> QED
    BY <1>2, <1>3

LEMMA StoreysGrow ==
  ASSUME NEW k \in Nat, NEW l \in Nat, k <= l
  PROVE  Storey(k) \subseteq Storey(l)
  <1> DEFINE bad == {i \in Nat : k <= i /\ ~ (Storey(k) \subseteq Storey(i))}
  <1> SUFFICES ASSUME bad # {} PROVE FALSE
    OBVIOUS
  <1>1. PICK i \in bad : \A j \in bad : i <= j
    <2>1. bad \in SUBSET Nat
      OBVIOUS
    <2> HIDE DEF bad
    <2> QED
      BY <2>1, NatMin
  <1>2. i \in Nat /\ k <= i /\ i # k
    BY <1>1
  <1>3. i - 1 \in Nat /\ k <= i - 1 /\ ~ (i <= i - 1) /\ (i - 1) + 1 = i
    BY <1>2
  <1>4. Storey(k) \subseteq Storey(i - 1)
    BY <1>1, <1>3
  <1>5. Storey(i) = Built(Storey(i - 1))
    BY <1>3, Storeys
  <1> QED
    BY <1>1, <1>4, <1>5 DEF Built

(* Finitely many numbers have a bound.                                     *)
LEMMA Bounded ==
  ASSUME NEW S \in SUBSET Nat, IsFiniteSet(S)
  PROVE  \E k \in Nat : \A n \in S : n <= k
  <1> DEFINE Bound(T) == \E k \in Nat : \A n \in T : n <= k
             bad == {c \in Nat : \E T \in SUBSET Nat : IsFiniteSet(T) /\ Cardinality(T) = c /\ ~ Bound(T)}
  <1> SUFFICES ASSUME ~ Bound(S) PROVE FALSE
    OBVIOUS
  <1>1. PICK c \in bad : \A d \in bad : c <= d
    <2>1. bad \in SUBSET Nat
      OBVIOUS
    <2>2. Cardinality(S) \in bad
      BY FS_CardinalityType
    <2> HIDE DEF bad
    <2> QED
      BY <2>1, <2>2, NatMin
  <1>2. PICK T \in SUBSET Nat : IsFiniteSet(T) /\ Cardinality(T) = c /\ ~ Bound(T)
    BY <1>1
  <1>3. T # {}
    <2>1. 0 \in Nat
      OBVIOUS
    <2> QED
      BY <1>2, <2>1
  <1>4. PICK x \in T : TRUE
    BY <1>3
  <1>5. IsFiniteSet(T \ {x}) /\ Cardinality(T \ {x}) = c - 1
    BY <1>2, <1>4, FS_RemoveElement
  <1>6. c - 1 \in Nat /\ ~ (c <= c - 1)
    <2>1. c \in Nat /\ Cardinality(T \ {x}) \in Nat
      BY <1>1, <1>5, FS_CardinalityType
    <2> QED
      BY <1>5, <2>1
  <1>7. c - 1 \notin bad
    BY <1>1, <1>6
  <1>8. Bound(T \ {x})
    <2>1. T \ {x} \in SUBSET Nat
      OBVIOUS
    <2> HIDE DEF Bound
    <2> QED
      BY <1>5, <1>6, <1>7, <2>1
  <1>9. PICK k \in Nat : \A n \in T \ {x} : n <= k
    BY <1>8
  <1>10. CASE x <= k
    <2>1. \A n \in T : n <= k
      BY <1>9, <1>10
    <2> QED
      BY <1>2, <2>1
  <1>11. CASE ~ (x <= k)
    <2>1. x \in Nat
      OBVIOUS
    <2>2. \A n \in T : n <= x
      BY <1>9, <1>11, <2>1
    <2> QED
      BY <1>2, <2>1, <2>2
  <1> QED
    BY <1>10, <1>11

(* The image of a finite set is finite.                                    *)
LEMMA FiniteImage ==
  ASSUME NEW S, IsFiniteSet(S), NEW f
  PROVE  IsFiniteSet({f[x] : x \in S})
  <1> DEFINE T == {f[x] : x \in S}
             g == [x \in S |-> f[x]]
  <1>1. g \in Surjection(S, T)
    BY DEF Surjection
  <1> HIDE DEF T, g
  <1>2. IsFiniteSet(T)
    BY <1>1, FS_Surjection
  <1> QED
    BY <1>2 DEF T

(* The hypothesis IsNodeSet of the theorems below and of those about the   *)
(* modules that use circuits can be met: some set is closed under          *)
(* Expressions::make_not, make_and and make_or (expressions.cpp:18-60) and *)
(* has only finite circuits.                                               *)
THEOREM NodeSetExists == \E N : NodeSet(N)
  <1> DEFINE N == UNION {Storey(k) : k \in Nat}
             First(n) == CHOOSE i \in {k \in Nat : n \in Storey(k)} :
                            \A j \in {k \in Nat : n \in Storey(k)} : i <= j
  <1>1. \A n \in N : \E k \in Nat : n \in Storey(k)
    OBVIOUS
  <1>2. \A k \in Nat : Storey(k) \subseteq N
    OBVIOUS
  <1> HIDE DEF N
  <1>3. ASSUME NEW n \in N
        PROVE  /\ First(n) \in Nat /\ n \in Storey(First(n))
               /\ \A j \in Nat : n \in Storey(j) => First(n) <= j
    <2> DEFINE S == {k \in Nat : n \in Storey(k)}
    <2>1. S \in SUBSET Nat /\ S # {}
      BY <1>1
    <2>2. \E i \in S : \A j \in S : i <= j
      <3> HIDE DEF S
      <3> QED
        BY <2>1, NatMin
    <2>3. First(n) \in S /\ \A j \in S : First(n) <= j
      BY <2>2
    <2> HIDE DEF First
    <2> QED
      BY <2>3
  <1> HIDE DEF First
  <1>4. ASSUME NEW n \in N
        PROVE  \/ First(n) = 0 /\ n \in Leaves
               \/ /\ First(n) - 1 \in Nat
                  /\ \/ \E o \in Storey(First(n) - 1) : n = <<"NEGATION", o>>
                     \/ \E t \in Gates, ops \in FiniteOf(Storey(First(n) - 1)) : n = <<t, ops>>
    <2> DEFINE k == First(n)
    <2>1. k \in Nat /\ n \in Storey(k) /\ \A j \in Nat : n \in Storey(j) => k <= j
      BY <1>3
    <2> HIDE DEF k
    <2>2. CASE k = 0
      BY <2>1, <2>2, Storeys DEF k
    <2>3. CASE k # 0
      <3>1. k - 1 \in Nat /\ (k - 1) + 1 = k /\ ~ (k <= k - 1)
        BY <2>1, <2>3
      <3>2. n \in Built(Storey(k - 1)) /\ n \notin Storey(k - 1)
        <4>1. Storey((k - 1) + 1) = Built(Storey(k - 1))
          BY <3>1, Storeys
        <4> QED
          BY <2>1, <3>1, <4>1
      <3>3. \/ \E o \in Storey(k - 1) : n = <<"NEGATION", o>>
            \/ \E t \in Gates, ops \in FiniteOf(Storey(k - 1)) : n = <<t, ops>>
        BY <3>2 DEF Built
      <3> QED
        BY <3>1, <3>3 DEF k
    <2> QED
      BY <2>2, <2>3
  <1>5. \A k \in Nat : k + 1 \in Nat /\ Built(Storey(k)) \subseteq N
    <2> SUFFICES ASSUME NEW k \in Nat PROVE k + 1 \in Nat /\ Built(Storey(k)) \subseteq N
      OBVIOUS
    <2>1. k + 1 \in Nat /\ Storey(k + 1) \subseteq N
      BY <1>2
    <2> QED
      BY <2>1, Storeys
  <1>6. ASSUME NEW n \in N
        PROVE  \/ IsConst(n)
               \/ \E v \in Nat, b \in BOOLEAN : n = Literal(v, b)
               \/ \E o \in N : n = <<"NEGATION", o>>
               \/ \E t \in Gates, ops \in SUBSET N : n = <<t, ops>> /\ ops # {} /\ IsFiniteSet(ops)
    <2>1. CASE n \in Leaves
      BY <2>1 DEF Leaves, IsConst
    <2>2. CASE First(n) - 1 \in Nat /\ \E o \in Storey(First(n) - 1) : n = <<"NEGATION", o>>
      BY <1>2, <2>2
    <2>3. CASE First(n) - 1 \in Nat /\ \E t \in Gates, ops \in FiniteOf(Storey(First(n) - 1)) : n = <<t, ops>>
      <3>1. \A ops \in FiniteOf(Storey(First(n) - 1)) : ops \in SUBSET N /\ ops # {} /\ IsFiniteSet(ops)
        BY <1>2, <2>3 DEF FiniteOf
      <3> QED
        BY <2>3, <3>1
    <2> QED
      BY <1>4, <2>1, <2>2, <2>3
  <1>7. Leaves \subseteq N
    <2>1. Storey(0) \subseteq N
      BY <1>2
    <2> QED
      BY <2>1, Storeys
  <1>8. /\ \A b \in BOOLEAN : ConstNode(b) \in N
        /\ \A v \in Nat, b \in BOOLEAN : Literal(v, b) \in N
    BY <1>7 DEF Leaves, ConstNode
  <1>9. ASSUME NEW n \in N, Type(n) \in Gates PROVE <<"NEGATION", n>> \in N
    <2>1. PICK k \in Nat : n \in Storey(k)
      BY <1>1
    <2>2. <<"NEGATION", n>> \in Built(Storey(k))
      BY <1>9, <2>1 DEF Built
    <2> QED
      BY <1>5, <2>2
  <1>10. ASSUME NEW t \in Gates, NEW ops \in SUBSET N, ops # {}, IsFiniteSet(ops)
         PROVE  <<t, ops>> \in N
    <2> DEFINE g == [o \in N |-> First(o)]
               firsts == {g[o] : o \in ops}
    <2>1. IsFiniteSet(firsts)
      <3> HIDE DEF g
      <3> QED
        BY <1>10, FiniteImage
    <2>2. firsts \in SUBSET Nat
      BY <1>3
    <2>3. PICK k \in Nat : \A i \in firsts : i <= k
      <3> HIDE DEF firsts
      <3> QED
        BY <2>1, <2>2, Bounded
    <2>4. ASSUME NEW o \in ops PROVE o \in Storey(k)
      <3>1. o \in N /\ First(o) \in Nat /\ o \in Storey(First(o))
        BY <1>3
      <3>2. First(o) <= k
        <4>1. g[o] = First(o) /\ g[o] \in firsts
          BY <3>1
        <4> QED
          BY <2>3, <4>1
      <3>3. Storey(First(o)) \subseteq Storey(k)
        BY <3>1, <3>2, StoreysGrow
      <3> QED
        BY <3>1, <3>3
    <2>5. <<t, ops>> \in Built(Storey(k))
      BY <1>10, <2>4 DEF Built, FiniteOf
    <2> QED
      BY <1>5, <2>5
  <1>11. \E rank : Ranked(N, rank)
    <2> DEFINE rank == [n \in N |-> First(n)]
    <2>1. rank \in [N -> Nat]
      BY <1>3
    <2>2. ASSUME NEW n \in N, NEW o \in Children(n) PROVE rank[o] < rank[n]
      <3>1. CASE n \in Leaves
        <4>1. CASE IsConst(n)
          <5>1. Type(n) \in {"FALSE", "TRUE"}
            BY <4>1 DEF IsConst, FalseNode, TrueNode, Type
          <5>2. Children(n) = {}
            BY <4>1, <5>1 DEF Children
          <5> QED
            BY <5>2
        <4>2. CASE \E v \in Nat, b \in BOOLEAN : n = Literal(v, b)
          <5>1. Type(n) = "LITERAL"
            BY <4>2 DEF Literal, Type
          <5>2. Children(n) = {}
            BY <4>2, <5>1 DEF Children, IsConst, FalseNode, TrueNode, Literal
          <5> QED
            BY <5>2
        <4> QED
          BY <3>1, <4>1, <4>2 DEF Leaves, IsConst
      <3>2. CASE First(n) - 1 \in Nat /\ \E p \in Storey(First(n) - 1) : n = <<"NEGATION", p>>
        <4>1. PICK p \in Storey(First(n) - 1) : n = <<"NEGATION", p>>
          BY <3>2
        <4>2. Children(n) = {p}
          BY <4>1 DEF Children, IsConst, FalseNode, TrueNode, Type, Operand
        <4>3. o \in Storey(First(n) - 1)
          BY <4>2
        <4>4. o \in N /\ First(o) <= First(n) - 1
          BY <1>2, <1>3, <3>2, <4>3
        <4>5. First(o) \in Nat /\ First(n) \in Nat
          BY <1>3, <4>4
        <4> QED
          BY <4>4, <4>5
      <3>3. CASE First(n) - 1 \in Nat /\ \E t \in Gates, ops \in FiniteOf(Storey(First(n) - 1)) : n = <<t, ops>>
        <4>1. PICK t \in Gates, ops \in FiniteOf(Storey(First(n) - 1)) : n = <<t, ops>>
          BY <3>3
        <4>2. Children(n) = ops
          BY <4>1 DEF Children, IsConst, FalseNode, TrueNode, Type, Operands, Gates
        <4>3. o \in Storey(First(n) - 1)
          BY <4>2 DEF FiniteOf
        <4>4. o \in N /\ First(o) <= First(n) - 1
          BY <1>2, <1>3, <3>3, <4>3
        <4>5. First(o) \in Nat /\ First(n) \in Nat
          BY <1>3, <4>4
        <4> QED
          BY <4>4, <4>5
      <3> QED
        BY <1>4, <3>1, <3>2, <3>3
    <2> HIDE DEF rank
    <2> QED
      BY <2>1, <2>2 DEF Ranked
  <1> QED
    BY <1>6, <1>8, <1>9, <1>10, <1>11 DEF NodeSet

-----------------------------------------------------------------------------
(* What a node is made of.                                                 *)
LEMMA Shape ==
  ASSUME IsNodeSet, NEW n \in Node
  PROVE  /\ Type(n) \in {"FALSE", "TRUE", "LITERAL", "NEGATION", "AND", "OR"}
         /\ IsConst(n) <=> Type(n) \in {"FALSE", "TRUE"}
         /\ Type(n) = "FALSE" <=> n = FalseNode
         /\ Type(n) = "TRUE" <=> n = TrueNode
         /\ Type(n) = "LITERAL" =>
                n = Literal(LitVar(n), Positive(n)) /\ Positive(n) \in BOOLEAN /\ LitVar(n) \in Nat
         /\ Type(n) = "NEGATION" => Operand(n) \in Node /\ n = <<"NEGATION", Operand(n)>>
         /\ Type(n) \in Gates =>
                /\ Operands(n) \in SUBSET Node /\ Operands(n) # {} /\ IsFiniteSet(Operands(n))
                /\ n = <<Type(n), Operands(n)>>
  <1>1. CASE IsConst(n)
    BY <1>1 DEF IsConst, FalseNode, TrueNode, Type, Gates
  <1>2. CASE \E v \in Nat, b \in BOOLEAN : n = Literal(v, b)
    BY <1>2 DEF IsConst, FalseNode, TrueNode, Type, Gates, Literal, LitVar, Positive
  <1>3. CASE \E o \in Node : n = <<"NEGATION", o>>
    BY <1>3 DEF IsConst, FalseNode, TrueNode, Type, Gates, Operand
  <1>4. CASE \E t \in Gates, ops \in SUBSET Node :
                n = <<t, ops>> /\ ops # {} /\ IsFiniteSet(ops)
    BY <1>4 DEF IsConst, FalseNode, TrueNode, Type, Gates, Operands
  <1> QED
    BY <1>1, <1>2, <1>3, <1>4 DEF IsNodeSet, NodeSet

(* What is below a node, by its type.                                      *)
LEMMA ChildrenOf ==
  ASSUME IsNodeSet, NEW n \in Node
  PROVE  /\ IsConst(n) \/ Type(n) = "LITERAL" => Children(n) = {}
         /\ Type(n) = "NEGATION" => Children(n) = {Operand(n)}
         /\ Type(n) \in Gates => Children(n) = Operands(n)
         /\ Children(n) \in SUBSET Node /\ IsFiniteSet(Children(n))
  <1>1. CASE IsConst(n) \/ Type(n) = "LITERAL"
    <2>1. Children(n) = {}
      BY <1>1, Shape DEF Children, Gates
    <2> QED
      BY <1>1, <2>1, Shape, FS_EmptySet DEF Gates
  <1>2. CASE Type(n) = "NEGATION"
    <2>1. Children(n) = {Operand(n)}
      BY <1>2, Shape DEF Children, Gates
    <2> QED
      <3>1. IsFiniteSet({Operand(n)}) /\ Operand(n) \in Node
        BY <1>2, Shape, FS_Singleton
      <3> QED
        BY <1>2, <2>1, <3>1, Shape DEF Gates
  <1>3. CASE Type(n) \in Gates
    <2>1. Children(n) = Operands(n)
      BY <1>3, Shape DEF Children, Gates
    <2> QED
      BY <1>3, <2>1, Shape DEF Gates
  <1> QED
    BY <1>1, <1>2, <1>3, Shape DEF Gates

(* A recursion over what is below a node has a solution.                   *)
LEMMA NodeFixpoint ==
  ASSUME IsNodeSet, NEW V, V # {}, NEW F \in [[Node -> V] -> [Node -> V]],
         \A f, g \in [Node -> V], n \in Node :
            (\A o \in Children(n) : f[o] = g[o]) => F[f][n] = F[g][n]
  PROVE  \E h \in [Node -> V] : h = F[h]
  <1> PICK rank : Ranked(Node, rank)
    BY DEF IsNodeSet, NodeSet
  <1>1. rank \in [Node -> Nat]
    BY DEF Ranked
  <1>2. ASSUME NEW f \in [Node -> V], NEW g \in [Node -> V], NEW n \in Node,
               \A o \in Node : rank[o] < rank[n] => f[o] = g[o]
        PROVE  F[f][n] = F[g][n]
    <2>1. \A o \in Children(n) : f[o] = g[o]
      BY <1>2, ChildrenOf DEF Ranked
    <2> QED
      BY <2>1
  <1>3. \A f, g \in [Node -> V], n \in Node :
            (\A o \in Node : rank[o] < rank[n] => f[o] = g[o]) => F[f][n] = F[g][n]
    BY <1>2
  <1>4. QED
    <2>1. Recursion(Node, V, rank, F)
      BY <1>1, <1>3 DEF Recursion
    <2> QED
      BY <2>1, Fixpoint

(* A set that has a node whenever it has those below it has all nodes.     *)
LEMMA NodeInduction ==
  ASSUME IsNodeSet, NEW S,
         \A n \in Node : (\A o \in Children(n) : o \in S) => n \in S
  PROVE  \A n \in Node : n \in S
  <1> PICK rank : Ranked(Node, rank)
    BY DEF IsNodeSet, NodeSet
  <1> SUFFICES ASSUME NEW n \in Node, n \notin S PROVE FALSE
    OBVIOUS
  <1> DEFINE bad == {i \in Nat : \E m \in Node : m \notin S /\ rank[m] = i}
  <1>1. bad # {}
    <2>1. rank[n] \in bad
      BY DEF Ranked
    <2> QED
      BY <2>1
  <1>2. PICK i \in bad : \A j \in bad : i <= j
    <2> HIDE DEF bad
    <2>1. bad \in SUBSET Nat
      BY DEF bad
    <2> QED
      BY <1>1, <2>1, NatMin
  <1>3. PICK m \in Node : m \notin S /\ rank[m] = i
    BY <1>2
  <1>4. ASSUME NEW o \in Children(m), o \notin S PROVE FALSE
    <2>1. o \in Node
      BY ChildrenOf
    <2>2. rank[o] \in Nat /\ rank[m] \in Nat /\ rank[o] < rank[m]
      BY <2>1 DEF Ranked
    <2>3. rank[o] \in bad
      BY <1>4, <2>1, <2>2
    <2> QED
      BY <1>2, <1>3, <2>2, <2>3
  <1> QED
    BY <1>3, <1>4

(* The meaning of a node, by its type.                                     *)
LEMMA HoldsEqs ==
  ASSUME IsNodeSet, NEW e, NEW n \in Node
  PROVE  /\ Holds(n, e) \in BOOLEAN
         /\ IsConst(n) => (Holds(n, e) <=> (n = TrueNode))
         /\ Type(n) = "LITERAL" => (Holds(n, e) <=> (e[LitVar(n)] = Positive(n)))
         /\ Type(n) = "NEGATION" => (Holds(n, e) <=> ~ Holds(Operand(n), e))
         /\ Type(n) = "AND" => (Holds(n, e) <=> \A o \in Operands(n) : Holds(o, e))
         /\ Type(n) = "OR" => (Holds(n, e) <=> \E o \in Operands(n) : Holds(o, e))
  <1> DEFINE step(h) ==
        [m \in Node |-> CASE IsConst(m)           -> m = TrueNode
              [] Type(m) = "LITERAL"  -> e[LitVar(m)] = Positive(m)
              [] Type(m) = "NEGATION" -> ~ h[Operand(m)]
              [] Type(m) = "AND"      -> \A o \in Operands(m) : h[o]
              [] OTHER                -> \E o \in Operands(m) : h[o]]
      F == [h \in [Node -> BOOLEAN] |-> step(h)]
      val == CHOOSE h : h = step(h)
  <1>1. ASSUME NEW h, NEW m \in Node
        PROVE  /\ step(h)[m] \in BOOLEAN
               /\ IsConst(m) => (step(h)[m] <=> (m = TrueNode))
               /\ Type(m) = "LITERAL" => (step(h)[m] <=> (e[LitVar(m)] = Positive(m)))
               /\ Type(m) = "NEGATION" => (step(h)[m] <=> ~ h[Operand(m)])
               /\ Type(m) = "AND" => (step(h)[m] <=> \A o \in Operands(m) : h[o])
               /\ Type(m) = "OR" => (step(h)[m] <=> \E o \in Operands(m) : h[o])
    BY Shape
  <1>2. F \in [[Node -> BOOLEAN] -> [Node -> BOOLEAN]]
    BY <1>1
  <1>3. ASSUME NEW f \in [Node -> BOOLEAN], NEW g \in [Node -> BOOLEAN], NEW m \in Node,
               \A o \in Children(m) : f[o] = g[o]
        PROVE  step(f)[m] = step(g)[m]
    <2> HIDE DEF step
    <2>1. CASE IsConst(m) \/ Type(m) = "LITERAL"
      BY <1>1, <2>1
    <2>2. CASE Type(m) = "NEGATION"
      BY <1>1, <1>3, <2>2, ChildrenOf
    <2>3. CASE Type(m) = "AND"
      BY <1>1, <1>3, <2>3, ChildrenOf DEF Gates
    <2>4. CASE Type(m) = "OR"
      BY <1>1, <1>3, <2>4, ChildrenOf DEF Gates
    <2> QED
      BY <2>1, <2>2, <2>3, <2>4, Shape
  <1>4. \E h \in [Node -> BOOLEAN] : h = F[h]
    <2>1. \A f \in [Node -> BOOLEAN] : F[f] = step(f)
      OBVIOUS
    <2> HIDE DEF F, step
    <2>2. \A f, g \in [Node -> BOOLEAN], m \in Node :
            (\A o \in Children(m) : f[o] = g[o]) => F[f][m] = F[g][m]
      BY <1>3, <2>1
    <2> QED
      BY <1>2, <2>2, NodeFixpoint
  <1>5. val = step(val)
    BY <1>4
  <1>6. \A m : Holds(m, e) = val[m]
    BY DEF Holds
  <1> HIDE DEF val
  <1>7. \A m \in Node : Holds(m, e) = step(val)[m]
    BY <1>5, <1>6
  <1> HIDE DEF step
  <1> QED
    BY <1>1, <1>6, <1>7

(* The variables of a node, the same way. *)
LEMMA VarsOfEqs ==
  ASSUME IsNodeSet, NEW n \in Node
  PROVE  /\ VarsOf(n) \in SUBSET Nat
         /\ Type(n) = "LITERAL" => VarsOf(n) = {LitVar(n)}
         /\ Type(n) # "LITERAL" => VarsOf(n) = UNION {VarsOf(o) : o \in Children(n)}
  <1> DEFINE step(h) ==
        [m \in Node |-> IF Type(m) = "LITERAL" THEN {LitVar(m)}
                        ELSE UNION {h[o] : o \in Children(m)}]
      F == [h \in [Node -> SUBSET Nat] |-> step(h)]
      val == CHOOSE h : h = step(h)
  <1>1. ASSUME NEW h \in [Node -> SUBSET Nat], NEW m \in Node
        PROVE  step(h)[m] \in SUBSET Nat
    BY Shape, ChildrenOf
  <1>2. F \in [[Node -> SUBSET Nat] -> [Node -> SUBSET Nat]]
    BY <1>1
  <1>3. ASSUME NEW f \in [Node -> SUBSET Nat], NEW g \in [Node -> SUBSET Nat], NEW m \in Node,
               \A o \in Children(m) : f[o] = g[o]
        PROVE  step(f)[m] = step(g)[m]
    <2>1. UNION {f[o] : o \in Children(m)} = UNION {g[o] : o \in Children(m)}
      BY <1>3
    <2> QED
      BY <2>1
  <1>4. \E h \in [Node -> SUBSET Nat] : h = F[h]
    <2>1. \A f \in [Node -> SUBSET Nat] : F[f] = step(f)
      OBVIOUS
    <2> HIDE DEF F, step
    <2>2. \A f, g \in [Node -> SUBSET Nat], m \in Node :
            (\A o \in Children(m) : f[o] = g[o]) => F[f][m] = F[g][m]
      BY <1>3, <2>1
    <2> QED
      BY <1>2, <2>2, NodeFixpoint
  <1>5. PICK h \in [Node -> SUBSET Nat] : h = step(h)
    BY <1>4
  <1>6. val = step(val)
    BY <1>5
  <1>7. \A m : VarsOf(m) = val[m]
    BY DEF VarsOf
  <1> HIDE DEF val
  <1>8. \A m \in Node :
            /\ Type(m) = "LITERAL" => val[m] = {LitVar(m)}
            /\ Type(m) # "LITERAL" => val[m] = UNION {val[o] : o \in Children(m)}
    BY <1>6
  <1>9. \A m \in Node : val[m] \in SUBSET Nat
    <2> DEFINE S == {m \in Node : val[m] \in SUBSET Nat}
    <2>1. ASSUME NEW m \in Node, \A o \in Children(m) : o \in S PROVE m \in S
      BY <1>8, <2>1, Shape
    <2> HIDE DEF S
    <2>2. \A m \in Node : m \in S
      BY <2>1, NodeInduction
    <2> QED
      BY <2>2 DEF S
  <1> QED
    BY <1>7, <1>8, <1>9

(* The variables of a node, by its type.                                   *)
LEMMA VarsOfCases ==
  ASSUME IsNodeSet, NEW n \in Node
  PROVE  /\ IsConst(n) => VarsOf(n) = {}
         /\ Type(n) = "LITERAL" => VarsOf(n) = {LitVar(n)}
         /\ Type(n) = "NEGATION" => VarsOf(n) = VarsOf(Operand(n))
         /\ Type(n) \in Gates => VarsOf(n) = UNION {VarsOf(o) : o \in Operands(n)}
  <1>1. CASE IsConst(n)
    <2>1. Children(n) = {} /\ Type(n) # "LITERAL" /\ Type(n) # "NEGATION" /\ Type(n) \notin Gates
      BY <1>1, Shape, ChildrenOf DEF Gates
    <2>2. VarsOf(n) = UNION {VarsOf(o) : o \in {}}
      BY <2>1, VarsOfEqs
    <2> QED
      BY <2>1, <2>2
  <1>2. CASE Type(n) = "LITERAL"
    BY <1>2, VarsOfEqs, Shape DEF Gates
  <1>3. CASE Type(n) = "NEGATION"
    <2>1. Children(n) = {Operand(n)} /\ ~ IsConst(n) /\ Type(n) \notin Gates
      BY <1>3, Shape, ChildrenOf DEF Gates
    <2>2. VarsOf(n) = UNION {VarsOf(o) : o \in {Operand(n)}}
      BY <1>3, <2>1, VarsOfEqs
    <2> QED
      BY <1>3, <2>1, <2>2
  <1>4. CASE Type(n) \in Gates
    <2>1. Children(n) = Operands(n) /\ ~ IsConst(n) /\ Type(n) # "NEGATION" /\ Type(n) # "LITERAL"
      BY <1>4, Shape, ChildrenOf DEF Gates
    <2> QED
      BY <1>4, <2>1, VarsOfEqs
  <1> QED
    BY <1>1, <1>2, <1>3, <1>4, Shape DEF Gates

(* The two constants.                                                      *)
LEMMA ConstNodes ==
  ASSUME IsNodeSet
  PROVE  /\ FalseNode \in Node /\ TrueNode \in Node /\ FalseNode # TrueNode
         /\ IsConst(FalseNode) /\ IsConst(TrueNode)
         /\ VarsOf(FalseNode) = {} /\ VarsOf(TrueNode) = {}
         /\ \A e : Holds(TrueNode, e) /\ ~ Holds(FalseNode, e)
         /\ \A b \in BOOLEAN : ConstNode(b) \in Node /\ VarsOf(ConstNode(b)) = {}
                /\ \A e : Holds(ConstNode(b), e) <=> b
  <1>1. FalseNode \in Node /\ TrueNode \in Node
    BY DEF IsNodeSet, NodeSet, ConstNode
  <1>2. FalseNode # TrueNode /\ IsConst(FalseNode) /\ IsConst(TrueNode)
    BY DEF FalseNode, TrueNode, IsConst
  <1>3. VarsOf(FalseNode) = {} /\ VarsOf(TrueNode) = {}
    BY <1>1, <1>2, VarsOfCases
  <1>4. \A e : Holds(TrueNode, e) /\ ~ Holds(FalseNode, e)
    BY <1>1, <1>2, HoldsEqs
  <1> QED
    BY <1>1, <1>2, <1>3, <1>4 DEF ConstNode

(* The complement of a literal. *)
LEMMA ComplementRight ==
  ASSUME IsNodeSet, NEW n \in Node, Type(n) = "LITERAL"
  PROVE  /\ Complement(n) \in Node /\ Type(Complement(n)) = "LITERAL"
         /\ LitVar(Complement(n)) = LitVar(n) /\ Positive(Complement(n)) = ~ Positive(n)
         /\ Complement(Complement(n)) = n /\ Complement(n) # n
         /\ VarsOf(Complement(n)) = VarsOf(n)
         /\ \A e : e[LitVar(n)] \in BOOLEAN => (Holds(Complement(n), e) <=> ~ Holds(n, e))
  <1>1. Complement(n) \in Node
    <2>1. LitVar(n) \in Nat /\ (~ Positive(n)) \in BOOLEAN
      BY Shape
    <2> QED
      BY <2>1 DEF IsNodeSet, NodeSet, Complement
  <1>2. n = Literal(LitVar(n), Positive(n)) /\ Positive(n) \in BOOLEAN
    BY Shape
  <1>3. Type(Complement(n)) = "LITERAL" /\ LitVar(Complement(n)) = LitVar(n) /\ Positive(Complement(n)) = ~ Positive(n)
    BY <1>2 DEF Complement, Literal, Type, LitVar, Positive
  <1>4. Complement(Complement(n)) = n
    BY <1>2, <1>3 DEF Complement, Literal
  <1>5. Complement(n) # n
    BY <1>2, <1>3
  <1>6. VarsOf(Complement(n)) = VarsOf(n)
    BY <1>1, <1>3, VarsOfCases
  <1>7. ASSUME NEW e, e[LitVar(n)] \in BOOLEAN
        PROVE  Holds(Complement(n), e) <=> ~ Holds(n, e)
    <2>1. Holds(Complement(n), e) <=> (e[LitVar(n)] = Positive(Complement(n)))
      BY <1>1, <1>3, HoldsEqs
    <2>2. Holds(n, e) <=> (e[LitVar(n)] = Positive(n))
      BY HoldsEqs
    <2>3. (e[LitVar(n)] = ~ Positive(n)) <=> ~ (e[LitVar(n)] = Positive(n))
      BY <1>2, <1>7
    <2> QED
      BY <1>3, <2>1, <2>2, <2>3
  <1> QED
    BY <1>1, <1>3, <1>4, <1>5, <1>6, <1>7

(* An assignment has a Boolean for every variable of a node. *)
Defined(e, n) == \A v \in VarsOf(n) : e[v] \in BOOLEAN

(* An assignment of the variables of a node is one of those of its         *)
(* operands.                                                               *)
LEMMA DefinedParts ==
  ASSUME IsNodeSet, NEW n \in Node, NEW e, Defined(e, n)
  PROVE  /\ Type(n) = "LITERAL" => e[LitVar(n)] \in BOOLEAN
         /\ Type(n) = "NEGATION" => Defined(e, Operand(n))
         /\ Type(n) \in Gates => \A o \in Operands(n) : Defined(e, o)
  BY VarsOfCases DEF Defined

(* Expressions::make_not makes the node that means the contrary. *)
LEMMA MakeNotRight ==
  ASSUME IsNodeSet, NEW n \in Node
  PROVE  /\ MakeNot(n) \in Node
         /\ VarsOf(MakeNot(n)) = VarsOf(n)
         /\ \A e : Defined(e, n) => (Holds(MakeNot(n), e) <=> ~ Holds(n, e))
  <1>1. CASE IsConst(n)
    <2>1. MakeNot(n) = ConstNode(n = FalseNode)
      BY <1>1, Shape DEF MakeNot, Gates
    <2>2. n = TrueNode \/ n = FalseNode
      BY <1>1 DEF IsConst
    <2> QED
      BY <2>1, <2>2, ConstNodes DEF ConstNode
  <1>2. CASE Type(n) = "LITERAL"
    <2>1. MakeNot(n) = Complement(n)
      BY <1>2, Shape DEF MakeNot, Gates
    <2> QED
      BY <1>2, <2>1, ComplementRight, DefinedParts
  <1>3. CASE Type(n) = "NEGATION"
    <2>1. MakeNot(n) = Operand(n)
      BY <1>3, Shape DEF MakeNot, Gates
    <2> QED
      BY <1>3, <2>1, Shape, VarsOfCases, HoldsEqs
  <1>4. CASE Type(n) \in Gates
    <2>1. MakeNot(n) = <<"NEGATION", n>>
      BY <1>4, Shape DEF MakeNot, Gates
    <2>2. MakeNot(n) \in Node /\ Type(MakeNot(n)) = "NEGATION" /\ Operand(MakeNot(n)) = n
      BY <1>4, <2>1 DEF IsNodeSet, NodeSet, Type, Operand
    <2> QED
      BY <2>2, VarsOfCases, HoldsEqs
  <1> QED
    BY <1>1, <1>2, <1>3, <1>4, Shape DEF Gates

(* A gate node. *)
LEMMA GateNode ==
  ASSUME IsNodeSet, NEW t \in Gates, NEW ops \in SUBSET Node, ops # {}, IsFiniteSet(ops)
  PROVE  /\ <<t, ops>> \in Node /\ Type(<<t, ops>>) = t /\ Operands(<<t, ops>>) = ops
         /\ VarsOf(<<t, ops>>) = UNION {VarsOf(o) : o \in ops}
         /\ \A e : t = "AND" => (Holds(<<t, ops>>, e) <=> \A o \in ops : Holds(o, e))
         /\ \A e : t = "OR" => (Holds(<<t, ops>>, e) <=> \E o \in ops : Holds(o, e))
  <1>1. <<t, ops>> \in Node
    BY DEF IsNodeSet, NodeSet
  <1>2. Type(<<t, ops>>) = t /\ Operands(<<t, ops>>) = ops
    BY DEF Type, Operands
  <1> QED
    BY <1>1, <1>2, VarsOfCases, HoldsEqs

(* A finite set is empty, a singleton or larger.                           *)
LEMMA Sizes ==
  ASSUME NEW S, IsFiniteSet(S)
  PROVE  \/ S = {}
         \/ Cardinality(S) = 1 /\ \E x : S = {x}
         \/ Cardinality(S) > 1 /\ S # {} /\ \A x : S # {x}
  <1>1. Cardinality(S) \in Nat
    BY FS_CardinalityType
  <1>2. Cardinality(S) = 0 <=> S = {}
    BY FS_EmptySet
  <1>3. Cardinality(S) = 1 => \E x : S = {x}
    BY FS_Singleton
  <1>4. \A x : S = {x} => Cardinality(S) = 1
    BY FS_Singleton
  <1> QED
    BY <1>1, <1>2, <1>3, <1>4

(* Operands that contradict each other. *)
LEMMA ComplementaryOperands ==
  ASSUME IsNodeSet, NEW ops \in SUBSET Node, ContainsCompl(ops), NEW e, \A o \in ops : Defined(e, o)
  PROVE  (\E o \in ops : Holds(o, e)) /\ (\E o \in ops : ~ Holds(o, e))
  <1>1. PICK n \in ops : Type(n) = "LITERAL" /\ Complement(n) \in ops
    BY DEF ContainsCompl
  <1>2. Holds(Complement(n), e) <=> ~ Holds(n, e)
    BY <1>1, ComplementRight, DefinedParts
  <1> QED
    BY <1>1, <1>2

(* Expressions::make_and and make_or. *)
LEMMA MakeAndRight ==
  ASSUME IsNodeSet, NEW ops \in SUBSET Node, IsFiniteSet(ops)
  PROVE  /\ MakeAnd(ops) \in Node
         /\ VarsOf(MakeAnd(ops)) \subseteq UNION {VarsOf(o) : o \in ops}
         /\ \A e : (\A o \in ops : Defined(e, o)) =>
                (Holds(MakeAnd(ops), e) <=> \A o \in ops : Holds(o, e))
  <1>1. CASE ops = {}
    <2>1. Cardinality(ops) = 0
      BY <1>1, FS_EmptySet
    <2>2. MakeAnd(ops) = TrueNode
      BY <1>1, <2>1 DEF MakeAnd
    <2> QED
      BY <1>1, <2>2, ConstNodes
  <1>2. ASSUME NEW x, ops = {x}, Cardinality(ops) = 1 PROVE MakeAnd(ops) = x
    <2>1. ops # {} /\ ~ (Cardinality(ops) > 1) /\ (CHOOSE n \in ops : TRUE) = x
      BY <1>2
    <2> QED
      BY <1>2, <2>1 DEF MakeAnd
  <1>3. CASE Cardinality(ops) > 1 /\ ops # {}
    <2>1. MakeAnd(ops) = IF ContainsCompl(ops) \/ FalseNode \in ops THEN FalseNode ELSE <<"AND", ops>>
      <3>1. Cardinality(ops) # 1
        BY <1>3
      <3> QED
        BY <1>3, <3>1 DEF MakeAnd
    <2>2. CASE ContainsCompl(ops) \/ FalseNode \in ops
      BY <2>1, <2>2, ConstNodes, ComplementaryOperands
    <2>3. CASE ~ (ContainsCompl(ops) \/ FalseNode \in ops)
      <3>1. MakeAnd(ops) = <<"AND", ops>> /\ "AND" \in Gates
        BY <2>1, <2>3 DEF Gates
      <3> QED
        BY <1>3, <3>1, GateNode
    <2> QED
      BY <2>2, <2>3
  <1>4. CASE Cardinality(ops) = 1 /\ \E x : ops = {x}
    <2>1. PICK x : ops = {x}
      BY <1>4
    <2>2. MakeAnd(ops) = x /\ x \in Node
      BY <1>2, <1>4, <2>1
    <2> QED
      BY <2>1, <2>2
  <1> QED
    BY <1>1, <1>3, <1>4, Sizes

(* The same for make_or, with and without options.aig.                     *)
LEMMA MakeOrRight ==
  ASSUME IsNodeSet, NEW ops \in SUBSET Node, IsFiniteSet(ops)
  PROVE  /\ MakeOr(ops) \in Node
         /\ VarsOf(MakeOr(ops)) \subseteq UNION {VarsOf(o) : o \in ops}
         /\ \A e : (\A o \in ops : Defined(e, o)) =>
                (Holds(MakeOr(ops), e) <=> \E o \in ops : Holds(o, e))
  <1>1. CASE ops = {}
    <2>1. Cardinality(ops) = 0
      BY <1>1, FS_EmptySet
    <2>2. MakeOr(ops) = FalseNode
      BY <1>1, <2>1 DEF MakeOr
    <2> QED
      BY <1>1, <2>2, ConstNodes
  <1>2. ASSUME NEW x, ops = {x}, Cardinality(ops) = 1 PROVE MakeOr(ops) = x
    <2>1. ops # {} /\ ~ (Cardinality(ops) > 1) /\ (CHOOSE n \in ops : TRUE) = x
      BY <1>2
    <2> QED
      BY <1>2, <2>1 DEF MakeOr
  <1>3. CASE Cardinality(ops) > 1 /\ ops # {} /\ \A x : ops # {x}
    <2> DEFINE kept == ops \ {FalseNode}
               negated == {MakeNot(n) : n \in kept}
    <2>1. MakeOr(ops) = IF ContainsCompl(ops) \/ TrueNode \in ops THEN TrueNode
                        ELSE IF ~ Aig THEN <<"OR", ops>> ELSE MakeNot(<<"AND", negated>>)
      <3>1. Cardinality(ops) # 1
        BY <1>3
      <3> QED
        BY <1>3, <3>1 DEF MakeOr
    <2>2. CASE ContainsCompl(ops) \/ TrueNode \in ops
      BY <2>1, <2>2, ConstNodes, ComplementaryOperands
    <2>3. CASE ~ (ContainsCompl(ops) \/ TrueNode \in ops) /\ ~ Aig
      <3>1. MakeOr(ops) = <<"OR", ops>> /\ "OR" \in Gates
        BY <2>1, <2>3 DEF Gates
      <3> QED
        BY <1>3, <3>1, GateNode
    <2>4. CASE ~ (ContainsCompl(ops) \/ TrueNode \in ops) /\ Aig
      <3>1. MakeOr(ops) = MakeNot(<<"AND", negated>>) /\ "AND" \in Gates
        BY <2>1, <2>4 DEF Gates
      <3>2. kept # {} /\ kept \in SUBSET Node /\ IsFiniteSet(kept)
        <4>1. kept \in SUBSET ops /\ kept # {}
          BY <1>3
        <4> HIDE DEF kept
        <4> QED
          BY <4>1, FS_Subset
      <3>3. negated # {} /\ negated \in SUBSET Node
        BY <3>2, MakeNotRight
      <3>4. IsFiniteSet(negated)
        <4>1. IsFiniteSet({[n \in kept |-> MakeNot(n)][x] : x \in kept})
          BY <3>2, FiniteImage
        <4>2. negated = {[n \in kept |-> MakeNot(n)][x] : x \in kept}
          OBVIOUS
        <4> QED
          BY <4>1, <4>2
      <3>5. UNION {VarsOf(o) : o \in negated} \subseteq UNION {VarsOf(o) : o \in ops}
        BY <3>2, MakeNotRight
      <3> HIDE DEF kept, negated
      <3>6. <<"AND", negated>> \in Node /\ VarsOf(<<"AND", negated>>) = UNION {VarsOf(o) : o \in negated}
        BY <3>1, <3>3, <3>4, GateNode
      <3>7. MakeOr(ops) \in Node /\ VarsOf(MakeOr(ops)) \subseteq UNION {VarsOf(o) : o \in ops}
        BY <3>1, <3>5, <3>6, MakeNotRight
      <3>8. ASSUME NEW e, \A o \in ops : Defined(e, o)
            PROVE  Holds(MakeOr(ops), e) <=> \E o \in ops : Holds(o, e)
        <4>1. \A v \in UNION {VarsOf(o) : o \in ops} : e[v] \in BOOLEAN
          BY <3>8 DEF Defined
        <4>2. Defined(e, <<"AND", negated>>)
          BY <3>5, <3>6, <4>1 DEF Defined
        <4>3. Holds(MakeOr(ops), e) <=> ~ Holds(<<"AND", negated>>, e)
          BY <3>1, <3>6, <4>2, MakeNotRight
        <4>4. Holds(<<"AND", negated>>, e) <=> \A o \in negated : Holds(o, e)
          BY <3>1, <3>3, <3>4, GateNode
        <4>5. (\A o \in negated : Holds(o, e)) <=> \A n \in kept : ~ Holds(n, e)
          BY <3>8, MakeNotRight DEF kept, negated
        <4>6. ~ Holds(FalseNode, e)
          BY ConstNodes
        <4> QED
          BY <4>3, <4>4, <4>5, <4>6 DEF kept
      <3> QED
        BY <3>7, <3>8
    <2> QED
      BY <2>2, <2>3, <2>4
  <1>4. CASE Cardinality(ops) = 1 /\ \E x : ops = {x}
    <2>1. PICK x : ops = {x}
      BY <1>4
    <2>2. MakeOr(ops) = x /\ x \in Node
      BY <1>2, <1>4, <2>1
    <2> QED
      BY <2>1, <2>2
  <1> QED
    BY <1>1, <1>3, <1>4, Sizes

(* What a gate of the type over the nodes S means. *)
Means(type, S, e) ==
    IF type = "AND" THEN \A o \in S : Holds(o, e) ELSE \E o \in S : Holds(o, e)

(* A gate means what its type says of its operands.                        *)
LEMMA GateMeans ==
  ASSUME IsNodeSet, NEW n \in Node, Type(n) \in Gates, NEW e
  PROVE  Holds(n, e) <=> Means(Type(n), Operands(n), e)
  BY HoldsEqs DEF Means, Gates

(* make_and and make_or, by the type of the gate.                          *)
LEMMA MakeRight ==
  ASSUME IsNodeSet, NEW type \in Gates, NEW ops \in SUBSET Node, IsFiniteSet(ops)
  PROVE  /\ Make(type, ops) \in Node
         /\ VarsOf(Make(type, ops)) \subseteq UNION {VarsOf(o) : o \in ops}
         /\ \A e : (\A o \in ops : Defined(e, o)) =>
                (Holds(Make(type, ops), e) <=> Means(type, ops, e))
  <1>1. CASE type = "AND"
    BY <1>1, MakeAndRight DEF Make, Means
  <1>2. CASE type = "OR"
    BY <1>2, MakeOrRight DEF Make, Means
  <1> QED
    BY <1>1, <1>2 DEF Gates

(* The constants a gate drops and the ones that decide it.                 *)
LEMMA NeutralAbsorb ==
  ASSUME IsNodeSet, NEW type \in Gates
  PROVE  /\ Neutral(type) \in Node /\ Absorb(type) \in Node
         /\ VarsOf(Neutral(type)) = {} /\ VarsOf(Absorb(type)) = {}
         /\ IsConst(Neutral(type)) /\ IsConst(Absorb(type))
         /\ \A e : (Holds(Neutral(type), e) <=> type = "AND") /\ (Holds(Absorb(type), e) <=> type = "OR")
         /\ \A S, e : Absorb(type) \in S => (Means(type, S, e) <=> type = "OR")
  <1>1. CASE type = "AND"
    <2>1. Neutral(type) = TrueNode /\ Absorb(type) = FalseNode /\ type # "OR"
      BY <1>1 DEF Neutral, Absorb, ConstNode
    <2> QED
      BY <1>1, <2>1, ConstNodes DEF Means
  <1>2. CASE type = "OR"
    <2>1. Neutral(type) = FalseNode /\ Absorb(type) = TrueNode /\ type # "AND"
      BY <1>2 DEF Neutral, Absorb, ConstNode
    <2> QED
      BY <1>2, <2>1, ConstNodes DEF Means
  <1> QED
    BY <1>1, <1>2 DEF Gates

(* Splicing, operand by operand.                                           *)
LEMMA SplicedEqs ==
  ASSUME IsNodeSet, NEW type \in Gates, NEW n \in Node
  PROVE  Spliced(n, type) = IF n = Neutral(type) THEN {}
                            ELSE IF Melts(n, type)
                                 THEN UNION {Spliced(c, type) : c \in Operands(n)} ELSE {n}
  <1> DEFINE step(h) ==
        [m \in Node |-> IF m = Neutral(type) THEN {}
                        ELSE IF Melts(m, type) THEN UNION {h[c] : c \in Operands(m)} ELSE {m}]
      F == [h \in [Node -> SUBSET Node] |-> step(h)]
      val == CHOOSE h : h = step(h)
  <1>0. \A m \in Node : m # Neutral(type) /\ Melts(m, type) =>
            Type(m) \in Gates /\ Operands(m) \in SUBSET Node /\ Children(m) = Operands(m)
    BY Shape, ChildrenOf DEF Melts
  <1>1. ASSUME NEW h \in [Node -> SUBSET Node], NEW m \in Node
        PROVE  step(h)[m] \in SUBSET Node
    BY <1>0
  <1>2. F \in [[Node -> SUBSET Node] -> [Node -> SUBSET Node]]
    BY <1>1
  <1>3. ASSUME NEW f \in [Node -> SUBSET Node], NEW g \in [Node -> SUBSET Node], NEW m \in Node,
               \A o \in Children(m) : f[o] = g[o]
        PROVE  step(f)[m] = step(g)[m]
    <2>1. CASE m # Neutral(type) /\ Melts(m, type)
      <3>1. UNION {f[o] : o \in Operands(m)} = UNION {g[o] : o \in Operands(m)}
        BY <1>0, <1>3, <2>1
      <3> QED
        BY <2>1, <3>1
    <2> QED
      BY <2>1
  <1>4. \E h \in [Node -> SUBSET Node] : h = F[h]
    <2>1. \A f \in [Node -> SUBSET Node] : F[f] = step(f)
      OBVIOUS
    <2> HIDE DEF F, step
    <2>2. \A f, g \in [Node -> SUBSET Node], m \in Node :
            (\A o \in Children(m) : f[o] = g[o]) => F[f][m] = F[g][m]
      BY <1>3, <2>1
    <2> QED
      BY <1>2, <2>2, NodeFixpoint
  <1>5. PICK h \in [Node -> SUBSET Node] : h = step(h)
    BY <1>4
  <1>6. val = step(val)
    BY <1>5
  <1>7. \A m : Spliced(m, type) = val[m]
    BY DEF Spliced
  <1> HIDE DEF val
  <1>8. val[n] = step(val)[n]
    BY <1>6
  <1> QED
    BY <1>7, <1>8

(* Splicing an operand into a gate does not change what the gate means.    *)
LEMMA SplicedRight ==
  ASSUME IsNodeSet, NEW type \in Gates, NEW n \in Node
  PROVE  /\ Spliced(n, type) \in SUBSET Node
         /\ IsFiniteSet(Spliced(n, type))
         /\ \A o \in Spliced(n, type) : VarsOf(o) \subseteq VarsOf(n)
         /\ \A e : Means(type, Spliced(n, type), e) <=> Holds(n, e)
  <1> DEFINE Right(m) ==
        /\ Spliced(m, type) \in SUBSET Node
        /\ IsFiniteSet(Spliced(m, type))
        /\ \A o \in Spliced(m, type) : VarsOf(o) \subseteq VarsOf(m)
        /\ \A e : Means(type, Spliced(m, type), e) <=> Holds(m, e)
      S == {m \in Node : Right(m)}
  <1>1. ASSUME NEW m \in Node, \A o \in Children(m) : o \in S PROVE Right(m)
    <2>1. CASE m = Neutral(type)
      <3>1. Spliced(m, type) = {}
        BY <2>1, SplicedEqs
      <3>2. \A e : Means(type, {}, e) <=> Holds(m, e)
        BY <2>1, NeutralAbsorb DEF Means
      <3> QED
        BY <3>1, <3>2, FS_EmptySet
    <2>2. CASE m # Neutral(type) /\ Melts(m, type)
      <3>1. Type(m) = type /\ Children(m) = Operands(m) /\ Operands(m) \in SUBSET Node
            /\ IsFiniteSet(Operands(m)) /\ VarsOf(m) = UNION {VarsOf(o) : o \in Operands(m)}
        BY <2>2, Shape, ChildrenOf, VarsOfCases DEF Melts
      <3>2. Spliced(m, type) = UNION {Spliced(c, type) : c \in Operands(m)}
        BY <2>2, SplicedEqs
      <3>3. \A c \in Operands(m) : Right(c)
        BY <1>1, <3>1
      <3>4. IsFiniteSet(Spliced(m, type))
        <4> DEFINE g == [c \in Operands(m) |-> Spliced(c, type)]
        <4>1. IsFiniteSet({g[c] : c \in Operands(m)})
          BY <3>1, FiniteImage
        <4>2. {g[c] : c \in Operands(m)} = {Spliced(c, type) : c \in Operands(m)}
          OBVIOUS
        <4>3. \A T \in {Spliced(c, type) : c \in Operands(m)} : IsFiniteSet(T)
          BY <3>3
        <4> QED
          BY <3>2, <4>1, <4>2, <4>3, FS_UNION
      <3>5. ASSUME NEW e PROVE Means(type, Spliced(m, type), e) <=> Holds(m, e)
        <4>1. Holds(m, e) <=> Means(type, Operands(m), e)
          BY <3>1, GateMeans
        <4>2. \A c \in Operands(m) : Means(type, Spliced(c, type), e) <=> Holds(c, e)
          BY <3>3
        <4> QED
          BY <3>2, <4>1, <4>2 DEF Means
      <3>6. Spliced(m, type) \in SUBSET Node /\ \A o \in Spliced(m, type) : VarsOf(o) \subseteq VarsOf(m)
        BY <3>1, <3>2, <3>3
      <3> QED
        BY <3>4, <3>5, <3>6
    <2>3. CASE m # Neutral(type) /\ ~ Melts(m, type)
      <3>1. Spliced(m, type) = {m}
        BY <2>3, SplicedEqs
      <3>2. IsFiniteSet({m})
        BY FS_Singleton
      <3> QED
        BY <3>1, <3>2 DEF Means
    <2> QED
      BY <2>1, <2>2, <2>3
  <1>2. \A m \in Node : m \in S
    <2>1. \A m \in Node : (\A o \in Children(m) : o \in S) => m \in S
      BY <1>1
    <2> HIDE DEF S
    <2> QED
      BY <2>1, NodeInduction
  <1> QED
    BY <1>2

(* The same for all operands of a gate.                                    *)
LEMMA SplicedAllRight ==
  ASSUME IsNodeSet, NEW type \in Gates, NEW R \in SUBSET Node, IsFiniteSet(R)
  PROVE  /\ SplicedAll(R, type) \in SUBSET Node
         /\ IsFiniteSet(SplicedAll(R, type))
         /\ \A o \in SplicedAll(R, type) : \E r \in R : VarsOf(o) \subseteq VarsOf(r)
         /\ \A e : Means(type, SplicedAll(R, type), e) <=> Means(type, R, e)
  <1>1. SplicedAll(R, type) = UNION {Spliced(r, type) : r \in R}
    BY DEF SplicedAll
  <1>2. IsFiniteSet(SplicedAll(R, type))
    <2> DEFINE g == [c \in R |-> Spliced(c, type)]
    <2>1. IsFiniteSet({g[c] : c \in R})
      BY FiniteImage
    <2>2. {g[c] : c \in R} = {Spliced(c, type) : c \in R}
      OBVIOUS
    <2>3. \A T \in {Spliced(c, type) : c \in R} : IsFiniteSet(T)
      BY SplicedRight
    <2> QED
      BY <1>1, <2>1, <2>2, <2>3, FS_UNION
  <1>3. SplicedAll(R, type) \in SUBSET Node
    BY <1>1, SplicedRight
  <1>4. \A o \in SplicedAll(R, type) : \E r \in R : VarsOf(o) \subseteq VarsOf(r)
    BY <1>1, SplicedRight
  <1>5. ASSUME NEW e PROVE Means(type, SplicedAll(R, type), e) <=> Means(type, R, e)
    <2>1. \A r \in R : Means(type, Spliced(r, type), e) <=> Holds(r, e)
      BY SplicedRight
    <2> QED
      BY <1>1, <2>1 DEF Means
  <1> QED
    BY <1>2, <1>3, <1>4, <1>5

(* The results of a visit, when f tells what became of an operand.         *)
LEMMA VisitedBy ==
  ASSUME NEW O, NEW f, NEW type
  PROVE  /\ Results({<<o, f[o]>> : o \in O}) = {f[o] : o \in O}
         /\ Changed({<<o, f[o]>> : o \in O}, type) <=>
                \E o \in O : f[o] # o \/ Melts(f[o], type)
  <1> DEFINE visited == {<<o, f[o]>> : o \in O}
  <1>1. \A p \in visited : \E o \in O : p = <<o, f[o]>> /\ p[1] = o /\ p[2] = f[o]
    OBVIOUS
  <1>2. \A o \in O : \E p \in visited : p[1] = o /\ p[2] = f[o]
    <2> SUFFICES ASSUME NEW o \in O PROVE \E p \in visited : p[1] = o /\ p[2] = f[o]
      OBVIOUS
    <2>1. <<o, f[o]>> \in visited /\ <<o, f[o]>>[1] = o /\ <<o, f[o]>>[2] = f[o]
      OBVIOUS
    <2> HIDE DEF visited
    <2> QED
      BY <2>1
  <1> HIDE DEF visited
  <1>3. Results(visited) = {f[o] : o \in O}
    BY <1>1, <1>2 DEF Results
  <1>4. Changed(visited, type) <=> \E o \in O : f[o] # o \/ Melts(f[o], type)
    BY <1>1, <1>2 DEF Changed
  <1> QED
    BY <1>3, <1>4 DEF visited

(* A gate rebuilt from what became of its operands. *)
RebuiltFrom(n, f) == Rebuild(n, {<<o, f[o]>> : o \in Operands(n)})

(* Only what became of the operands counts.                                *)
LEMMA RebuiltAlike ==
  ASSUME NEW n, NEW f, NEW g, \A o \in Operands(n) : f[o] = g[o]
  PROVE  RebuiltFrom(n, f) = RebuiltFrom(n, g)
  <1>1. {<<o, f[o]>> : o \in Operands(n)} = {<<o, g[o]>> : o \in Operands(n)}
    OBVIOUS
  <1> QED
    BY <1>1 DEF RebuiltFrom

(* A gate rebuilt of nodes that mean what its operands mean (under another *)
(* assignment) means what it meant.                                        *)
LEMMA RebuildRight ==
  ASSUME IsNodeSet, NEW n \in Node, Type(n) \in Gates,
         NEW f, \A o \in Operands(n) : f[o] \in Node
  PROVE  /\ RebuiltFrom(n, f) \in Node
         /\ VarsOf(RebuiltFrom(n, f)) \subseteq UNION {VarsOf(f[o]) : o \in Operands(n)}
         /\ \A e, d : /\ \A o \in Operands(n) : Defined(e, f[o])
                      /\ \A o \in Operands(n) : Holds(f[o], e) <=> Holds(o, d)
                      => (Holds(RebuiltFrom(n, f), e) <=> Holds(n, d))
  <1> DEFINE r == RebuiltFrom(n, f)
  <1> DEFINE visited == {<<o, f[o]>> : o \in Operands(n)}
             type == Type(n)
             R == {f[o] : o \in Operands(n)}
  <1>1. /\ Results(visited) = R
        /\ Changed(visited, type) <=> \E o \in Operands(n) : f[o] # o \/ Melts(f[o], type)
    BY VisitedBy
  <1>2. R \in SUBSET Node /\ IsFiniteSet(R)
    BY Shape, FiniteImage
  <1>3. \A e, d : (\A o \in Operands(n) : Holds(f[o], e) <=> Holds(o, d))
            => (Means(type, R, e) <=> Holds(n, d))
    <2> SUFFICES ASSUME NEW e, NEW d, \A o \in Operands(n) : Holds(f[o], e) <=> Holds(o, d)
                 PROVE  Means(type, R, e) <=> Holds(n, d)
      OBVIOUS
    <2>1. Holds(n, d) <=> Means(type, Operands(n), d)
      BY GateMeans
    <2> QED
      BY <2>1 DEF Means
  <1>4. r = IF Absorb(type) \in R THEN Absorb(type)
            ELSE IF ~ Changed(visited, type) THEN n ELSE Make(type, SplicedAll(R, type))
    BY <1>1 DEF Rebuild, RebuiltFrom
  <1>5. CASE Absorb(type) \in R
    <2>1. r = Absorb(type)
      BY <1>4, <1>5
    <2>2. r \in Node /\ VarsOf(r) = {} /\ \A e : Holds(r, e) <=> Means(type, R, e)
      BY <1>5, <2>1, NeutralAbsorb
    <2> QED
      BY <1>3, <2>2
  <1>6. CASE Absorb(type) \notin R /\ ~ Changed(visited, type)
    <2>1. r = n
      BY <1>4, <1>6
    <2>2. \A o \in Operands(n) : f[o] = o
      BY <1>1, <1>6
    <2>3. VarsOf(n) = UNION {VarsOf(f[o]) : o \in Operands(n)}
      BY <2>2, VarsOfCases
    <2>4. ASSUME NEW e, NEW d, \A o \in Operands(n) : Holds(f[o], e) <=> Holds(o, d)
          PROVE  Holds(n, e) <=> Holds(n, d)
      <3>1. \A o \in Operands(n) : Holds(o, e) <=> Holds(o, d)
        BY <2>2, <2>4
      <3> QED
        BY <3>1, GateMeans DEF Means
    <2> QED
      BY <2>1, <2>3, <2>4
  <1>7. CASE Absorb(type) \notin R /\ Changed(visited, type)
    <2> DEFINE spliced == SplicedAll(R, type)
    <2>1. r = Make(type, spliced)
      BY <1>4, <1>7
    <2>2. /\ spliced \in SUBSET Node /\ IsFiniteSet(spliced)
          /\ \A o \in spliced : \E x \in R : VarsOf(o) \subseteq VarsOf(x)
          /\ \A e : Means(type, spliced, e) <=> Means(type, R, e)
      <3> HIDE DEF R
      <3> QED
        BY <1>2, SplicedAllRight
    <2> HIDE DEF spliced
    <2>3. /\ r \in Node
          /\ VarsOf(r) \subseteq UNION {VarsOf(o) : o \in spliced}
          /\ \A e : (\A o \in spliced : Defined(e, o)) => (Holds(r, e) <=> Means(type, spliced, e))
      BY <2>1, <2>2, MakeRight
    <2>4. ASSUME NEW e, \A o \in Operands(n) : Defined(e, f[o])
          PROVE  \A o \in spliced : Defined(e, o)
      BY <2>2, <2>4 DEF Defined
    <2>5. VarsOf(r) \subseteq UNION {VarsOf(f[o]) : o \in Operands(n)}
      BY <2>2, <2>3
    <2> QED
      BY <1>3, <2>2, <2>3, <2>4, <2>5
  <1> QED
    BY <1>5, <1>6, <1>7

(* A negation rebuilt from what became of its operand. *)
LEMMA RebuildNotRight ==
  ASSUME IsNodeSet, NEW n \in Node, Type(n) = "NEGATION", NEW s \in Node
  PROVE  /\ RebuildNot(n, s) \in Node
         /\ VarsOf(RebuildNot(n, s)) = VarsOf(s)
         /\ \A e, d : Defined(e, s) /\ (Holds(s, e) <=> Holds(Operand(n), d))
                        => (Holds(RebuildNot(n, s), e) <=> Holds(n, d))
  <1>1. \A d : Holds(n, d) <=> ~ Holds(Operand(n), d)
    BY HoldsEqs
  <1>2. CASE s # Operand(n)
    <2>1. RebuildNot(n, s) = MakeNot(s)
      BY <1>2 DEF RebuildNot
    <2> QED
      BY <1>1, <2>1, MakeNotRight
  <1>3. CASE s = Operand(n)
    <2>1. RebuildNot(n, s) = n
      BY <1>3 DEF RebuildNot
    <2>2. VarsOf(n) = VarsOf(s)
      BY <1>3, VarsOfCases
    <2> QED
      BY <1>1, <1>3, <2>1, <2>2
  <1> QED
    BY <1>2, <1>3

(* Reduce, operand by operand. *)
LEMMA ReduceEqs ==
  ASSUME IsNodeSet, NEW sub
  PROVE  \E h \in [Node -> Node] :
            /\ \A m \in Node : Reduce(m, sub) = h[m]
            /\ \A m \in Node :
                /\ IsConst(m) => h[m] = m
                /\ Type(m) = "LITERAL" =>
                      h[m] = IF Assigns(sub, m)
                             THEN (IF m \in sub THEN TrueNode ELSE FalseNode) ELSE m
                /\ Type(m) = "NEGATION" => h[m] = RebuildNot(m, h[Operand(m)])
                /\ Type(m) \in Gates => h[m] = RebuiltFrom(m, h)
  <1> DEFINE step(h) ==
        [m \in Node |->
            CASE IsConst(m) -> m
              [] Type(m) = "LITERAL" ->
                    IF Assigns(sub, m) THEN ConstNode(m \in sub) ELSE m
              [] Type(m) = "NEGATION" -> RebuildNot(m, h[Operand(m)])
              [] OTHER -> Rebuild(m, {<<o, h[o]>> : o \in Operands(m)})]
      F == [h \in [Node -> Node] |-> step(h)]
      val == CHOOSE h : h = step(h)
      Step(h, m, r) ==
            /\ IsConst(m) => r = m
            /\ Type(m) = "LITERAL" =>
                  r = IF Assigns(sub, m) THEN (IF m \in sub THEN TrueNode ELSE FalseNode) ELSE m
            /\ Type(m) = "NEGATION" => r = RebuildNot(m, h[Operand(m)])
            /\ Type(m) \in Gates => r = RebuiltFrom(m, h)
  <1>1. ASSUME NEW h, NEW m \in Node PROVE Step(h, m, step(h)[m])
    <2>1. CASE Type(m) \in Gates
      <3>1. step(h)[m] = Rebuild(m, {<<o, h[o]>> : o \in Operands(m)})
        BY <2>1, Shape DEF Gates
      <3> QED
        BY <2>1, <3>1, Shape DEF Gates, RebuiltFrom
    <2>2. CASE Type(m) \notin Gates
      BY <2>2, Shape DEF Gates, ConstNode
    <2> QED
      BY <2>1, <2>2
  <1>2. \A h : step(h) = [m \in Node |-> step(h)[m]]
    OBVIOUS
  <1>3. F = [h \in [Node -> Node] |-> step(h)]
    OBVIOUS
  <1>4. \A m : Reduce(m, sub) = val[m]
    BY DEF Reduce
  <1>5. ASSUME NEW h, h = step(h) PROVE val = step(val)
    BY <1>5
  <1> HIDE DEF step, F, val
  <1>6. ASSUME NEW h \in [Node -> Node], NEW m \in Node PROVE step(h)[m] \in Node
    <2>1. CASE IsConst(m)
      BY <1>1, <2>1
    <2>2. CASE Type(m) = "LITERAL"
      BY <1>1, <2>2, ConstNodes
    <2>3. CASE Type(m) = "NEGATION"
      BY <1>1, <2>3, Shape, RebuildNotRight
    <2>4. CASE Type(m) \in Gates
      <3>1. \A o \in Operands(m) : h[o] \in Node
        BY <2>4, Shape
      <3> QED
        BY <1>1, <2>4, <3>1, RebuildRight
    <2> QED
      BY <2>1, <2>2, <2>3, <2>4, Shape DEF Gates
  <1>7. F \in [[Node -> Node] -> [Node -> Node]]
    <2>1. \A h \in [Node -> Node] : step(h) \in [Node -> Node]
      BY <1>2, <1>6
    <2> QED
      BY <1>3, <2>1
  <1>8. ASSUME NEW f, NEW g, NEW m \in Node,
               \A o \in Children(m) : f[o] = g[o]
        PROVE  step(f)[m] = step(g)[m]
    <2>1. CASE IsConst(m) \/ Type(m) = "LITERAL"
      BY <1>1, <2>1
    <2>2. CASE Type(m) = "NEGATION"
      BY <1>1, <1>8, <2>2, ChildrenOf
    <2>3. CASE Type(m) \in Gates
      <3>1. RebuiltFrom(m, f) = RebuiltFrom(m, g)
        BY <1>8, <2>3, ChildrenOf, RebuiltAlike
      <3> QED
        BY <1>1, <2>3, <3>1
    <2> QED
      BY <2>1, <2>2, <2>3, Shape DEF Gates
  <1>9. PICK h \in [Node -> Node] : h = step(h)
    <2>1. \A f, g \in [Node -> Node], m \in Node :
            (\A o \in Children(m) : f[o] = g[o]) => F[f][m] = F[g][m]
      BY <1>3, <1>8
    <2>2. Node # {}
      BY ConstNodes
    <2>3. PICK h \in [Node -> Node] : h = F[h]
      BY <1>7, <2>1, <2>2, NodeFixpoint
    <2>4. h = step(h)
      BY <1>3, <2>3
    <2> QED
      BY <2>4
  <1>10. val = step(val)
    BY <1>5, <1>9
  <1>11. \A m \in Node : m \in {k \in Node : h[k] = val[k]}
    <2>1. ASSUME NEW m \in Node, \A o \in Children(m) : o \in {k \in Node : h[k] = val[k]}
          PROVE  h[m] = val[m]
      <3>1. step(h)[m] = step(val)[m]
        BY <1>8, <2>1
      <3> QED
        BY <1>9, <1>10, <3>1
    <2> QED
      BY <2>1, NodeInduction
  <1>12. \A m \in Node : Reduce(m, sub) = h[m]
    BY <1>4, <1>11
  <1>13. \A m \in Node : Step(h, m, h[m])
    BY <1>1, <1>9
  <1> HIDE DEF Step
  <1>14. h \in [Node -> Node] /\ \A m \in Node : Reduce(m, sub) = h[m] /\ Step(h, m, h[m])
    BY <1>12, <1>13
  <1> QED
    BY <1>14 DEF Step

(* A substitution makes no literal and its complement true. *)
Consistent(sub) == \A n \in sub : Complement(n) \notin sub

(* The assignment e with the values of a substitution, on the variables vs. *)
Moved(d, e, sub, vs) ==
    \A v \in vs : d[v] = IF Assigns(sub, Literal(v, TRUE)) THEN Literal(v, TRUE) \in sub ELSE e[v]

(* A literal is assigned as its variable is.                               *)
LEMMA AssignedLiteral ==
  ASSUME IsNodeSet, NEW n \in Node, Type(n) = "LITERAL", NEW sub
  PROVE  /\ Assigns(sub, n) <=> Assigns(sub, Literal(LitVar(n), TRUE))
         /\ Consistent(sub) /\ Assigns(sub, n) =>
                ((n \in sub) <=> ((Literal(LitVar(n), TRUE) \in sub) = Positive(n)))
  <1>1. n = Literal(LitVar(n), Positive(n)) /\ Positive(n) \in BOOLEAN
    BY Shape
  <1>2. CASE Positive(n) = TRUE
    BY <1>1, <1>2
  <1>3. CASE Positive(n) = FALSE
    <2>1. Complement(n) = Literal(LitVar(n), TRUE)
      BY <1>3 DEF Complement
    <2>2. Complement(Literal(LitVar(n), TRUE)) = n
      BY <2>1, ComplementRight
    <2>3. Assigns(sub, n) <=> Assigns(sub, Literal(LitVar(n), TRUE))
      BY <2>1, <2>2 DEF Assigns
    <2>4. Consistent(sub) /\ Assigns(sub, n) => ((n \in sub) <=> Literal(LitVar(n), TRUE) \notin sub)
      <3> SUFFICES ASSUME Consistent(sub), Assigns(sub, n)
                   PROVE  (n \in sub) <=> (Literal(LitVar(n), TRUE) \notin sub)
        OBVIOUS
      <3>1. n \in sub => Complement(n) \notin sub
        BY DEF Consistent
      <3>2. n \in sub \/ Complement(n) \in sub
        BY DEF Assigns
      <3> QED
        BY <2>1, <3>1, <3>2
    <2>5. ((Literal(LitVar(n), TRUE) \in sub) = Positive(n)) <=> Literal(LitVar(n), TRUE) \notin sub
      <3> DEFINE A == Literal(LitVar(n), TRUE) \in sub
      <3>1. A \in BOOLEAN
        OBVIOUS
      <3> HIDE DEF A
      <3>2. (A = Positive(n)) <=> ~ A
        BY <1>3, <3>1
      <3> QED
        BY <3>2 DEF A
    <2> QED
      BY <2>3, <2>4, <2>5
  <1> QED
    BY <1>1, <1>2, <1>3

(* Reduce puts the values into the circuit and leaves none of the          *)
(* variables it puts in.                                                   *)
THEOREM ReduceRight ==
  ASSUME IsNodeSet, NEW sub, NEW n \in Node
  PROVE  /\ Reduce(n, sub) \in Node
         /\ VarsOf(Reduce(n, sub)) \subseteq
                {v \in VarsOf(n) : ~ Assigns(sub, Literal(v, TRUE))}
         /\ \A e, d : Consistent(sub) /\ Defined(e, n) /\ Moved(d, e, sub, VarsOf(n))
                        => (Holds(Reduce(n, sub), e) <=> Holds(n, d))
  <1> PICK h \in [Node -> Node] :
            /\ \A m \in Node : Reduce(m, sub) = h[m]
            /\ \A m \in Node :
                /\ IsConst(m) => h[m] = m
                /\ Type(m) = "LITERAL" =>
                      h[m] = IF Assigns(sub, m)
                             THEN (IF m \in sub THEN TrueNode ELSE FalseNode) ELSE m
                /\ Type(m) = "NEGATION" => h[m] = RebuildNot(m, h[Operand(m)])
                /\ Type(m) \in Gates => h[m] = RebuiltFrom(m, h)
    BY ReduceEqs
  <1> DEFINE Right(m) ==
        /\ VarsOf(h[m]) \subseteq {v \in VarsOf(m) : ~ Assigns(sub, Literal(v, TRUE))}
        /\ \A e, d : Consistent(sub) /\ Defined(e, m) /\ Moved(d, e, sub, VarsOf(m))
                        => (Holds(h[m], e) <=> Holds(m, d))
  <1>1. ASSUME NEW m \in Node, \A o \in Children(m) : Right(o) PROVE Right(m)
    <2>1. CASE IsConst(m)
      <3>1. h[m] = m /\ VarsOf(m) = {}
        BY <2>1, VarsOfCases
      <3> QED
        BY <2>1, <3>1, HoldsEqs
    <2>2. CASE Type(m) = "LITERAL"
      <3>1. VarsOf(m) = {LitVar(m)}
        BY <2>2, VarsOfCases
      <3>2. CASE Assigns(sub, m)
        <4>1. h[m] = IF m \in sub THEN TrueNode ELSE FalseNode
          BY <2>2, <3>2
        <4>2. VarsOf(h[m]) = {} /\ \A e : Holds(h[m], e) <=> m \in sub
          BY <4>1, ConstNodes
        <4>3. ASSUME NEW d, NEW e, Consistent(sub), Moved(d, e, sub, VarsOf(m))
              PROVE  (m \in sub) <=> Holds(m, d)
          <5>1. d[LitVar(m)] = (Literal(LitVar(m), TRUE) \in sub)
            BY <2>2, <3>1, <3>2, <4>3, AssignedLiteral DEF Moved
          <5>2. Holds(m, d) <=> d[LitVar(m)] = Positive(m)
            BY <2>2, HoldsEqs
          <5>3. (m \in sub) <=> ((Literal(LitVar(m), TRUE) \in sub) = Positive(m))
            BY <2>2, <3>2, <4>3, AssignedLiteral
          <5> QED
            BY <5>1, <5>2, <5>3
        <4> QED
          BY <4>2, <4>3
      <3>3. CASE ~ Assigns(sub, m)
        <4>1. h[m] = m
          BY <2>2, <3>3
        <4>2. ~ Assigns(sub, Literal(LitVar(m), TRUE))
          BY <2>2, <3>3, AssignedLiteral
        <4>3. \A d, e : Moved(d, e, sub, VarsOf(m)) => d[LitVar(m)] = e[LitVar(m)]
          BY <3>1, <4>2 DEF Moved
        <4>4. \A d, e : d[LitVar(m)] = e[LitVar(m)] => (Holds(m, e) <=> Holds(m, d))
          BY <2>2, HoldsEqs
        <4> QED
          BY <3>1, <4>1, <4>2, <4>3, <4>4
      <3> QED
        BY <3>2, <3>3
    <2>3. CASE Type(m) = "NEGATION"
      <3> DEFINE o == Operand(m)
      <3>1. o \in Node /\ Right(o) /\ VarsOf(m) = VarsOf(o) /\ h[m] = RebuildNot(m, h[o]) /\ h[o] \in Node
        <4> HIDE DEF Right
        <4> QED
          BY <1>1, <2>3, Shape, ChildrenOf, VarsOfCases
      <3>2. VarsOf(h[m]) = VarsOf(h[o])
        BY <2>3, <3>1, RebuildNotRight
      <3>3. ASSUME NEW e, NEW d, Consistent(sub), Defined(e, m), Moved(d, e, sub, VarsOf(m))
            PROVE  Holds(h[m], e) <=> Holds(m, d)
        <4>1. Defined(e, o) /\ Defined(e, h[o])
          BY <3>1, <3>3 DEF Defined
        <4>2. Holds(h[o], e) <=> Holds(o, d)
          BY <3>1, <3>3, <4>1
        <4> QED
          BY <2>3, <3>1, <4>1, <4>2, RebuildNotRight
      <3> QED
        BY <3>1, <3>2, <3>3
    <2>4. CASE Type(m) \in Gates
      <3>1. /\ Operands(m) \in SUBSET Node /\ \A o \in Operands(m) : Right(o) /\ h[o] \in Node
            /\ VarsOf(m) = UNION {VarsOf(o) : o \in Operands(m)} /\ h[m] = RebuiltFrom(m, h)
        BY <1>1, <2>4, Shape, ChildrenOf, VarsOfCases
      <3>2. VarsOf(h[m]) \subseteq UNION {VarsOf(h[o]) : o \in Operands(m)}
        BY <2>4, <3>1, RebuildRight
      <3>3. VarsOf(h[m]) \subseteq {v \in VarsOf(m) : ~ Assigns(sub, Literal(v, TRUE))}
        <4>1. \A o \in Operands(m) :
                  VarsOf(h[o]) \subseteq {v \in VarsOf(o) : ~ Assigns(sub, Literal(v, TRUE))}
          BY <3>1
        <4>2. VarsOf(m) = UNION {VarsOf(o) : o \in Operands(m)}
          BY <3>1
        <4>3. \A v \in VarsOf(h[m]) : \E o \in Operands(m) : v \in VarsOf(h[o])
          BY <3>2
        <4>5. ASSUME NEW v \in VarsOf(h[m]) PROVE v \in VarsOf(m) /\ ~ Assigns(sub, Literal(v, TRUE))
          <5>1. PICK o \in Operands(m) : v \in VarsOf(h[o])
            BY <4>3
          <5>2. v \in VarsOf(o) /\ ~ Assigns(sub, Literal(v, TRUE))
            BY <4>1, <5>1
          <5> HIDE DEF Right
          <5> QED
            BY <4>2, <5>1, <5>2
        <4> HIDE DEF Right
        <4> QED
          BY <4>5
      <3>4. ASSUME NEW e, NEW d, Consistent(sub), Defined(e, m), Moved(d, e, sub, VarsOf(m))
            PROVE  Holds(h[m], e) <=> Holds(m, d)
        <4>1. ASSUME NEW o \in Operands(m)
              PROVE  Defined(e, h[o]) /\ (Holds(h[o], e) <=> Holds(o, d))
          <5>1. Defined(e, o) /\ Defined(e, h[o]) /\ Moved(d, e, sub, VarsOf(o))
            BY <3>1, <3>4 DEF Defined, Moved
          <5> QED
            BY <3>1, <3>4, <5>1
        <4> QED
          BY <2>4, <3>1, <4>1, RebuildRight
      <3> QED
        BY <3>3, <3>4
    <2> QED
      BY <2>1, <2>2, <2>3, <2>4, Shape DEF Gates
  <1>2. \A m \in Node : m \in {k \in Node : Right(k)}
    <2> DEFINE S == {k \in Node : Right(k)}
    <2>1. \A m \in Node : (\A o \in Children(m) : o \in S) => m \in S
      BY <1>1
    <2> HIDE DEF S
    <2>2. \A m \in Node : m \in S
      BY <2>1, NodeInduction
    <2> QED
      BY <2>2 DEF S
  <1> QED
    BY <1>2

(* A substitution that holds changes nothing. *)
LEMMA ReduceUnder ==
  ASSUME IsNodeSet, NEW sub \in SUBSET Node, NEW e,
         \A l \in sub : Type(l) = "LITERAL" /\ Holds(l, e),
         NEW n \in Node, Defined(e, n)
  PROVE  Holds(Reduce(n, sub), e) <=> Holds(n, e)
  <1>1. \A l \in sub : e[LitVar(l)] = Positive(l) /\ Positive(l) \in BOOLEAN
    BY HoldsEqs, Shape
  <1>2. Consistent(sub)
    <2> SUFFICES ASSUME NEW l \in sub, Complement(l) \in sub PROVE FALSE
      BY DEF Consistent
    <2>1. LitVar(Complement(l)) = LitVar(l) /\ Positive(Complement(l)) = ~ Positive(l)
      BY ComplementRight
    <2>2. e[LitVar(l)] = Positive(l) /\ e[LitVar(l)] = ~ Positive(l) /\ Positive(l) \in BOOLEAN
      BY <1>1, <2>1
    <2> QED
      BY <2>2
  <1>3. Moved(e, e, sub, VarsOf(n))
    <2> SUFFICES ASSUME NEW v \in VarsOf(n), Assigns(sub, Literal(v, TRUE))
                 PROVE  e[v] = (Literal(v, TRUE) \in sub)
      BY DEF Moved
    <2> DEFINE p == Literal(v, TRUE)
               A == p \in sub
    <2>1. v \in Nat /\ e[v] \in BOOLEAN
      BY VarsOfEqs DEF Defined
    <2>2. p \in Node /\ Type(p) = "LITERAL" /\ LitVar(p) = v /\ Positive(p) = TRUE
      <3>1. p \in Node
        BY <2>1 DEF IsNodeSet, NodeSet
      <3> QED
        BY <3>1 DEF Literal, Type, LitVar, Positive
    <2>3. p \in sub => e[v] = TRUE
      BY <1>1, <2>2
    <2>4. p \notin sub => e[v] = FALSE
      <3> SUFFICES ASSUME p \notin sub PROVE e[v] = FALSE
        OBVIOUS
      <3>1. LitVar(Complement(p)) = v /\ Positive(Complement(p)) = FALSE
        <4> HIDE DEF p
        <4> QED
          BY <2>2, ComplementRight
      <3>2. Complement(p) \in sub
        BY DEF Assigns
      <3>3. e[LitVar(Complement(p))] = Positive(Complement(p))
        BY <1>1, <3>2
      <3> HIDE DEF p
      <3> QED
        BY <3>1, <3>3
    <2>5. A \in BOOLEAN
      OBVIOUS
    <2>6. (A => e[v] = TRUE) /\ (~ A => e[v] = FALSE)
      BY <2>3, <2>4
    <2> HIDE DEF A
    <2>7. e[v] = A
      <3>1. CASE A
        <4>1. e[v] = TRUE /\ A = TRUE
          BY <2>5, <2>6, <3>1
        <4> QED
          BY <4>1
      <3>2. CASE ~ A
        <4>1. e[v] = FALSE /\ A = FALSE
          BY <2>5, <2>6, <3>2
        <4> QED
          BY <4>1
      <3> QED
        BY <3>1, <3>2
    <2> QED
      BY <2>7 DEF A
  <1> QED
    BY <1>2, <1>3, ReduceRight

(* What a node means depends on its variables only. *)
LEMMA HoldsAlike ==
  ASSUME IsNodeSet, NEW n \in Node, NEW e, NEW d, Defined(e, n), \A v \in VarsOf(n) : d[v] = e[v]
  PROVE  Holds(n, e) <=> Holds(n, d)
  <1>1. Consistent({}) /\ \A v : ~ Assigns({}, Literal(v, TRUE))
    BY DEF Consistent, Assigns
  <1>2. Moved(d, e, {}, VarsOf(n)) /\ Moved(e, e, {}, VarsOf(n))
    BY <1>1 DEF Moved
  <1>3. Holds(Reduce(n, {}), e) <=> Holds(n, d)
    BY <1>1, <1>2, ReduceRight
  <1>4. Holds(Reduce(n, {}), e) <=> Holds(n, e)
    BY <1>1, <1>2, ReduceRight
  <1> QED
    BY <1>3, <1>4

(* Operands among which Simplify finds a contradiction. *)
LEMMA HasNegRight ==
  ASSUME IsNodeSet, NEW type \in Gates, NEW ops \in SUBSET Node, HasNeg(ops),
         NEW e, \A o \in ops : Defined(e, o)
  PROVE  Means(type, ops, e) <=> type = "OR"
  <1>1. (\E o \in ops : Holds(o, e)) /\ (\E o \in ops : ~ Holds(o, e))
    <2>1. CASE ContainsCompl(ops)
      BY <2>1, ComplementaryOperands
    <2>2. CASE \E n \in ops : Type(n) = "NEGATION" /\ Operand(n) \in ops
      BY <2>2, HoldsEqs
    <2> QED
      BY <2>1, <2>2 DEF HasNeg
  <1> QED
    BY <1>1 DEF Means, Gates

(* The substitution Simplify makes of the literals of a gate holds wherever *)
(* they do not decide the gate by themselves.                              *)
LEMMA UnitSubstitutionRight ==
  ASSUME IsNodeSet, NEW type \in Gates, NEW lits \in SUBSET Node,
         \A l \in lits : Type(l) = "LITERAL"
  PROVE  /\ UnitSubstitution(type, lits) \in SUBSET Node
         /\ \A e : /\ \A l \in lits : Defined(e, l)
                   /\ \A l \in lits : Holds(l, e) <=> type = "AND"
                   => \A s \in UnitSubstitution(type, lits) : Type(s) = "LITERAL" /\ Holds(s, e)
  <1>1. CASE type = "AND"
    BY <1>1 DEF UnitSubstitution
  <1>2. CASE type = "OR"
    <2>1. UnitSubstitution(type, lits) = {Complement(n) : n \in lits}
      BY <1>2 DEF UnitSubstitution
    <2>2. \A l \in lits : Complement(l) \in Node /\ Type(Complement(l)) = "LITERAL"
      BY ComplementRight
    <2>3. ASSUME NEW e, \A l \in lits : Defined(e, l), \A l \in lits : Holds(l, e) <=> type = "AND",
                 NEW l \in lits
          PROVE  Holds(Complement(l), e)
      <3>1. e[LitVar(l)] \in BOOLEAN
        BY <2>3, DefinedParts
      <3> QED
        BY <1>2, <2>3, <3>1, ComplementRight
    <2> QED
      BY <2>1, <2>2, <2>3
  <1> QED
    BY <1>1, <1>2 DEF Gates

(* A gate after unit propagation, from what became of its operands. *)
PropagatedFrom(n, f) == PropagateUnits(n, {<<o, f[o]>> : o \in Operands(n)})

(* Only what became of the operands counts.                                *)
LEMMA PropagatedAlike ==
  ASSUME NEW n, NEW f, NEW g, \A o \in Operands(n) : f[o] = g[o]
  PROVE  PropagatedFrom(n, f) = PropagatedFrom(n, g)
  <1>1. {<<o, f[o]>> : o \in Operands(n)} = {<<o, g[o]>> : o \in Operands(n)}
    OBVIOUS
  <1> QED
    BY <1>1 DEF PropagatedFrom

(* What PropagateUnits does with the operands recursed: their literals are *)
(* lits, g is what becomes of the others under them.                       *)
Propagation(type, recursed, lits, g, reduced) ==
    /\ type \in Gates /\ recursed \in SUBSET Node /\ IsFiniteSet(recursed)
    /\ lits = {r \in recursed : Type(r) = "LITERAL"}
    /\ \A o \in recursed \ lits : g[o] = Reduce(o, UnitSubstitution(type, lits))
    /\ reduced = lits \cup SplicedAll({g[o] : o \in recursed \ lits}, type)

(* The literals and what the others become under them are as good as the   *)
(* operands were.                                                          *)
LEMMA UnitsRight ==
  ASSUME IsNodeSet, NEW type, NEW recursed, NEW lits, NEW g, NEW reduced,
         Propagation(type, recursed, lits, g, reduced)
  PROVE  /\ reduced \in SUBSET Node /\ IsFiniteSet(reduced)
         /\ \A o \in reduced : \E r \in recursed : VarsOf(o) \subseteq VarsOf(r)
         /\ \A e : (\A r \in recursed : Defined(e, r)) =>
                (Means(type, reduced, e) <=> Means(type, recursed, e))
  <1> USE DEF Propagation
  <1> DEFINE sub == UnitSubstitution(type, lits)
             others == recursed \ lits
             R == {g[o] : o \in others}
  <1>0. lits \in SUBSET Node /\ others \in SUBSET Node /\ IsFiniteSet(lits) /\ IsFiniteSet(others)
        /\ lits \subseteq recursed /\ others \subseteq recursed /\ recursed = lits \cup others
    <2>1. lits \subseteq recursed /\ others \subseteq recursed /\ recursed = lits \cup others
      OBVIOUS
    <2>2. IsFiniteSet(lits) /\ IsFiniteSet(others)
      BY <2>1, FS_Subset
    <2> QED
      BY <2>1, <2>2
  <1>1. R \in SUBSET Node /\ IsFiniteSet(R)
    <2>1. \A o \in others : g[o] \in Node
      BY ReduceRight
    <2>2. IsFiniteSet(R)
      BY <1>0, FiniteImage
    <2> QED
      BY <2>1, <2>2
  <1>2. \A o \in others : VarsOf(g[o]) \subseteq VarsOf(o)
    BY ReduceRight
  <1>3. \A r \in R : \E o \in others : VarsOf(r) \subseteq VarsOf(o)
    BY <1>2
  <1> DEFINE spliced == SplicedAll(R, type)
  <1>4. /\ spliced \in SUBSET Node /\ IsFiniteSet(spliced)
        /\ \A o \in spliced : \E r \in R : VarsOf(o) \subseteq VarsOf(r)
        /\ \A e : Means(type, spliced, e) <=> Means(type, R, e)
    <2> HIDE DEF R
    <2> QED
      BY <1>1, SplicedAllRight
  <1>5. reduced = lits \cup spliced
    OBVIOUS
  <1>6. ASSUME NEW e, \A r \in recursed : Defined(e, r)
        PROVE  Means(type, reduced, e) <=> Means(type, recursed, e)
    <2>1. CASE \A l \in lits : Holds(l, e) <=> type = "AND"
      <3>1. sub \in SUBSET Node /\ \A s \in sub : Type(s) = "LITERAL" /\ Holds(s, e)
        BY <1>0, <1>6, <2>1, UnitSubstitutionRight
      <3>2. \A o \in others : Holds(g[o], e) <=> Holds(o, e)
        <4> SUFFICES ASSUME NEW o \in others PROVE Holds(Reduce(o, sub), e) <=> Holds(o, e)
          OBVIOUS
        <4>1. o \in Node /\ Defined(e, o)
          BY <1>0, <1>6
        <4> HIDE DEF sub
        <4> QED
          BY <3>1, <4>1, ReduceUnder
      <3>3. Means(type, R, e) <=> Means(type, others, e)
        <4> HIDE DEF others
        <4> QED
          BY <3>2 DEF Means
      <3>4. Means(type, spliced, e) <=> Means(type, others, e)
        BY <1>4, <3>3
      <3> HIDE DEF spliced, others
      <3>5. CASE type = "AND"
        <4>1. (\A o \in spliced : Holds(o, e)) <=> (\A o \in others : Holds(o, e))
          BY <3>4, <3>5 DEF Means
        <4> QED
          BY <1>0, <1>5, <3>5, <4>1 DEF Means
      <3>6. CASE type = "OR"
        <4>1. (\E o \in spliced : Holds(o, e)) <=> (\E o \in others : Holds(o, e))
          BY <3>4, <3>6 DEF Means
        <4> QED
          BY <1>0, <1>5, <3>6, <4>1 DEF Means
      <3> QED
        BY <3>5, <3>6 DEF Gates
    <2>2. CASE ~ \A l \in lits : Holds(l, e) <=> type = "AND"
      <3>1. PICK l \in lits : ~ (Holds(l, e) <=> type = "AND")
        BY <2>2
      <3>2. l \in reduced /\ l \in recursed
        BY <1>0, <1>5
      <3> HIDE DEF spliced, others
      <3>3. CASE type = "AND"
        BY <3>1, <3>2, <3>3 DEF Means
      <3>4. CASE type = "OR"
        BY <3>1, <3>2, <3>4 DEF Means
      <3> QED
        BY <3>3, <3>4 DEF Gates
    <2> QED
      BY <2>1, <2>2
  <1>7. reduced \in SUBSET Node /\ IsFiniteSet(reduced)
    <2>1. spliced \in SUBSET Node /\ IsFiniteSet(spliced)
      BY <1>4
    <2> HIDE DEF spliced
    <2>2. IsFiniteSet(lits \cup spliced)
      BY <1>0, <2>1, FS_Union
    <2> QED
      BY <1>0, <1>5, <2>1, <2>2
  <1>8. \A o \in reduced : \E r \in recursed : VarsOf(o) \subseteq VarsOf(r)
    <2> HIDE DEF R, spliced, others
    <2>1. \A o \in spliced : \E r \in others : VarsOf(o) \subseteq VarsOf(r)
      BY <1>3, <1>4
    <2> QED
      BY <1>0, <1>5, <2>1
  <1> QED
    BY <1>6, <1>7, <1>8

(* Unit propagation keeps what a gate means.                               *)
LEMMA PropagateRight ==
  ASSUME IsNodeSet, NEW n \in Node, Type(n) \in Gates,
         NEW f, \A o \in Operands(n) : f[o] \in Node
  PROVE  /\ PropagatedFrom(n, f) \in Node
         /\ VarsOf(PropagatedFrom(n, f)) \subseteq UNION {VarsOf(f[o]) : o \in Operands(n)}
         /\ \A e, d : /\ \A o \in Operands(n) : Defined(e, f[o])
                      /\ \A o \in Operands(n) : Holds(f[o], e) <=> Holds(o, d)
                      => (Holds(PropagatedFrom(n, f), e) <=> Holds(n, d))
  <1> DEFINE r == PropagatedFrom(n, f)
             visited == {<<o, f[o]>> : o \in Operands(n)}
             type == Type(n)
             R == {f[o] : o \in Operands(n)}
             recursed == SplicedAll(R, type)
             lits == {s \in recursed : Type(s) = "LITERAL"}
             sub == UnitSubstitution(type, lits)
             g == [o \in recursed \ lits |-> Reduce(o, sub)]
             others == {<<o, g[o]>> : o \in recursed \ lits}
             reduced == lits \cup SplicedAll({g[o] : o \in recursed \ lits}, type)
  <1>1. /\ Results(visited) = R
        /\ Changed(visited, type) <=> \E o \in Operands(n) : f[o] # o \/ Melts(f[o], type)
    BY VisitedBy
  <1>2. R \in SUBSET Node /\ IsFiniteSet(R)
    BY Shape, FiniteImage
  <1>3. /\ recursed \in SUBSET Node /\ IsFiniteSet(recursed)
        /\ \A o \in recursed : \E x \in R : VarsOf(o) \subseteq VarsOf(x)
        /\ \A e : Means(type, recursed, e) <=> Means(type, R, e)
    <2> HIDE DEF R
    <2> QED
      BY <1>2, SplicedAllRight
  <1>4. \A e, d : (\A o \in Operands(n) : Holds(f[o], e) <=> Holds(o, d))
            => (Means(type, R, e) <=> Holds(n, d))
    <2> SUFFICES ASSUME NEW e, NEW d, \A o \in Operands(n) : Holds(f[o], e) <=> Holds(o, d)
                 PROVE  Means(type, R, e) <=> Holds(n, d)
      OBVIOUS
    <2>1. Holds(n, d) <=> Means(type, Operands(n), d)
      BY GateMeans
    <2> QED
      BY <2>1 DEF Means
  <1>5. others = {<<o, Reduce(o, sub)>> : o \in recursed \ lits}
    <2> HIDE DEF recursed, sub, lits
    <2> QED
      OBVIOUS
  <1>6. Results(others) = {g[o] : o \in recursed \ lits}
    <2> HIDE DEF recursed, sub, lits, g
    <2> QED
      BY VisitedBy
  <1>7. \/ ~ Changed(visited, type) /\ r = n
        \/ r = Make(type, recursed)
        \/ HasNeg(reduced) /\ r = Absorb(type)
        \/ r = Make(type, reduced)
    <2>1. reduced = lits \cup SplicedAll(Results(others), type)
      BY <1>6
    <2> DEFINE mixed == \E x, s \in Results(visited) : Type(x) = "LITERAL" /\ Type(s) # "LITERAL"
    <2>2. r = IF ~ mixed THEN (IF Changed(visited, type) THEN Make(type, recursed) ELSE n)
              ELSE IF ~ Changed(visited, type) /\ ~ Changed(others, type) THEN n
              ELSE IF HasNeg(reduced) THEN Absorb(type)
              ELSE Make(type, reduced)
      <3> HIDE DEF others, visited, reduced, R
      <3> QED
        BY <1>1, <1>5, <2>1 DEF PropagatedFrom, PropagateUnits, visited
    <2> HIDE DEF mixed, others, visited, reduced, R, r, recursed
    <2> QED
      BY <2>2
  <1>8. /\ reduced \in SUBSET Node /\ IsFiniteSet(reduced)
        /\ \A o \in reduced : \E s \in recursed : VarsOf(o) \subseteq VarsOf(s)
        /\ \A e : (\A s \in recursed : Defined(e, s)) =>
                (Means(type, reduced, e) <=> Means(type, recursed, e))
    <2>1. lits = {s \in recursed : Type(s) = "LITERAL"} /\ type \in Gates
          /\ recursed \in SUBSET Node /\ IsFiniteSet(recursed)
      BY <1>3
    <2>2. \A o \in recursed \ lits : g[o] = Reduce(o, UnitSubstitution(type, lits))
      OBVIOUS
    <2>3. reduced = lits \cup SplicedAll({g[o] : o \in recursed \ lits}, type)
      OBVIOUS
    <2> HIDE DEF lits, recursed, g, reduced, type
    <2>7. Propagation(type, recursed, lits, g, reduced)
      BY <2>1, <2>2, <2>3 DEF Propagation
    <2>4. reduced \in SUBSET Node /\ IsFiniteSet(reduced)
      BY <2>7, UnitsRight
    <2>5. \A o \in reduced : \E s \in recursed : VarsOf(o) \subseteq VarsOf(s)
      BY <2>7, UnitsRight
    <2>6. \A e : (\A s \in recursed : Defined(e, s)) =>
                (Means(type, reduced, e) <=> Means(type, recursed, e))
      BY <2>7, UnitsRight
    <2> QED
      BY <2>4, <2>5, <2>6
  <1> HIDE DEF reduced, others, g, sub, lits
  <1>9. ASSUME NEW e, \A o \in Operands(n) : Defined(e, f[o])
        PROVE  /\ \A o \in recursed : Defined(e, o)
               /\ \A o \in reduced : Defined(e, o)
    <2>1. \A x \in R : Defined(e, x)
      BY <1>9
    <2>2. \A o \in recursed : Defined(e, o)
      <3> HIDE DEF R, recursed
      <3> QED
        BY <1>3, <2>1 DEF Defined
    <2>3. \A o \in reduced : Defined(e, o)
      <3> HIDE DEF R, recursed
      <3> QED
        BY <1>8, <2>2 DEF Defined
    <2> QED
      BY <2>2, <2>3
  <1> DEFINE Right == /\ r \in Node
                      /\ \A v \in VarsOf(r) : \E x \in R : v \in VarsOf(x)
                      /\ \A e : (\A o \in Operands(n) : Defined(e, f[o]))
                                    => (Holds(r, e) <=> Means(type, R, e))
  <1>10. ASSUME ~ Changed(visited, type) /\ r = n PROVE Right
    <2>1. \A o \in Operands(n) : f[o] = o
      BY <1>1, <1>10
    <2>2. R = Operands(n)
      BY <2>1
    <2>3. \A v \in VarsOf(n) : \E x \in Operands(n) : v \in VarsOf(x)
      BY VarsOfCases
    <2>4. r = n /\ \A e : Holds(n, e) <=> Means(type, R, e)
      BY <1>10, <2>2, GateMeans
    <2> HIDE DEF r, R
    <2> QED
      BY <2>2, <2>3, <2>4
  <1>11. ASSUME r = Make(type, recursed) PROVE Right
    <2> HIDE DEF R, recursed
    <2>1. /\ r \in Node /\ VarsOf(r) \subseteq UNION {VarsOf(o) : o \in recursed}
          /\ \A e : (\A o \in recursed : Defined(e, o)) => (Holds(r, e) <=> Means(type, recursed, e))
      BY <1>3, <1>11, MakeRight
    <2>2. \A v \in VarsOf(r) : \E x \in R : v \in VarsOf(x)
      BY <1>3, <2>1
    <2>3. ASSUME NEW e, \A o \in Operands(n) : Defined(e, f[o]) PROVE Holds(r, e) <=> Means(type, R, e)
      <3>1. \A o \in recursed : Defined(e, o)
        BY <1>9, <2>3
      <3> QED
        BY <1>3, <2>1, <3>1
    <2> HIDE DEF r, type
    <2> QED
      BY <2>1, <2>2, <2>3
  <1>12. ASSUME HasNeg(reduced) /\ r = Absorb(type) PROVE Right
    <2> HIDE DEF R, recursed
    <2>1. r \in Node /\ VarsOf(r) = {} /\ \A e : Holds(r, e) <=> type = "OR"
      BY <1>12, NeutralAbsorb
    <2>2. \A e : (\A o \in reduced : Defined(e, o)) => (Means(type, reduced, e) <=> type = "OR")
      BY <1>8, <1>12, HasNegRight
    <2>3. ASSUME NEW e, \A o \in Operands(n) : Defined(e, f[o]) PROVE Holds(r, e) <=> Means(type, R, e)
      <3>1. (\A o \in recursed : Defined(e, o)) /\ (\A o \in reduced : Defined(e, o))
        BY <1>9, <2>3
      <3>2. Means(type, R, e) <=> Means(type, reduced, e)
        BY <1>3, <1>8, <3>1
      <3> QED
        BY <2>1, <2>2, <3>1, <3>2
    <2> HIDE DEF r, type
    <2> QED
      BY <2>1, <2>3
  <1>13. ASSUME r = Make(type, reduced) PROVE Right
    <2> HIDE DEF R, recursed
    <2>1. /\ r \in Node /\ VarsOf(r) \subseteq UNION {VarsOf(o) : o \in reduced}
          /\ \A e : (\A o \in reduced : Defined(e, o)) => (Holds(r, e) <=> Means(type, reduced, e))
      BY <1>8, <1>13, MakeRight
    <2>2. \A v \in VarsOf(r) : \E x \in recursed : v \in VarsOf(x)
      BY <1>8, <2>1
    <2>3. \A v \in VarsOf(r) : \E x \in R : v \in VarsOf(x)
      BY <1>3, <2>2
    <2>4. ASSUME NEW e, \A o \in Operands(n) : Defined(e, f[o]) PROVE Holds(r, e) <=> Means(type, R, e)
      <3>1. (\A o \in recursed : Defined(e, o)) /\ (\A o \in reduced : Defined(e, o))
        BY <1>9, <2>4
      <3>2. Means(type, R, e) <=> Means(type, reduced, e)
        BY <1>3, <1>8, <3>1
      <3> QED
        BY <2>1, <3>1, <3>2
    <2> HIDE DEF r, type
    <2> QED
      BY <2>1, <2>3, <2>4
  <1>14. Right
    <2> HIDE DEF r, R, Right, visited, type, recursed
    <2> QED
      BY <1>7, <1>10, <1>11, <1>12, <1>13
  <1>15. VarsOf(r) \subseteq UNION {VarsOf(f[o]) : o \in Operands(n)}
    <2>1. \A v \in VarsOf(r) : \E x \in R : v \in VarsOf(x)
      BY <1>14
    <2> HIDE DEF r
    <2> QED
      BY <2>1
  <1>16. r \in Node /\ \A e : (\A o \in Operands(n) : Defined(e, f[o]))
                                    => (Holds(r, e) <=> Means(type, R, e))
    BY <1>14
  <1> HIDE DEF R, Right
  <1> QED
    BY <1>4, <1>15, <1>16

(* Simplify, operand by operand. *)
LEMMA SimplifyEqs ==
  ASSUME IsNodeSet, NEW known
  PROVE  \E h \in [Node -> Node] :
            /\ \A m \in Node : Simplify(m, known) = h[m]
            /\ \A m \in Node :
                \/ m \in known /\ h[m] = TrueNode
                \/ MakeNot(m) \in known /\ h[m] = FalseNode
                \/ (IsConst(m) \/ Type(m) = "LITERAL") /\ h[m] = m
                \/ Type(m) = "NEGATION" /\ h[m] = RebuildNot(m, h[Operand(m)])
                \/ Type(m) \in Gates /\ h[m] \in {PropagatedFrom(m, h), RebuiltFrom(m, h)}
  <1> DEFINE step(h) ==
        [m \in Node |->
            IF m \in known THEN TrueNode
            ELSE IF MakeNot(m) \in known THEN FalseNode
            ELSE IF IsConst(m) \/ Type(m) = "LITERAL" THEN m
            ELSE IF Type(m) = "NEGATION" THEN RebuildNot(m, h[Operand(m)])
            ELSE IF Unit THEN PropagateUnits(m, {<<o, h[o]>> : o \in Operands(m)})
            ELSE Rebuild(m, {<<o, h[o]>> : o \in Operands(m)})]
      F == [h \in [Node -> Node] |-> step(h)]
      val == CHOOSE h : h = step(h)
      Step(h, m, r) ==
            \/ m \in known /\ r = TrueNode
            \/ MakeNot(m) \in known /\ r = FalseNode
            \/ (IsConst(m) \/ Type(m) = "LITERAL") /\ r = m
            \/ Type(m) = "NEGATION" /\ r = RebuildNot(m, h[Operand(m)])
            \/ Type(m) \in Gates /\ r \in {PropagatedFrom(m, h), RebuiltFrom(m, h)}
  <1>1. ASSUME NEW h, NEW m \in Node PROVE Step(h, m, step(h)[m])
    <2>1. PropagatedFrom(m, h) = PropagateUnits(m, {<<o, h[o]>> : o \in Operands(m)})
      BY DEF PropagatedFrom
    <2>2. RebuiltFrom(m, h) = Rebuild(m, {<<o, h[o]>> : o \in Operands(m)})
      BY DEF RebuiltFrom
    <2>3. Type(m) \in Gates \/ Type(m) = "NEGATION" \/ IsConst(m) \/ Type(m) = "LITERAL"
      BY Shape DEF Gates
    <2>4. step(h)[m] =
            IF m \in known THEN TrueNode
            ELSE IF MakeNot(m) \in known THEN FalseNode
            ELSE IF IsConst(m) \/ Type(m) = "LITERAL" THEN m
            ELSE IF Type(m) = "NEGATION" THEN RebuildNot(m, h[Operand(m)])
            ELSE IF Unit THEN PropagatedFrom(m, h)
            ELSE RebuiltFrom(m, h)
      BY <2>1, <2>2
    <2> HIDE DEF step
    <2> QED
      BY <2>3, <2>4
  <1>2. \A h : step(h) = [m \in Node |-> step(h)[m]]
    OBVIOUS
  <1>3. F = [h \in [Node -> Node] |-> step(h)]
    OBVIOUS
  <1>4. \A m : Simplify(m, known) = val[m]
    BY DEF Simplify
  <1>5. ASSUME NEW h, h = step(h) PROVE val = step(val)
    BY <1>5
  <1>6. ASSUME NEW f, NEW g, NEW m \in Node,
               \A o \in Children(m) : f[o] = g[o]
        PROVE  step(f)[m] = step(g)[m]
    <2>1. CASE IsConst(m) \/ Type(m) = "LITERAL" \/ m \in known \/ MakeNot(m) \in known
      BY <2>1
    <2>2. CASE Type(m) = "NEGATION"
      BY <1>6, <2>2, ChildrenOf
    <2>3. CASE Type(m) \in Gates
      <3>1. {<<o, f[o]>> : o \in Operands(m)} = {<<o, g[o]>> : o \in Operands(m)}
        BY <1>6, <2>3, ChildrenOf
      <3> QED
        BY <3>1, <2>3, Shape DEF Gates
    <2> QED
      BY <2>1, <2>2, <2>3, Shape DEF Gates
  <1> HIDE DEF step, F, val
  <1>7. ASSUME NEW h \in [Node -> Node], NEW m \in Node PROVE step(h)[m] \in Node
    <2> DEFINE r == step(h)[m]
    <2>1. Step(h, m, r)
      BY <1>1
    <2>2. Type(m) \in Gates => PropagatedFrom(m, h) \in Node /\ RebuiltFrom(m, h) \in Node
      <3> SUFFICES ASSUME Type(m) \in Gates
                   PROVE  PropagatedFrom(m, h) \in Node /\ RebuiltFrom(m, h) \in Node
        OBVIOUS
      <3>1. \A o \in Operands(m) : h[o] \in Node
        BY Shape
      <3> QED
        BY <3>1, RebuildRight, PropagateRight
    <2>3. Type(m) = "NEGATION" => RebuildNot(m, h[Operand(m)]) \in Node
      BY Shape, RebuildNotRight
    <2> HIDE DEF r
    <2>4. r \in Node
      BY <2>1, <2>2, <2>3, ConstNodes
    <2> QED
      BY <2>4 DEF r
  <1>8. F \in [[Node -> Node] -> [Node -> Node]]
    <2>1. \A h \in [Node -> Node] : step(h) \in [Node -> Node]
      BY <1>2, <1>7
    <2> QED
      BY <1>3, <2>1
  <1>9. PICK h \in [Node -> Node] : h = step(h)
    <2>1. \A f, g \in [Node -> Node], m \in Node :
            (\A o \in Children(m) : f[o] = g[o]) => F[f][m] = F[g][m]
      BY <1>3, <1>6
    <2>2. Node # {}
      BY ConstNodes
    <2>3. PICK h \in [Node -> Node] : h = F[h]
      BY <1>8, <2>1, <2>2, NodeFixpoint
    <2>4. h = step(h)
      BY <1>3, <2>3
    <2> QED
      BY <2>4
  <1>10. val = step(val)
    BY <1>5, <1>9
  <1>11. \A m \in Node : m \in {k \in Node : h[k] = val[k]}
    <2>1. ASSUME NEW m \in Node, \A o \in Children(m) : o \in {k \in Node : h[k] = val[k]}
          PROVE  h[m] = val[m]
      <3>1. step(h)[m] = step(val)[m]
        BY <1>6, <2>1
      <3> QED
        BY <1>9, <1>10, <3>1
    <2> QED
      BY <2>1, NodeInduction
  <1>12. \A m \in Node : Simplify(m, known) = h[m]
    BY <1>4, <1>11
  <1>13. \A m \in Node : Step(h, m, h[m])
    BY <1>1, <1>9
  <1> HIDE DEF Step
  <1>14. h \in [Node -> Node] /\ \A m \in Node : Simplify(m, known) = h[m] /\ Step(h, m, h[m])
    BY <1>12, <1>13
  <1> QED
    BY <1>14 DEF Step

(* Simplify keeps what a circuit means wherever the known nodes hold. *)
THEOREM SimplifyRight ==
  ASSUME IsNodeSet, NEW known, NEW n \in Node
  PROVE  /\ Simplify(n, known) \in Node
         /\ VarsOf(Simplify(n, known)) \subseteq VarsOf(n)
         /\ \A e : Defined(e, n) /\ (\A k \in known : Holds(k, e))
                        => (Holds(Simplify(n, known), e) <=> Holds(n, e))
  <1> PICK h \in [Node -> Node] :
            /\ \A m \in Node : Simplify(m, known) = h[m]
            /\ \A m \in Node :
                \/ m \in known /\ h[m] = TrueNode
                \/ MakeNot(m) \in known /\ h[m] = FalseNode
                \/ (IsConst(m) \/ Type(m) = "LITERAL") /\ h[m] = m
                \/ Type(m) = "NEGATION" /\ h[m] = RebuildNot(m, h[Operand(m)])
                \/ Type(m) \in Gates /\ h[m] \in {PropagatedFrom(m, h), RebuiltFrom(m, h)}
    BY SimplifyEqs
  <1> DEFINE Same(e, m) == Defined(e, m) /\ (\A k \in known : Holds(k, e))
                            => (Holds(h[m], e) <=> Holds(m, e))
             Right(m) == VarsOf(h[m]) \subseteq VarsOf(m) /\ \A e : Same(e, m)
             S == {k \in Node : Right(k)}
  <1>1. ASSUME NEW m \in Node, \A o \in Children(m) : o \in S PROVE Right(m)
    <2>0. \A o \in Children(m) : Right(o)
      BY <1>1
    <2>1. CASE m \in known /\ h[m] = TrueNode
      BY <2>1, ConstNodes
    <2>2. CASE MakeNot(m) \in known /\ h[m] = FalseNode
      <3>1. \A e : Same(e, m)
        BY <2>2, ConstNodes, MakeNotRight
      <3>2. VarsOf(h[m]) \subseteq VarsOf(m)
        BY <2>2, ConstNodes
      <3> QED
        BY <3>1, <3>2
    <2>3. CASE (IsConst(m) \/ Type(m) = "LITERAL") /\ h[m] = m
      BY <2>3
    <2>4. CASE Type(m) = "NEGATION" /\ h[m] = RebuildNot(m, h[Operand(m)])
      <3> DEFINE o == Operand(m)
      <3>1. o \in Node /\ Right(o) /\ VarsOf(m) = VarsOf(o) /\ h[m] = RebuildNot(m, h[o]) /\ h[o] \in Node
        <4> HIDE DEF Right
        <4> QED
          BY <2>0, <2>4, Shape, ChildrenOf, VarsOfCases
      <3>2. VarsOf(h[m]) = VarsOf(h[o])
        BY <2>4, <3>1, RebuildNotRight
      <3>3. ASSUME NEW e, Defined(e, m), \A k \in known : Holds(k, e)
            PROVE  Holds(h[m], e) <=> Holds(m, e)
        <4>1. Defined(e, o) /\ Defined(e, h[o])
          BY <3>1, <3>3 DEF Defined
        <4>2. Holds(h[o], e) <=> Holds(o, e)
          BY <3>1, <3>3, <4>1
        <4> QED
          BY <2>4, <3>1, <4>1, <4>2, RebuildNotRight
      <3> QED
        BY <3>1, <3>2, <3>3
    <2>5. CASE Type(m) \in Gates /\ h[m] \in {PropagatedFrom(m, h), RebuiltFrom(m, h)}
      <3>1. /\ Operands(m) \in SUBSET Node /\ \A o \in Operands(m) : Right(o) /\ h[o] \in Node
            /\ VarsOf(m) = UNION {VarsOf(o) : o \in Operands(m)}
        <4> HIDE DEF Right
        <4> QED
          BY <2>0, <2>5, Shape, ChildrenOf, VarsOfCases
      <3>2. VarsOf(h[m]) \subseteq UNION {VarsOf(h[o]) : o \in Operands(m)}
        BY <2>5, <3>1, RebuildRight, PropagateRight
      <3>3. VarsOf(h[m]) \subseteq VarsOf(m)
        <4>1. \A o \in Operands(m) : VarsOf(h[o]) \subseteq VarsOf(o)
          BY <3>1
        <4>2. VarsOf(m) = UNION {VarsOf(o) : o \in Operands(m)}
          BY <3>1
        <4> HIDE DEF Right
        <4> QED
          BY <3>2, <4>1, <4>2
      <3>4. ASSUME NEW e, Defined(e, m), \A k \in known : Holds(k, e)
            PROVE  Holds(h[m], e) <=> Holds(m, e)
        <4>1. ASSUME NEW o \in Operands(m)
              PROVE  Defined(e, h[o]) /\ (Holds(h[o], e) <=> Holds(o, e))
          <5>1. Defined(e, o) /\ Defined(e, h[o])
            BY <3>1, <3>4 DEF Defined
          <5> QED
            BY <3>1, <3>4, <5>1
        <4> QED
          BY <2>5, <3>1, <4>1, RebuildRight, PropagateRight
      <3> QED
        BY <3>3, <3>4
    <2> QED
      BY <2>1, <2>2, <2>3, <2>4, <2>5
  <1>2. \A m \in Node : m \in S
    <2>1. \A m \in Node : (\A o \in Children(m) : o \in S) => m \in S
      BY <1>1
    <2> HIDE DEF S
    <2> QED
      BY <2>1, NodeInduction
  <1> QED
    BY <1>2

(* The nodes below a node. *)
LEMMA SubNodesEqs ==
  ASSUME IsNodeSet, NEW n \in Node
  PROVE  /\ SubNodes(n) \in SUBSET Node
         /\ SubNodes(n) = {n} \cup UNION {SubNodes(o) : o \in Children(n)}
  <1> DEFINE step(h) == [m \in Node |-> {m} \cup UNION {h[o] : o \in Children(m)}]
             F == [h \in [Node -> SUBSET Node] |-> step(h)]
             val == CHOOSE h : h = step(h)
  <1>1. ASSUME NEW h \in [Node -> SUBSET Node], NEW m \in Node
        PROVE  step(h)[m] \in SUBSET Node
    BY ChildrenOf
  <1>2. F \in [[Node -> SUBSET Node] -> [Node -> SUBSET Node]]
    BY <1>1
  <1>3. ASSUME NEW f \in [Node -> SUBSET Node], NEW g \in [Node -> SUBSET Node], NEW m \in Node,
               \A o \in Children(m) : f[o] = g[o]
        PROVE  step(f)[m] = step(g)[m]
    <2>1. UNION {f[o] : o \in Children(m)} = UNION {g[o] : o \in Children(m)}
      BY <1>3
    <2> QED
      BY <2>1
  <1>4. \E h \in [Node -> SUBSET Node] : h = F[h]
    <2>1. \A f \in [Node -> SUBSET Node] : F[f] = step(f)
      OBVIOUS
    <2> HIDE DEF F, step
    <2>2. \A f, g \in [Node -> SUBSET Node], m \in Node :
            (\A o \in Children(m) : f[o] = g[o]) => F[f][m] = F[g][m]
      BY <1>3, <2>1
    <2> QED
      BY <1>2, <2>2, NodeFixpoint
  <1>5. PICK h \in [Node -> SUBSET Node] : h = step(h)
    BY <1>4
  <1>6. val = step(val)
    BY <1>5
  <1>7. \A m : SubNodes(m) = val[m]
    BY DEF SubNodes
  <1> HIDE DEF val
  <1>8. \A m \in Node : val[m] = {m} \cup UNION {val[o] : o \in Children(m)}
    BY <1>6
  <1>9. \A m \in Node : val[m] \in SUBSET Node
    <2> DEFINE S == {m \in Node : val[m] \in SUBSET Node}
    <2>1. ASSUME NEW m \in Node, \A o \in Children(m) : o \in S PROVE m \in S
      BY <1>8, <2>1
    <2> HIDE DEF S
    <2>2. \A m \in Node : m \in S
      BY <2>1, NodeInduction
    <2> QED
      BY <2>2 DEF S
  <1> QED
    BY <1>7, <1>8, <1>9

(* The values a node can have while some variables are not assigned. *)
Values == {"TRUE", "FALSE", Undefined}

(* A gate with operands of these values, v[o]: one operand that absorbs    *)
(* is enough, else all of them must be known.                              *)
GateValue(type, ops, v) ==
    IF \E o \in ops : v[o] = ValueOf(type = "OR") THEN ValueOf(type = "OR")
    ELSE IF \E o \in ops : v[o] = Undefined THEN Undefined
    ELSE ValueOf(type = "AND")

(* The values.                                                             *)
LEMMA ValueFacts ==
  /\ \A b : ValueOf(b) \in {"TRUE", "FALSE"} /\ (ValueOf(b) = "TRUE" <=> b)
  /\ Undefined \notin {"TRUE", "FALSE"}
  /\ \A v : Negated(v) \in Values
  /\ Negated(Undefined) = Undefined /\ Negated("TRUE") = "FALSE" /\ Negated("FALSE") = "TRUE"
  BY DEF ValueOf, Undefined, Negated, Values

(* Eval, operand by operand.                                               *)
LEMMA EvalEqs ==
  ASSUME IsNodeSet, NEW vals
  PROVE  \E h \in [Node -> Values] :
            /\ \A m \in Node : Eval(m, vals) = h[m]
            /\ \A m \in Node :
                /\ IsConst(m) => h[m] = ValueOf(m = TrueNode)
                /\ Type(m) = "LITERAL" =>
                      h[m] = IF m \in vals THEN "TRUE"
                             ELSE IF Complement(m) \in vals THEN "FALSE" ELSE Undefined
                /\ Type(m) = "NEGATION" => h[m] = Negated(h[Operand(m)])
                /\ Type(m) \in Gates => h[m] = GateValue(Type(m), Operands(m), h)
  <1> DEFINE step(h) ==
        [m \in Node |->
            CASE IsConst(m) -> ValueOf(m = TrueNode)
              [] Type(m) = "LITERAL" ->
                    IF Assigns(vals, m) THEN ValueOf(m \in vals) ELSE Undefined
              [] Type(m) = "NEGATION" -> Negated(h[Operand(m)])
              [] OTHER ->
                    LET values == {h[o] : o \in Operands(m)}
                        decides == ValueOf(Type(m) = "OR")
                    IN  IF decides \in values THEN decides
                        ELSE IF Undefined \in values THEN Undefined
                        ELSE ValueOf(Type(m) = "AND")]
      F == [h \in [Node -> Values] |-> step(h)]
      val == CHOOSE h : h = step(h)
      Step(h, m, r) ==
            /\ IsConst(m) => r = ValueOf(m = TrueNode)
            /\ Type(m) = "LITERAL" =>
                      r = IF m \in vals THEN "TRUE"
                             ELSE IF Complement(m) \in vals THEN "FALSE" ELSE Undefined
            /\ Type(m) = "NEGATION" => r = Negated(h[Operand(m)])
            /\ Type(m) \in Gates => r = GateValue(Type(m), Operands(m), h)
  <1>1. ASSUME NEW h, NEW m \in Node PROVE Step(h, m, step(h)[m])
    <2>1. CASE Type(m) \in Gates
      <3>1. step(h)[m] = GateValue(Type(m), Operands(m), h)
        BY <2>1, Shape DEF Gates, GateValue
      <3> QED
        BY <2>1, <3>1, Shape DEF Gates
    <2>2. CASE Type(m) = "LITERAL"
      <3>1. step(h)[m] = IF Assigns(vals, m) THEN ValueOf(m \in vals) ELSE Undefined
        BY <2>2, Shape DEF Gates
      <3>2. step(h)[m] = IF m \in vals THEN "TRUE"
                             ELSE IF Complement(m) \in vals THEN "FALSE" ELSE Undefined
        <4> HIDE DEF step
        <4> QED
          BY <3>1 DEF Assigns, ValueOf
      <3> QED
        BY <2>2, <3>2, Shape DEF Gates
    <2>3. CASE Type(m) = "NEGATION"
      BY <2>3, Shape DEF Gates
    <2>4. CASE IsConst(m)
      BY <2>4, Shape DEF Gates
    <2> QED
      BY <2>1, <2>2, <2>3, <2>4, Shape DEF Gates
  <1>2. \A h : step(h) = [m \in Node |-> step(h)[m]]
    OBVIOUS
  <1>3. F = [h \in [Node -> Values] |-> step(h)]
    OBVIOUS
  <1>4. \A m : Eval(m, vals) = val[m]
    BY DEF Eval
  <1>5. ASSUME NEW h, h = step(h) PROVE val = step(val)
    BY <1>5
  <1> HIDE DEF step, F, val
  <1>6. ASSUME NEW h, NEW m \in Node PROVE step(h)[m] \in Values
    <2> DEFINE r == step(h)[m]
    <2>1. Step(h, m, r)
      BY <1>1
    <2>2. GateValue(Type(m), Operands(m), h) \in Values
      BY ValueFacts DEF GateValue, Values
    <2> HIDE DEF r
    <2>3. r \in Values
      BY <2>1, <2>2, ValueFacts, Shape DEF Values, Gates
    <2> QED
      BY <2>3 DEF r
  <1>7. F \in [[Node -> Values] -> [Node -> Values]]
    <2>1. \A h \in [Node -> Values] : step(h) \in [Node -> Values]
      BY <1>2, <1>6
    <2> QED
      BY <1>3, <2>1
  <1>8. ASSUME NEW f, NEW g, NEW m \in Node, \A o \in Children(m) : f[o] = g[o]
        PROVE  step(f)[m] = step(g)[m]
    <2>1. CASE IsConst(m) \/ Type(m) = "LITERAL"
      BY <1>1, <2>1
    <2>2. CASE Type(m) = "NEGATION"
      BY <1>1, <1>8, <2>2, ChildrenOf
    <2>3. CASE Type(m) \in Gates
      <3>1. GateValue(Type(m), Operands(m), f) = GateValue(Type(m), Operands(m), g)
        BY <1>8, <2>3, ChildrenOf DEF GateValue
      <3> QED
        BY <1>1, <2>3, <3>1
    <2> QED
      BY <2>1, <2>2, <2>3, Shape DEF Gates
  <1>9. PICK h \in [Node -> Values] : h = step(h)
    <2>1. \A f, g \in [Node -> Values], m \in Node :
            (\A o \in Children(m) : f[o] = g[o]) => F[f][m] = F[g][m]
      BY <1>3, <1>8
    <2>2. Values # {}
      BY DEF Values
    <2>3. PICK h \in [Node -> Values] : h = F[h]
      BY <1>7, <2>1, <2>2, NodeFixpoint
    <2>4. h = step(h)
      BY <1>3, <2>3
    <2> QED
      BY <2>4
  <1>10. val = step(val)
    BY <1>5, <1>9
  <1>11. \A m \in Node : m \in {k \in Node : h[k] = val[k]}
    <2>1. ASSUME NEW m \in Node, \A o \in Children(m) : o \in {k \in Node : h[k] = val[k]}
          PROVE  h[m] = val[m]
      <3>1. step(h)[m] = step(val)[m]
        BY <1>8, <2>1
      <3> QED
        BY <1>9, <1>10, <3>1
    <2> QED
      BY <2>1, NodeInduction
  <1>12. \A m \in Node : Eval(m, vals) = h[m]
    BY <1>4, <1>11
  <1>13. \A m \in Node : Step(h, m, h[m])
    BY <1>1, <1>9
  <1> HIDE DEF Step
  <1>14. h \in [Node -> Values] /\ \A m \in Node : Eval(m, vals) = h[m] /\ Step(h, m, h[m])
    BY <1>12, <1>13
  <1> QED
    BY <1>14 DEF Step

(* Eval, case by case. *)
LEMMA EvalCases ==
  ASSUME IsNodeSet, NEW vals, NEW n \in Node
  PROVE  /\ Eval(n, vals) \in Values
         /\ n = TrueNode => Eval(n, vals) = "TRUE"
         /\ n = FalseNode => Eval(n, vals) = "FALSE"
         /\ Type(n) = "LITERAL" =>
                Eval(n, vals) = IF n \in vals THEN "TRUE"
                                ELSE IF Complement(n) \in vals THEN "FALSE" ELSE Undefined
         /\ Type(n) = "NEGATION" => Eval(n, vals) = Negated(Eval(Operand(n), vals))
         /\ Type(n) = "AND" =>
                /\ Eval(n, vals) = "FALSE" <=> \E o \in Operands(n) : Eval(o, vals) = "FALSE"
                /\ Eval(n, vals) = "TRUE" <=> \A o \in Operands(n) : Eval(o, vals) = "TRUE"
         /\ Type(n) = "OR" =>
                /\ Eval(n, vals) = "TRUE" <=> \E o \in Operands(n) : Eval(o, vals) = "TRUE"
                /\ Eval(n, vals) = "FALSE" <=> \A o \in Operands(n) : Eval(o, vals) = "FALSE"
  <1> PICK h \in [Node -> Values] :
            /\ \A m \in Node : Eval(m, vals) = h[m]
            /\ \A m \in Node :
                /\ IsConst(m) => h[m] = ValueOf(m = TrueNode)
                /\ Type(m) = "LITERAL" =>
                      h[m] = IF m \in vals THEN "TRUE"
                             ELSE IF Complement(m) \in vals THEN "FALSE" ELSE Undefined
                /\ Type(m) = "NEGATION" => h[m] = Negated(h[Operand(m)])
                /\ Type(m) \in Gates => h[m] = GateValue(Type(m), Operands(m), h)
    BY EvalEqs
  <1>1. ASSUME IsConst(n) PROVE Eval(n, vals) = ValueOf(n = TrueNode)
    BY <1>1
  <1>2. ValueOf(TrueNode = TrueNode) = "TRUE" /\ ValueOf(FalseNode = TrueNode) = "FALSE"
    BY ConstNodes DEF ValueOf
  <1>3. Type(n) = "NEGATION" => Eval(n, vals) = Negated(Eval(Operand(n), vals))
    BY Shape
  <1>4. ASSUME Type(n) = "AND"
        PROVE  /\ Eval(n, vals) = "FALSE" <=> \E o \in Operands(n) : Eval(o, vals) = "FALSE"
               /\ Eval(n, vals) = "TRUE" <=> \A o \in Operands(n) : Eval(o, vals) = "TRUE"
    <2>1. Operands(n) \in SUBSET Node /\ \A o \in Operands(n) : Eval(o, vals) = h[o] /\ h[o] \in Values
      BY <1>4, Shape DEF Gates
    <2>2. Eval(n, vals) = IF \E o \in Operands(n) : h[o] = "FALSE" THEN "FALSE"
                          ELSE IF \E o \in Operands(n) : h[o] = Undefined THEN Undefined ELSE "TRUE"
      BY <1>4 DEF Gates, GateValue, ValueOf
    <2> QED
      BY <2>1, <2>2 DEF Values, Undefined
  <1>5. ASSUME Type(n) = "OR"
        PROVE  /\ Eval(n, vals) = "TRUE" <=> \E o \in Operands(n) : Eval(o, vals) = "TRUE"
               /\ Eval(n, vals) = "FALSE" <=> \A o \in Operands(n) : Eval(o, vals) = "FALSE"
    <2>1. Operands(n) \in SUBSET Node /\ \A o \in Operands(n) : Eval(o, vals) = h[o] /\ h[o] \in Values
      BY <1>5, Shape DEF Gates
    <2>2. Eval(n, vals) = IF \E o \in Operands(n) : h[o] = "TRUE" THEN "TRUE"
                          ELSE IF \E o \in Operands(n) : h[o] = Undefined THEN Undefined ELSE "FALSE"
      BY <1>5 DEF Gates, GateValue, ValueOf
    <2> QED
      BY <2>1, <2>2 DEF Values, Undefined
  <1> QED
    BY <1>1, <1>2, <1>3, <1>4, <1>5, ConstNodes

(* The values of a substitution are those of the assignment d, on vs. *)
Follows(d, sub, vs) ==
    \A v \in vs : Assigns(sub, Literal(v, TRUE)) => d[v] = (Literal(v, TRUE) \in sub)

(* A literal of the substitution holds, one whose complement is in it does *)
(* not.                                                                    *)
LEMMA FollowedLiteral ==
  ASSUME IsNodeSet, NEW n \in Node, Type(n) = "LITERAL",
         NEW sub, Consistent(sub), NEW d, Follows(d, sub, {LitVar(n)})
  PROVE  /\ n \in sub => Holds(n, d)
         /\ Complement(n) \in sub => ~ Holds(n, d)
  <1>1. Assigns(sub, n) => d[LitVar(n)] = (Literal(LitVar(n), TRUE) \in sub)
    BY AssignedLiteral DEF Follows
  <1>2. Holds(n, d) <=> d[LitVar(n)] = Positive(n)
    BY HoldsEqs
  <1>3. Assigns(sub, n) => ((n \in sub) <=> ((Literal(LitVar(n), TRUE) \in sub) = Positive(n)))
    BY AssignedLiteral
  <1>4. Assigns(sub, n) <=> (n \in sub \/ Complement(n) \in sub)
    BY DEF Assigns
  <1>5. Assigns(sub, n) => (Holds(n, d) <=> n \in sub)
    BY <1>1, <1>2, <1>3
  <1>6. Complement(n) \in sub => n \notin sub
    BY DEF Consistent
  <1> QED
    BY <1>4, <1>5, <1>6

(* Eval is right. *)
THEOREM EvalRight ==
  ASSUME IsNodeSet, NEW vals, Consistent(vals), NEW n \in Node,
         NEW d, Follows(d, vals, VarsOf(n))
  PROVE  /\ Eval(n, vals) = "TRUE" => Holds(n, d)
         /\ Eval(n, vals) = "FALSE" => ~ Holds(n, d)
  <1> DEFINE Right(m) == Follows(d, vals, VarsOf(m)) =>
                            /\ Eval(m, vals) = "TRUE" => Holds(m, d)
                            /\ Eval(m, vals) = "FALSE" => ~ Holds(m, d)
             S == {k \in Node : Right(k)}
  <1>1. ASSUME NEW m \in Node, \A o \in Children(m) : Right(o) PROVE Right(m)
    <2> SUFFICES ASSUME Follows(d, vals, VarsOf(m))
                 PROVE  /\ Eval(m, vals) = "TRUE" => Holds(m, d)
                        /\ Eval(m, vals) = "FALSE" => ~ Holds(m, d)
      OBVIOUS
    <2>1. CASE IsConst(m)
      BY <2>1, EvalCases, ConstNodes DEF IsConst
    <2>2. CASE Type(m) = "LITERAL"
      <3>1. VarsOf(m) = {LitVar(m)}
        BY <2>2, VarsOfCases
      <3>2. Eval(m, vals) = IF m \in vals THEN "TRUE"
                                ELSE IF Complement(m) \in vals THEN "FALSE" ELSE Undefined
        BY <2>2, EvalCases
      <3> QED
        BY <2>2, <3>1, <3>2, FollowedLiteral DEF Undefined
    <2>3. CASE Type(m) = "NEGATION"
      <3>1. Operand(m) \in Node /\ Children(m) = {Operand(m)} /\ VarsOf(m) = VarsOf(Operand(m))
        BY <2>3, Shape, ChildrenOf, VarsOfCases
      <3>2. /\ Eval(Operand(m), vals) = "TRUE" => Holds(Operand(m), d)
            /\ Eval(Operand(m), vals) = "FALSE" => ~ Holds(Operand(m), d)
        BY <1>1, <3>1
      <3>3. Eval(m, vals) = Negated(Eval(Operand(m), vals)) /\ Eval(Operand(m), vals) \in Values
        BY <2>3, <3>1, EvalCases
      <3>4. Holds(m, d) <=> ~ Holds(Operand(m), d)
        BY <2>3, HoldsEqs
      <3> QED
        BY <3>2, <3>3, <3>4, ValueFacts DEF Values
    <2>4. CASE Type(m) \in Gates
      <3>1. Operands(m) \in SUBSET Node /\ Children(m) = Operands(m)
            /\ VarsOf(m) = UNION {VarsOf(o) : o \in Operands(m)} /\ Operands(m) # {}
        BY <2>4, Shape, ChildrenOf, VarsOfCases
      <3>2. \A o \in Operands(m) : /\ Eval(o, vals) = "TRUE" => Holds(o, d)
                                   /\ Eval(o, vals) = "FALSE" => ~ Holds(o, d)
        <4>1. \A o \in Operands(m) : Follows(d, vals, VarsOf(o))
          BY <3>1 DEF Follows
        <4> QED
          BY <1>1, <3>1, <4>1
      <3>3. CASE Type(m) = "AND"
        BY <3>1, <3>2, <3>3, EvalCases, HoldsEqs
      <3>4. CASE Type(m) = "OR"
        BY <3>1, <3>2, <3>4, EvalCases, HoldsEqs
      <3> QED
        BY <2>4, <3>3, <3>4 DEF Gates
    <2> QED
      BY <2>1, <2>2, <2>3, <2>4, Shape DEF Gates
  <1>2. \A m \in Node : m \in S
    <2>1. \A m \in Node : (\A o \in Children(m) : o \in S) => m \in S
      BY <1>1
    <2> HIDE DEF S
    <2> QED
      BY <2>1, NodeInduction
  <1> QED
    BY <1>2

(* Eval has a value once all variables are assigned. *)
LEMMA EvalTotal ==
  ASSUME IsNodeSet, NEW vals, NEW n \in Node, \A v \in VarsOf(n) : Assigns(vals, Literal(v, TRUE))
  PROVE  Eval(n, vals) # Undefined
  <1> DEFINE Right(m) == (\A v \in VarsOf(m) : Assigns(vals, Literal(v, TRUE))) => Eval(m, vals) # Undefined
             S == {k \in Node : Right(k)}
  <1>1. ASSUME NEW m \in Node, \A o \in Children(m) : Right(o),
               \A v \in VarsOf(m) : Assigns(vals, Literal(v, TRUE))
        PROVE  Eval(m, vals) # Undefined
    <2>1. CASE IsConst(m)
      BY <2>1, EvalCases, ValueFacts DEF IsConst
    <2>2. CASE Type(m) = "LITERAL"
      <3>1. Assigns(vals, m)
        BY <1>1, <2>2, VarsOfCases, AssignedLiteral
      <3> QED
        BY <2>2, <3>1, EvalCases, ValueFacts DEF Assigns
    <2>3. CASE Type(m) = "NEGATION"
      <3>1. Eval(Operand(m), vals) \in {"TRUE", "FALSE"}
        <4>1. Operand(m) \in Node /\ Children(m) = {Operand(m)} /\ VarsOf(m) = VarsOf(Operand(m))
          BY <2>3, Shape, ChildrenOf, VarsOfCases
        <4>2. Eval(Operand(m), vals) # Undefined
          BY <1>1, <4>1
        <4> QED
          BY <4>1, <4>2, EvalCases DEF Values
      <3> QED
        BY <2>3, <3>1, EvalCases, ValueFacts
    <2>4. CASE Type(m) \in Gates
      <3>1. \A o \in Operands(m) : Eval(o, vals) \in {"TRUE", "FALSE"}
        <4>1. Operands(m) \in SUBSET Node /\ Children(m) = Operands(m)
              /\ VarsOf(m) = UNION {VarsOf(o) : o \in Operands(m)}
          BY <2>4, Shape, ChildrenOf, VarsOfCases
        <4>2. \A o \in Operands(m) : Eval(o, vals) # Undefined
          BY <1>1, <4>1
        <4> QED
          BY <4>1, <4>2, EvalCases DEF Values
      <3>2. Eval(m, vals) = "TRUE" \/ Eval(m, vals) = "FALSE"
        <4>1. CASE Type(m) = "AND"
          BY <3>1, <4>1, EvalCases
        <4>2. CASE Type(m) = "OR"
          BY <3>1, <4>2, EvalCases
        <4> QED
          BY <2>4, <4>1, <4>2 DEF Gates
      <3> QED
        BY <3>2, ValueFacts
    <2> QED
      BY <2>1, <2>2, <2>3, <2>4, Shape DEF Gates
  <1>2. \A m \in Node : m \in S
    <2>1. \A m \in Node : (\A o \in Children(m) : o \in S) => m \in S
      BY <1>1
    <2> HIDE DEF S
    <2> QED
      BY <2>1, NodeInduction
  <1> QED
    BY <1>2

(* The complement of a node has the contrary value. *)
LEMMA EvalNot ==
  ASSUME IsNodeSet, NEW vals, Consistent(vals), NEW n \in Node
  PROVE  Eval(MakeNot(n), vals) = Negated(Eval(n, vals))
  <1>1. CASE IsConst(n)
    <2>1. MakeNot(n) = ConstNode(n = FalseNode)
      BY <1>1, Shape DEF MakeNot, Gates
    <2>2. CASE n = TrueNode
      BY <2>1, <2>2, ConstNodes, EvalCases, ValueFacts DEF ConstNode
    <2>3. CASE n = FalseNode
      BY <2>1, <2>3, ConstNodes, EvalCases, ValueFacts DEF ConstNode
    <2> QED
      BY <1>1, <2>2, <2>3 DEF IsConst
  <1>2. CASE Type(n) = "LITERAL"
    <2>1. MakeNot(n) = Complement(n)
      BY <1>2, Shape DEF MakeNot, Gates
    <2>2. Complement(n) \in Node /\ Type(Complement(n)) = "LITERAL" /\ Complement(Complement(n)) = n
      BY <1>2, ComplementRight
    <2>3. n \in vals => Complement(n) \notin vals
      BY DEF Consistent
    <2> QED
      BY <1>2, <2>1, <2>2, <2>3, EvalCases, ValueFacts
  <1>3. CASE Type(n) = "NEGATION"
    <2>1. MakeNot(n) = Operand(n)
      BY <1>3, Shape DEF MakeNot, Gates
    <2>2. Operand(n) \in Node
      BY <1>3, Shape
    <2> QED
      BY <1>3, <2>1, <2>2, EvalCases, ValueFacts DEF Values
  <1>4. CASE Type(n) \in Gates
    <2>1. MakeNot(n) = <<"NEGATION", n>>
      BY <1>4, Shape DEF MakeNot, Gates
    <2>2. MakeNot(n) \in Node /\ Type(MakeNot(n)) = "NEGATION" /\ Operand(MakeNot(n)) = n
      BY <2>1, MakeNotRight DEF Type, Operand
    <2> QED
      BY <2>2, EvalCases
  <1> QED
    BY <1>1, <1>2, <1>3, <1>4, Shape DEF Gates

(* The same for the counters of EvalUp: without a deciding operand, all of *)
(* them must have the other value.                                         *)
CountedValue(type, ops, v) ==
    IF \E o \in ops : v[o] = ValueOf(type = "OR") THEN ValueOf(type = "OR")
    ELSE IF \A o \in ops : v[o] = ValueOf(type = "AND") THEN ValueOf(type = "AND")
    ELSE Undefined

(* The propagation, operand by operand.                                    *)
LEMMA PropagatedEqs ==
  ASSUME IsNodeSet, NEW vals
  PROVE  \E h \in [Node -> Values] :
            /\ \A m \in Node : Propagated(m, vals) = h[m]
            /\ \A m \in Node :
                /\ IsConst(m) => h[m] = Undefined
                /\ Type(m) = "LITERAL" =>
                      h[m] = IF m \in vals THEN "TRUE"
                             ELSE IF Complement(m) \in vals THEN "FALSE" ELSE Undefined
                /\ Type(m) = "NEGATION" => h[m] = Negated(h[Operand(m)])
                /\ Type(m) \in Gates => h[m] = CountedValue(Type(m), Operands(m), h)
  <1> DEFINE step(h) ==
        [m \in Node |->
            CASE IsConst(m) -> Undefined
              [] Type(m) = "LITERAL" ->
                    IF Assigns(vals, m) THEN ValueOf(m \in vals) ELSE Undefined
              [] Type(m) = "NEGATION" -> Negated(h[Operand(m)])
              [] OTHER ->
                    LET values == {h[o] : o \in Operands(m)}
                        decides == ValueOf(Type(m) = "OR")
                        otherwise == ValueOf(Type(m) = "AND")
                    IN  IF decides \in values THEN decides
                        ELSE IF values = {otherwise} THEN otherwise ELSE Undefined]
      F == [h \in [Node -> Values] |-> step(h)]
      val == CHOOSE h : h = step(h)
      Step(h, m, r) ==
            /\ IsConst(m) => r = Undefined
            /\ Type(m) = "LITERAL" =>
                      r = IF m \in vals THEN "TRUE"
                             ELSE IF Complement(m) \in vals THEN "FALSE" ELSE Undefined
            /\ Type(m) = "NEGATION" => r = Negated(h[Operand(m)])
            /\ Type(m) \in Gates => r = CountedValue(Type(m), Operands(m), h)
  <1>1. ASSUME NEW h, NEW m \in Node PROVE Step(h, m, step(h)[m])
    <2>1. CASE Type(m) \in Gates
      <3> DEFINE values == {h[o] : o \in Operands(m)}
      <3>1. step(h)[m] =
                IF ValueOf(Type(m) = "OR") \in values THEN ValueOf(Type(m) = "OR")
                ELSE IF values = {ValueOf(Type(m) = "AND")} THEN ValueOf(Type(m) = "AND") ELSE Undefined
        BY <2>1, Shape DEF Gates
      <3>2. Operands(m) # {}
        BY <2>1, Shape
      <3>3. (values = {ValueOf(Type(m) = "AND")}) <=> \A o \in Operands(m) : h[o] = ValueOf(Type(m) = "AND")
        BY <3>2
      <3>4. (ValueOf(Type(m) = "OR") \in values) <=> \E o \in Operands(m) : h[o] = ValueOf(Type(m) = "OR")
        OBVIOUS
      <3> HIDE DEF step, values
      <3>5. step(h)[m] = CountedValue(Type(m), Operands(m), h)
        BY <3>1, <3>3, <3>4 DEF CountedValue
      <3> QED
        BY <2>1, <3>5, Shape DEF Gates
    <2>2. CASE Type(m) = "LITERAL"
      <3>1. step(h)[m] = IF Assigns(vals, m) THEN ValueOf(m \in vals) ELSE Undefined
        BY <2>2, Shape DEF Gates
      <3>2. step(h)[m] = IF m \in vals THEN "TRUE"
                             ELSE IF Complement(m) \in vals THEN "FALSE" ELSE Undefined
        <4> HIDE DEF step
        <4> QED
          BY <3>1 DEF Assigns, ValueOf
      <3> QED
        BY <2>2, <3>2, Shape DEF Gates
    <2>3. CASE Type(m) = "NEGATION"
      BY <2>3, Shape DEF Gates
    <2>4. CASE IsConst(m)
      BY <2>4, Shape DEF Gates
    <2> QED
      BY <2>1, <2>2, <2>3, <2>4, Shape DEF Gates
  <1>2. \A h : step(h) = [m \in Node |-> step(h)[m]]
    OBVIOUS
  <1>3. F = [h \in [Node -> Values] |-> step(h)]
    OBVIOUS
  <1>4. \A m : Propagated(m, vals) = val[m]
    BY DEF Propagated
  <1>5. ASSUME NEW h, h = step(h) PROVE val = step(val)
    BY <1>5
  <1> HIDE DEF step, F, val
  <1>6. ASSUME NEW h, NEW m \in Node PROVE step(h)[m] \in Values
    <2> DEFINE r == step(h)[m]
    <2>1. Step(h, m, r)
      BY <1>1
    <2>2. CountedValue(Type(m), Operands(m), h) \in Values
      BY ValueFacts DEF CountedValue, Values
    <2> HIDE DEF r
    <2>3. r \in Values
      BY <2>1, <2>2, ValueFacts, Shape DEF Values, Gates
    <2> QED
      BY <2>3 DEF r
  <1>7. F \in [[Node -> Values] -> [Node -> Values]]
    <2>1. \A h \in [Node -> Values] : step(h) \in [Node -> Values]
      BY <1>2, <1>6
    <2> QED
      BY <1>3, <2>1
  <1>8. ASSUME NEW f, NEW g, NEW m \in Node, \A o \in Children(m) : f[o] = g[o]
        PROVE  step(f)[m] = step(g)[m]
    <2>1. CASE IsConst(m) \/ Type(m) = "LITERAL"
      BY <1>1, <2>1
    <2>2. CASE Type(m) = "NEGATION"
      BY <1>1, <1>8, <2>2, ChildrenOf
    <2>3. CASE Type(m) \in Gates
      <3>1. CountedValue(Type(m), Operands(m), f) = CountedValue(Type(m), Operands(m), g)
        BY <1>8, <2>3, ChildrenOf DEF CountedValue
      <3> QED
        BY <1>1, <2>3, <3>1
    <2> QED
      BY <2>1, <2>2, <2>3, Shape DEF Gates
  <1>9. PICK h \in [Node -> Values] : h = step(h)
    <2>1. \A f, g \in [Node -> Values], m \in Node :
            (\A o \in Children(m) : f[o] = g[o]) => F[f][m] = F[g][m]
      BY <1>3, <1>8
    <2>2. Values # {}
      BY DEF Values
    <2>3. PICK h \in [Node -> Values] : h = F[h]
      BY <1>7, <2>1, <2>2, NodeFixpoint
    <2>4. h = step(h)
      BY <1>3, <2>3
    <2> QED
      BY <2>4
  <1>10. val = step(val)
    BY <1>5, <1>9
  <1>11. \A m \in Node : m \in {k \in Node : h[k] = val[k]}
    <2>1. ASSUME NEW m \in Node, \A o \in Children(m) : o \in {k \in Node : h[k] = val[k]}
          PROVE  h[m] = val[m]
      <3>1. step(h)[m] = step(val)[m]
        BY <1>8, <2>1
      <3> QED
        BY <1>9, <1>10, <3>1
    <2> QED
      BY <2>1, NodeInduction
  <1>12. \A m \in Node : Propagated(m, vals) = h[m]
    BY <1>4, <1>11
  <1>13. \A m \in Node : Step(h, m, h[m])
    BY <1>1, <1>9
  <1> HIDE DEF Step
  <1>14. h \in [Node -> Values] /\ \A m \in Node : Propagated(m, vals) = h[m] /\ Step(h, m, h[m])
    BY <1>12, <1>13
  <1> QED
    BY <1>14 DEF Step

(* The propagation, case by case.                                          *)
LEMMA PropagatedCases ==
  ASSUME IsNodeSet, NEW vals, NEW n \in Node
  PROVE  /\ Propagated(n, vals) \in Values
         /\ IsConst(n) => Propagated(n, vals) = Undefined
         /\ Type(n) = "LITERAL" => Propagated(n, vals) = Eval(n, vals)
         /\ Type(n) = "NEGATION" => Propagated(n, vals) = Negated(Propagated(Operand(n), vals))
         /\ Type(n) = "AND" =>
                /\ Propagated(n, vals) = "FALSE" <=> \E o \in Operands(n) : Propagated(o, vals) = "FALSE"
                /\ Propagated(n, vals) = "TRUE" <=> \A o \in Operands(n) : Propagated(o, vals) = "TRUE"
         /\ Type(n) = "OR" =>
                /\ Propagated(n, vals) = "TRUE" <=> \E o \in Operands(n) : Propagated(o, vals) = "TRUE"
                /\ Propagated(n, vals) = "FALSE" <=> \A o \in Operands(n) : Propagated(o, vals) = "FALSE"
  <1> PICK h \in [Node -> Values] :
            /\ \A m \in Node : Propagated(m, vals) = h[m]
            /\ \A m \in Node :
                /\ IsConst(m) => h[m] = Undefined
                /\ Type(m) = "LITERAL" =>
                      h[m] = IF m \in vals THEN "TRUE"
                             ELSE IF Complement(m) \in vals THEN "FALSE" ELSE Undefined
                /\ Type(m) = "NEGATION" => h[m] = Negated(h[Operand(m)])
                /\ Type(m) \in Gates => h[m] = CountedValue(Type(m), Operands(m), h)
    BY PropagatedEqs
  <1>1. Type(n) = "LITERAL" => Propagated(n, vals) = Eval(n, vals)
    BY EvalCases
  <1>2. IsConst(n) => Propagated(n, vals) = Undefined
    OBVIOUS
  <1>3. Type(n) = "NEGATION" => Propagated(n, vals) = Negated(Propagated(Operand(n), vals))
    BY Shape
  <1>4. ASSUME Type(n) = "AND"
        PROVE  /\ Propagated(n, vals) = "FALSE" <=> \E o \in Operands(n) : Propagated(o, vals) = "FALSE"
               /\ Propagated(n, vals) = "TRUE" <=> \A o \in Operands(n) : Propagated(o, vals) = "TRUE"
    <2>1. Operands(n) \in SUBSET Node /\ Operands(n) # {}
          /\ \A o \in Operands(n) : Propagated(o, vals) = h[o] /\ h[o] \in Values
      BY <1>4, Shape DEF Gates
    <2>2. Propagated(n, vals) = IF \E o \in Operands(n) : h[o] = "FALSE" THEN "FALSE"
                          ELSE IF \A o \in Operands(n) : h[o] = "TRUE" THEN "TRUE" ELSE Undefined
      BY <1>4 DEF Gates, CountedValue, ValueOf
    <2> QED
      BY <2>1, <2>2 DEF Values, Undefined
  <1>5. ASSUME Type(n) = "OR"
        PROVE  /\ Propagated(n, vals) = "TRUE" <=> \E o \in Operands(n) : Propagated(o, vals) = "TRUE"
               /\ Propagated(n, vals) = "FALSE" <=> \A o \in Operands(n) : Propagated(o, vals) = "FALSE"
    <2>1. Operands(n) \in SUBSET Node /\ Operands(n) # {}
          /\ \A o \in Operands(n) : Propagated(o, vals) = h[o] /\ h[o] \in Values
      BY <1>5, Shape DEF Gates
    <2>2. Propagated(n, vals) = IF \E o \in Operands(n) : h[o] = "TRUE" THEN "TRUE"
                          ELSE IF \A o \in Operands(n) : h[o] = "FALSE" THEN "FALSE" ELSE Undefined
      BY <1>5 DEF Gates, CountedValue, ValueOf
    <2> QED
      BY <2>1, <2>2 DEF Values, Undefined
  <1> QED
    BY <1>1, <1>2, <1>3, <1>4, <1>5

(* What comes up from the inputs is what Eval finds from the top.          *)
LEMMA PropagatedAgrees ==
  ASSUME IsNodeSet, NEW vals, NEW n \in Node
  PROVE  Propagated(n, vals) \in {Undefined, Eval(n, vals)}
  <1> DEFINE Right(m) == Propagated(m, vals) \in {Undefined, Eval(m, vals)}
             S == {k \in Node : Right(k)}
  <1>1. ASSUME NEW m \in Node, \A o \in Children(m) : Right(o) PROVE Right(m)
    <2>1. CASE IsConst(m) \/ Type(m) = "LITERAL"
      BY <2>1, PropagatedCases
    <2>2. CASE Type(m) = "NEGATION"
      <3>1. Operand(m) \in Node /\ Children(m) = {Operand(m)}
        BY <2>2, Shape, ChildrenOf
      <3>2. Propagated(Operand(m), vals) \in {Undefined, Eval(Operand(m), vals)}
        BY <1>1, <3>1
      <3> QED
        BY <2>2, <3>2, PropagatedCases, EvalCases, ValueFacts
    <2>3. CASE Type(m) \in Gates
      <3>1. Operands(m) \in SUBSET Node /\ Children(m) = Operands(m)
        BY <2>3, Shape, ChildrenOf
      <3>2. \A o \in Operands(m) : Propagated(o, vals) \in {Undefined, Eval(o, vals)}
        BY <1>1, <3>1
      <3>3. \A o \in Operands(m) : /\ Propagated(o, vals) = "TRUE" => Eval(o, vals) = "TRUE"
                                   /\ Propagated(o, vals) = "FALSE" => Eval(o, vals) = "FALSE"
        BY <3>2, ValueFacts
      <3>4. Propagated(m, vals) \in {"TRUE", "FALSE", Undefined}
        BY PropagatedCases DEF Values
      <3>5. CASE Type(m) = "AND"
        <4>1. Propagated(m, vals) = "FALSE" => Eval(m, vals) = "FALSE"
          BY <3>3, <3>5, PropagatedCases, EvalCases
        <4>2. Propagated(m, vals) = "TRUE" => Eval(m, vals) = "TRUE"
          BY <3>3, <3>5, PropagatedCases, EvalCases
        <4> QED
          BY <3>4, <4>1, <4>2
      <3>6. CASE Type(m) = "OR"
        <4>1. Propagated(m, vals) = "FALSE" => Eval(m, vals) = "FALSE"
          BY <3>3, <3>6, PropagatedCases, EvalCases
        <4>2. Propagated(m, vals) = "TRUE" => Eval(m, vals) = "TRUE"
          BY <3>3, <3>6, PropagatedCases, EvalCases
        <4> QED
          BY <3>4, <4>1, <4>2
      <3> QED
        BY <2>3, <3>5, <3>6 DEF Gates
    <2> QED
      BY <2>1, <2>2, <2>3, Shape DEF Gates
  <1>2. \A m \in Node : m \in S
    <2>1. \A m \in Node : (\A o \in Children(m) : o \in S) => m \in S
      BY <1>1
    <2> HIDE DEF S
    <2> QED
      BY <2>1, NodeInduction
  <1> QED
    BY <1>2

(* Without constants among the nodes below, nothing is missed.             *)
LEMMA PropagatedComplete ==
  ASSUME IsNodeSet, NEW vals, NEW n \in Node, \A s \in SubNodes(n) : ~ IsConst(s)
  PROVE  Propagated(n, vals) = Eval(n, vals)
  <1> DEFINE Constless(m) == \A s \in SubNodes(m) : ~ IsConst(s)
             Right(m) == Constless(m) => Propagated(m, vals) = Eval(m, vals)
             S == {k \in Node : Right(k)}
  <1>1. ASSUME NEW m \in Node, \A o \in Children(m) : Right(o), Constless(m)
        PROVE  Propagated(m, vals) = Eval(m, vals)
    <2>1. ~ IsConst(m) /\ \A o \in Children(m) : Constless(o)
      BY <1>1, SubNodesEqs
    <2>2. \A o \in Children(m) : Propagated(o, vals) = Eval(o, vals)
      BY <1>1, <2>1
    <2>3. CASE Type(m) = "LITERAL"
      BY <2>3, PropagatedCases
    <2>4. CASE Type(m) = "NEGATION"
      BY <2>2, <2>4, ChildrenOf, PropagatedCases, EvalCases
    <2>5. CASE Type(m) \in Gates
      <3>1. \A o \in Operands(m) : Propagated(o, vals) = Eval(o, vals)
        BY <2>2, <2>5, ChildrenOf
      <3>2. Propagated(m, vals) \in {"TRUE", "FALSE", Undefined} /\ Eval(m, vals) \in {"TRUE", "FALSE", Undefined}
        BY PropagatedCases, EvalCases DEF Values
      <3>3. CASE Type(m) = "AND"
        <4>1. Propagated(m, vals) = "FALSE" <=> Eval(m, vals) = "FALSE"
          BY <3>1, <3>3, PropagatedCases, EvalCases
        <4>2. Propagated(m, vals) = "TRUE" <=> Eval(m, vals) = "TRUE"
          BY <3>1, <3>3, PropagatedCases, EvalCases
        <4> QED
          BY <3>2, <4>1, <4>2
      <3>4. CASE Type(m) = "OR"
        <4>1. Propagated(m, vals) = "FALSE" <=> Eval(m, vals) = "FALSE"
          BY <3>1, <3>4, PropagatedCases, EvalCases
        <4>2. Propagated(m, vals) = "TRUE" <=> Eval(m, vals) = "TRUE"
          BY <3>1, <3>4, PropagatedCases, EvalCases
        <4> QED
          BY <3>2, <4>1, <4>2
      <3> QED
        BY <2>5, <3>3, <3>4 DEF Gates
    <2> QED
      BY <2>1, <2>3, <2>4, <2>5, Shape DEF Gates
  <1>2. \A m \in Node : m \in S
    <2>1. \A m \in Node : (\A o \in Children(m) : o \in S) => m \in S
      BY <1>1
    <2> HIDE DEF S
    <2> QED
      BY <2>1, NodeInduction
  <1> QED
    BY <1>2

(* EvalUp is right where it has a value, and misses none but for constants *)
(* below.                                                                  *)
THEOREM EvalUpRight ==
  ASSUME IsNodeSet, NEW vals, NEW n \in Node
  PROVE  /\ EvalUp(n, vals) \in {Undefined, Eval(n, vals)} /\ EvalUp(n, vals) \in Values
         /\ (\A s \in SubNodes(n) : ~ IsConst(s)) => EvalUp(n, vals) = Eval(n, vals)
  <1>1. CASE IsConst(n)
    <2>1. EvalUp(n, vals) = Eval(n, vals)
      BY <1>1, EvalCases, ConstNodes DEF EvalUp, IsConst, ValueOf
    <2> QED
      BY <2>1, EvalCases
  <1>2. CASE ~ IsConst(n)
    <2>1. EvalUp(n, vals) = Propagated(n, vals)
      BY <1>2 DEF EvalUp
    <2> QED
      BY <2>1, PropagatedAgrees, PropagatedComplete, PropagatedCases
  <1> QED
    BY <1>1, <1>2

(* FindCut, operand by operand.                                            *)
LEMMA FindCutEqs ==
  ASSUME IsNodeSet, NEW vals, NEW n \in Node
  PROVE  /\ FindCut(n, vals) \in SUBSET Node
         /\ FindCut(n, vals) =
                IF IsConst(n) THEN {n} \ {FalseNode}
                ELSE IF EvalUp(n, vals) # Undefined
                THEN {IF EvalUp(n, vals) = "TRUE" THEN n ELSE MakeNot(n)}
                ELSE UNION {FindCut(o, vals) : o \in Children(n)}
  <1> DEFINE step(h) ==
        [m \in Node |-> IF IsConst(m) THEN {m} \ {FalseNode}
            ELSE IF EvalUp(m, vals) # Undefined
            THEN {IF EvalUp(m, vals) = "TRUE" THEN m ELSE MakeNot(m)}
            ELSE UNION {h[o] : o \in Children(m)}]
             F == [h \in [Node -> SUBSET Node] |-> step(h)]
             val == CHOOSE h : h = step(h)
  <1>1. ASSUME NEW h \in [Node -> SUBSET Node], NEW m \in Node
        PROVE  step(h)[m] \in SUBSET Node
    <2>1. MakeNot(m) \in Node
      BY MakeNotRight
    <2>2. UNION {h[o] : o \in Children(m)} \in SUBSET Node
      BY ChildrenOf
    <2> QED
      BY <2>1, <2>2
  <1>2. F \in [[Node -> SUBSET Node] -> [Node -> SUBSET Node]]
    BY <1>1
  <1>3. ASSUME NEW f \in [Node -> SUBSET Node], NEW g \in [Node -> SUBSET Node], NEW m \in Node,
               \A o \in Children(m) : f[o] = g[o]
        PROVE  step(f)[m] = step(g)[m]
    <2>1. UNION {f[o] : o \in Children(m)} = UNION {g[o] : o \in Children(m)}
      BY <1>3
    <2> QED
      BY <2>1
  <1>4. \E h \in [Node -> SUBSET Node] : h = F[h]
    <2>1. \A f \in [Node -> SUBSET Node] : F[f] = step(f)
      OBVIOUS
    <2> HIDE DEF F, step
    <2>2. \A f, g \in [Node -> SUBSET Node], m \in Node :
            (\A o \in Children(m) : f[o] = g[o]) => F[f][m] = F[g][m]
      BY <1>3, <2>1
    <2> QED
      BY <1>2, <2>2, NodeFixpoint
  <1>5. PICK h \in [Node -> SUBSET Node] : h = step(h)
    BY <1>4
  <1>6. val = step(val)
    BY <1>5
  <1>7. \A m : FindCut(m, vals) = val[m]
    BY DEF FindCut
  <1> HIDE DEF val
  <1>8. \A m \in Node : val[m] =
            IF IsConst(m) THEN {m} \ {FalseNode}
            ELSE IF EvalUp(m, vals) # Undefined
            THEN {IF EvalUp(m, vals) = "TRUE" THEN m ELSE MakeNot(m)}
            ELSE UNION {val[o] : o \in Children(m)}
    BY <1>6
  <1>9. \A m \in Node : val[m] \in SUBSET Node
    <2> DEFINE S == {m \in Node : val[m] \in SUBSET Node}
    <2>1. ASSUME NEW m \in Node, \A o \in Children(m) : o \in S PROVE m \in S
      <3>1. MakeNot(m) \in Node
        BY MakeNotRight
      <3>2. UNION {val[o] : o \in Children(m)} \in SUBSET Node
        BY <2>1
      <3> QED
        BY <1>8, <3>1, <3>2
    <2> HIDE DEF S
    <2>2. \A m \in Node : m \in S
      BY <2>1, NodeInduction
    <2> QED
      BY <2>2 DEF S
  <1>10. UNION {val[o] : o \in Children(n)} = UNION {FindCut(o, vals) : o \in Children(n)}
    BY <1>7
  <1>11. FindCut(n, vals) = val[n] /\ val[n] \in SUBSET Node
    BY <1>7, <1>9
  <1>12. val[n] =
            IF IsConst(n) THEN {n} \ {FalseNode}
            ELSE IF EvalUp(n, vals) # Undefined
            THEN {IF EvalUp(n, vals) = "TRUE" THEN n ELSE MakeNot(n)}
            ELSE UNION {val[o] : o \in Children(n)}
    BY <1>8
  <1> QED
    BY <1>10, <1>11, <1>12

(* The cut is known to be true and speaks of the node's variables only.    *)
THEOREM FindCutKnown ==
  ASSUME IsNodeSet, NEW vals, Consistent(vals), NEW n \in Node
  PROVE  /\ IsFiniteSet(FindCut(n, vals))
         /\ \A c \in FindCut(n, vals) :
                c \in Node /\ VarsOf(c) \subseteq VarsOf(n) /\ Eval(c, vals) = "TRUE"
  <1> DEFINE Right(m) == /\ IsFiniteSet(FindCut(m, vals))
                         /\ \A c \in FindCut(m, vals) :
                                VarsOf(c) \subseteq VarsOf(m) /\ Eval(c, vals) = "TRUE"
             S == {k \in Node : Right(k)}
  <1>1. ASSUME NEW m \in Node, \A o \in Children(m) : Right(o) PROVE Right(m)
    <2>1. CASE IsConst(m)
      <3>1. FindCut(m, vals) = {m} \ {FalseNode}
        BY <2>1, FindCutEqs
      <3>2. IsFiniteSet({m})
        BY FS_Singleton
      <3>3. IsFiniteSet(FindCut(m, vals))
        BY <3>1, <3>2, FS_Subset
      <3> QED
        BY <2>1, <3>1, <3>3, EvalCases DEF IsConst
    <2>2. CASE ~ IsConst(m) /\ EvalUp(m, vals) # Undefined
      <3> DEFINE c == IF EvalUp(m, vals) = "TRUE" THEN m ELSE MakeNot(m)
      <3>1. FindCut(m, vals) = {c}
        BY <2>2, FindCutEqs
      <3>2. EvalUp(m, vals) = Eval(m, vals) /\ Eval(m, vals) \in {"TRUE", "FALSE"}
        BY <2>2, EvalUpRight DEF Values
      <3>3. VarsOf(c) \subseteq VarsOf(m) /\ Eval(c, vals) = "TRUE"
        BY <3>2, MakeNotRight, EvalNot, ValueFacts
      <3> HIDE DEF c
      <3> QED
        BY <3>1, <3>3, FS_Singleton
    <2>3. CASE ~ IsConst(m) /\ EvalUp(m, vals) = Undefined
      <3>1. FindCut(m, vals) = UNION {FindCut(o, vals) : o \in Children(m)}
        BY <2>3, FindCutEqs
      <3>2. \A o \in Children(m) : VarsOf(o) \subseteq VarsOf(m)
        BY ChildrenOf, VarsOfCases, Shape DEF Gates
      <3>3. IsFiniteSet(FindCut(m, vals))
        <4> DEFINE g == [o \in Children(m) |-> FindCut(o, vals)]
        <4>1. IsFiniteSet({g[o] : o \in Children(m)})
          <5>1. IsFiniteSet(Children(m))
            BY ChildrenOf
          <5> HIDE DEF g
          <5> QED
            BY <5>1, FiniteImage
        <4>2. {g[o] : o \in Children(m)} = {FindCut(o, vals) : o \in Children(m)}
          OBVIOUS
        <4>3. \A T \in {FindCut(o, vals) : o \in Children(m)} : IsFiniteSet(T)
          BY <1>1
        <4> QED
          BY <3>1, <4>1, <4>2, <4>3, FS_UNION
      <3>4. \A c \in FindCut(m, vals) : \E o \in Children(m) :
                VarsOf(c) \subseteq VarsOf(o) /\ Eval(c, vals) = "TRUE"
        BY <1>1, <3>1
      <3> QED
        BY <3>2, <3>3, <3>4
    <2> QED
      BY <2>1, <2>2, <2>3
  <1>2. \A m \in Node : m \in S
    <2>1. \A m \in Node : (\A o \in Children(m) : o \in S) => m \in S
      BY <1>1
    <2> HIDE DEF S
    <2> QED
      BY <2>1, NodeInduction
  <1> QED
    BY <1>2, FindCutEqs

(* Once the cut is true the moves are not needed: the node has the value   *)
(* it has under them.                                                      *)
THEOREM FindCutRight ==
  ASSUME IsNodeSet, NEW vals, Consistent(vals), NEW n \in Node,
         NEW e, Defined(e, n), NEW d, Moved(d, e, vals, VarsOf(n)),
         \A c \in FindCut(n, vals) : Holds(c, e)
  PROVE  Holds(n, e) <=> Holds(n, d)
  <1> DEFINE Right(m) == /\ Defined(e, m)
                         /\ Moved(d, e, vals, VarsOf(m))
                         /\ \A c \in FindCut(m, vals) : Holds(c, e)
                         => (Holds(m, e) <=> Holds(m, d))
             S == {k \in Node : Right(k)}
  <1>1. ASSUME NEW m \in Node, \A o \in Children(m) : Right(o),
               Defined(e, m), Moved(d, e, vals, VarsOf(m)), \A c \in FindCut(m, vals) : Holds(c, e)
        PROVE  Holds(m, e) <=> Holds(m, d)
    <2>1. CASE IsConst(m)
      BY <2>1, HoldsEqs
    <2>2. CASE ~ IsConst(m) /\ EvalUp(m, vals) # Undefined
      <3>1. FindCut(m, vals) = {IF EvalUp(m, vals) = "TRUE" THEN m ELSE MakeNot(m)}
        BY <2>2, FindCutEqs
      <3>2. EvalUp(m, vals) = Eval(m, vals) /\ Eval(m, vals) \in {"TRUE", "FALSE"}
        BY <2>2, EvalUpRight DEF Values
      <3>3. Follows(d, vals, VarsOf(m))
        BY <1>1 DEF Follows, Moved
      <3>4. (Eval(m, vals) = "TRUE" => Holds(m, d)) /\ (Eval(m, vals) = "FALSE" => ~ Holds(m, d))
        BY <3>3, EvalRight
      <3>5. CASE Eval(m, vals) = "TRUE"
        BY <1>1, <3>1, <3>2, <3>4, <3>5
      <3>6. CASE Eval(m, vals) = "FALSE"
        BY <1>1, <3>1, <3>2, <3>4, <3>6, MakeNotRight
      <3> QED
        BY <3>2, <3>5, <3>6
    <2>3. CASE ~ IsConst(m) /\ EvalUp(m, vals) = Undefined
      <3>1. FindCut(m, vals) = UNION {FindCut(o, vals) : o \in Children(m)}
        BY <2>3, FindCutEqs
      <3>2. \A o \in Children(m) : VarsOf(o) \subseteq VarsOf(m)
        BY ChildrenOf, VarsOfCases, Shape DEF Gates
      <3>3. \A o \in Children(m) : Holds(o, e) <=> Holds(o, d)
        <4> SUFFICES ASSUME NEW o \in Children(m) PROVE Holds(o, e) <=> Holds(o, d)
          OBVIOUS
        <4>1. Defined(e, o) /\ Moved(d, e, vals, VarsOf(o))
          BY <1>1, <3>2 DEF Defined, Moved
        <4>2. \A c \in FindCut(o, vals) : Holds(c, e)
          BY <1>1, <3>1
        <4> QED
          BY <1>1, <4>1, <4>2
      <3>4. CASE Type(m) = "LITERAL"
        <4>1. Propagated(m, vals) = Undefined
          BY <2>3 DEF EvalUp
        <4>2. ~ Assigns(vals, m)
          BY <3>4, <4>1, PropagatedCases, EvalCases, ValueFacts DEF Assigns
        <4>3. ~ Assigns(vals, Literal(LitVar(m), TRUE)) /\ VarsOf(m) = {LitVar(m)}
          BY <3>4, <4>2, AssignedLiteral, VarsOfCases
        <4>4. d[LitVar(m)] = e[LitVar(m)]
          BY <1>1, <4>3 DEF Moved
        <4> QED
          BY <3>4, <4>4, HoldsEqs
      <3>5. CASE Type(m) = "NEGATION"
        BY <3>3, <3>5, ChildrenOf, HoldsEqs
      <3>6. CASE Type(m) = "AND"
        BY <3>3, <3>6, ChildrenOf, HoldsEqs DEF Gates
      <3>7. CASE Type(m) = "OR"
        BY <3>3, <3>7, ChildrenOf, HoldsEqs DEF Gates
      <3> QED
        BY <2>3, <3>4, <3>5, <3>6, <3>7, Shape
    <2> QED
      BY <2>1, <2>2, <2>3
  <1>2. \A m \in Node : m \in S
    <2>1. \A m \in Node : (\A o \in Children(m) : o \in S) => m \in S
      BY <1>1
    <2> HIDE DEF S
    <2> QED
      BY <2>1, NodeInduction
  <1> QED
    BY <1>2

(* The largest of some numbers that have a bound. *)
LEMMA MaxRight ==
  ASSUME NEW S \in SUBSET Int, S # {}, NEW K \in Int, \A x \in S : x <= K
  PROVE  Max(S) \in S /\ \A x \in S : x <= Max(S)
  <1> DEFINE gaps == {i \in Nat : K - i \in S}
  <1>1. gaps # {}
    <2>1. PICK x \in S : TRUE
      OBVIOUS
    <2>2. x \in Int /\ x <= K
      BY <2>1
    <2>3. K - x \in Nat /\ K - (K - x) = x
      BY <2>2
    <2>4. K - x \in gaps
      BY <2>3
    <2> QED
      BY <2>4
  <1>2. PICK i \in gaps : \A j \in gaps : i <= j
    <2>1. gaps \in SUBSET Nat
      OBVIOUS
    <2> HIDE DEF gaps
    <2> QED
      BY <1>1, <2>1, NatMin
  <1>3. ASSUME NEW x \in S PROVE K - i >= x
    <2>1. x \in Int /\ x <= K /\ i \in Nat
      BY <1>2
    <2>2. K - x \in Nat /\ K - (K - x) = x
      BY <2>1
    <2>3. i <= K - x
      BY <1>2, <2>2
    <2> QED
      BY <2>1, <2>3
  <1>4. \E y \in S : \A x \in S : y >= x
    BY <1>2, <1>3
  <1>5. Max(S) \in S /\ \A x \in S : Max(S) >= x
    BY <1>4 DEF Max
  <1>6. \A x \in S : Max(S) \in Int /\ x \in Int
    BY <1>5
  <1> QED
    BY <1>5, <1>6

(* The candidates for the highest level below a node. *)
LevelsBelow(n, vs, level) == {-1} \cup {MaxQLev(o, vs, level) : o \in Children(n)}

(* MaxQLev, operand by operand.                                            *)
LEMMA MaxQLevEqs ==
  ASSUME IsNodeSet, NEW vs, NEW K \in Nat, NEW level, \A v \in vs : level[v] \in 0 .. K, NEW n \in Node
  PROVE  /\ MaxQLev(n, vs, level) \in -1 .. K
         /\ Type(n) = "LITERAL" =>
                MaxQLev(n, vs, level) = IF LitVar(n) \in vs THEN level[LitVar(n)] ELSE -1
         /\ Type(n) # "LITERAL" =>
                MaxQLev(n, vs, level) = Max(LevelsBelow(n, vs, level))
  <1> DEFINE V == -1 .. K
             step(h) ==
                [m \in Node |-> IF Type(m) = "LITERAL"
                    THEN IF LitVar(m) \in vs THEN level[LitVar(m)] ELSE -1
                    ELSE Max({-1} \cup {h[o] : o \in Children(m)})]
             F == [h \in [Node -> V] |-> step(h)]
             val == CHOOSE h : h = step(h)
  <1>1. ASSUME NEW h, NEW m \in Node, \A o \in Children(m) : h[o] \in V
        PROVE  step(h)[m] \in V
    <2>1. CASE Type(m) = "LITERAL"
      BY <2>1
    <2>2. CASE Type(m) # "LITERAL"
      <3> DEFINE T == {-1} \cup {h[o] : o \in Children(m)}
      <3>1. T \in SUBSET Int /\ T # {} /\ \A x \in T : x \in V /\ x <= K
        BY <1>1
      <3>3. K \in Int
        OBVIOUS
      <3>4. Max(T) \in T
        <4> HIDE DEF T, V
        <4> QED
          BY <3>1, <3>3, MaxRight
      <3> HIDE DEF T
      <3>2. Max(T) \in V
        BY <3>1, <3>4
      <3> QED
        BY <2>2, <3>2 DEF T
    <2> QED
      BY <2>1, <2>2
  <1>2. F \in [[Node -> V] -> [Node -> V]]
    <2>1. ASSUME NEW h \in [Node -> V], NEW m \in Node PROVE step(h)[m] \in V
      <3>1. \A o \in Children(m) : h[o] \in V
        <4> HIDE DEF V
        <4> QED
          BY ChildrenOf
      <3> HIDE DEF step, V
      <3> QED
        BY <1>1, <3>1
    <2>2. \A h : step(h) = [m \in Node |-> step(h)[m]]
      OBVIOUS
    <2>3. F = [h \in [Node -> V] |-> step(h)]
      OBVIOUS
    <2> HIDE DEF step, V, F
    <2>4. \A h \in [Node -> V] : step(h) \in [Node -> V]
      BY <2>1, <2>2
    <2> QED
      BY <2>3, <2>4
  <1>3. ASSUME NEW f, NEW g, NEW m \in Node, \A o \in Children(m) : f[o] = g[o]
        PROVE  step(f)[m] = step(g)[m]
    <2>1. {f[o] : o \in Children(m)} = {g[o] : o \in Children(m)}
      BY <1>3
    <2> QED
      BY <2>1
  <1>4. PICK h \in [Node -> V] : h = step(h)
    <2>1. F = [h \in [Node -> V] |-> step(h)]
      OBVIOUS
    <2>2. V # {}
      OBVIOUS
    <2> HIDE DEF F, step, V
    <2>3. \A f, g \in [Node -> V], m \in Node :
            (\A o \in Children(m) : f[o] = g[o]) => F[f][m] = F[g][m]
      BY <1>3, <2>1
    <2>4. PICK h \in [Node -> V] : h = F[h]
      BY <1>2, <2>2, <2>3, NodeFixpoint
    <2>5. h = step(h)
      BY <2>1, <2>4
    <2> QED
      BY <2>5
  <1>5. val = step(val)
    BY <1>4
  <1>6. \A m : MaxQLev(m, vs, level) = val[m]
    BY DEF MaxQLev
  <1> HIDE DEF val
  <1>7. \A m \in Node :
            /\ Type(m) = "LITERAL" => val[m] = IF LitVar(m) \in vs THEN level[LitVar(m)] ELSE -1
            /\ Type(m) # "LITERAL" => val[m] = Max({-1} \cup {val[o] : o \in Children(m)})
    BY <1>5
  <1>8. \A m \in Node : m \in {k \in Node : val[k] \in V}
    <2>1. ASSUME NEW m \in Node, \A o \in Children(m) : o \in {k \in Node : val[k] \in V}
          PROVE  m \in {k \in Node : val[k] \in V}
      <3>1. \A o \in Children(m) : val[o] \in V
        BY <2>1
      <3> HIDE DEF step, V
      <3>2. step(val)[m] \in V
        BY <1>1, <3>1
      <3> QED
        BY <1>5, <3>2
    <2> HIDE DEF V
    <2> QED
      BY <2>1, NodeInduction
  <1>9. {-1} \cup {val[o] : o \in Children(n)} = LevelsBelow(n, vs, level)
    BY <1>6 DEF LevelsBelow
  <1>10. MaxQLev(n, vs, level) = val[n] /\ val[n] \in -1 .. K
    BY <1>6, <1>8
  <1> HIDE DEF V, step, F
  <1> QED
    BY <1>7, <1>9, <1>10

(* MaxQLev is the highest level of the variables of vs that occur.         *)
THEOREM MaxQLevRight ==
  ASSUME IsNodeSet, NEW vs, NEW K \in Nat, NEW level, \A v \in vs : level[v] \in 0 .. K, NEW n \in Node
  PROVE  /\ MaxQLev(n, vs, level) \in -1 .. K
         /\ \A v \in vs \cap VarsOf(n) : level[v] <= MaxQLev(n, vs, level)
         /\ MaxQLev(n, vs, level) # -1 =>
                \E v \in vs \cap VarsOf(n) : level[v] = MaxQLev(n, vs, level)
  <1> DEFINE top(m) == MaxQLev(m, vs, level)
             Right(m) == /\ \A v \in vs \cap VarsOf(m) : level[v] <= top(m)
                         /\ top(m) # -1 => \E v \in vs \cap VarsOf(m) : level[v] = top(m)
             S == {k \in Node : Right(k)}
  <1>1. ASSUME NEW m \in Node, \A o \in Children(m) : Right(o) PROVE Right(m)
    <2>1. CASE Type(m) = "LITERAL"
      <3>1. VarsOf(m) = {LitVar(m)}
        BY <2>1, VarsOfCases
      <3>2. top(m) = IF LitVar(m) \in vs THEN level[LitVar(m)] ELSE -1
        BY <2>1, MaxQLevEqs
      <3> HIDE DEF top
      <3> QED
        BY <3>1, <3>2
    <2>2. CASE Type(m) # "LITERAL"
      <3> DEFINE T == {-1} \cup {top(o) : o \in Children(m)}
      <3>1. top(m) = Max(T)
        <4>1. LevelsBelow(m, vs, level) = T
          BY DEF LevelsBelow
        <4>2. MaxQLev(m, vs, level) = Max(LevelsBelow(m, vs, level))
          BY <2>2, MaxQLevEqs
        <4> HIDE DEF T
        <4> QED
          BY <4>1, <4>2
      <3>2. T \in SUBSET Int /\ T # {} /\ \A x \in T : x <= K
        <4>1. \A o \in Children(m) : top(o) \in -1 .. K
          BY ChildrenOf, MaxQLevEqs
        <4> HIDE DEF top
        <4> QED
          BY <4>1
      <3>3. Max(T) \in T /\ \A x \in T : x <= Max(T)
        <4> HIDE DEF T
        <4> QED
          BY <3>2, MaxRight
      <3>4. VarsOf(m) = UNION {VarsOf(o) : o \in Children(m)}
        BY <2>2, VarsOfEqs
      <3>5. \A o \in Children(m) : top(o) <= top(m) /\ top(o) \in -1 .. K /\ top(m) \in -1 .. K
        BY <3>1, <3>3, ChildrenOf, MaxQLevEqs
      <3> HIDE DEF top
      <3>6. ASSUME NEW v \in vs \cap VarsOf(m) PROVE level[v] <= top(m)
        <4>1. PICK o \in Children(m) : v \in VarsOf(o)
          BY <3>4
        <4>2. level[v] <= top(o) /\ level[v] \in 0 .. K
          BY <1>1, <4>1
        <4> QED
          BY <3>5, <4>2
      <3>7. ASSUME top(m) # -1 PROVE \E v \in vs \cap VarsOf(m) : level[v] = top(m)
        <4>1. PICK o \in Children(m) : top(o) = top(m)
          BY <3>1, <3>3, <3>7
        <4>2. PICK v \in vs \cap VarsOf(o) : level[v] = top(o)
          BY <1>1, <3>7, <4>1
        <4> QED
          BY <3>4, <4>1, <4>2
      <3> QED
        BY <3>6, <3>7
    <2> QED
      BY <2>1, <2>2
  <1>2. \A m \in Node : m \in S
    <2>1. \A m \in Node : (\A o \in Children(m) : o \in S) => m \in S
      BY <1>1
    <2> HIDE DEF S
    <2> QED
      BY <2>1, NodeInduction
  <1> QED
    BY <1>2, MaxQLevEqs

(* A gate of the given type made of what is possible for the operands.     *)
PossibleGate(n, type, f) ==
    LET visited == {<<o, f[o]>> : o \in Operands(n)}
    IN  IF Absorb(type) \in Results(visited) THEN Absorb(type)
        ELSE IF Type(n) = type /\ ~ Changed(visited, type) THEN n
        ELSE Make(type, SplicedAll(Results(visited), type))

(* Only what is possible for the operands counts.                          *)
LEMMA PossibleGateAlike ==
  ASSUME NEW n, NEW type, NEW f, NEW g, \A o \in Operands(n) : f[o] = g[o]
  PROVE  PossibleGate(n, type, f) = PossibleGate(n, type, g)
  <1>1. {<<o, f[o]>> : o \in Operands(n)} = {<<o, g[o]>> : o \in Operands(n)}
    OBVIOUS
  <1> QED
    BY <1>1 DEF PossibleGate

(* Such a gate is one of the type over what is possible for the operands.  *)
LEMMA PossibleGateRight ==
  ASSUME IsNodeSet, NEW n \in Node, Type(n) \in Gates, NEW type \in Gates,
         NEW f, \A o \in Operands(n) : f[o] \in Node
  PROVE  /\ PossibleGate(n, type, f) \in Node
         /\ VarsOf(PossibleGate(n, type, f)) \subseteq UNION {VarsOf(f[o]) : o \in Operands(n)}
         /\ \A e : (\A o \in Operands(n) : Defined(e, f[o])) =>
                (Holds(PossibleGate(n, type, f), e) <=>
                    IF type = "AND" THEN \A o \in Operands(n) : Holds(f[o], e)
                                    ELSE \E o \in Operands(n) : Holds(f[o], e))
  <1> DEFINE r == PossibleGate(n, type, f)
             visited == {<<o, f[o]>> : o \in Operands(n)}
             R == {f[o] : o \in Operands(n)}
  <1>1. /\ Results(visited) = R
        /\ Changed(visited, type) <=> \E o \in Operands(n) : f[o] # o \/ Melts(f[o], type)
    BY VisitedBy
  <1>2. R \in SUBSET Node /\ IsFiniteSet(R)
    BY Shape, FiniteImage
  <1>3. \A e : Means(type, R, e) <=> IF type = "AND" THEN \A o \in Operands(n) : Holds(f[o], e)
                                    ELSE \E o \in Operands(n) : Holds(f[o], e)
    BY DEF Means
  <1>4. r = IF Absorb(type) \in R THEN Absorb(type)
            ELSE IF Type(n) = type /\ ~ Changed(visited, type) THEN n ELSE Make(type, SplicedAll(R, type))
    BY <1>1 DEF PossibleGate
  <1>5. CASE Absorb(type) \in R
    <2>1. r = Absorb(type)
      BY <1>4, <1>5
    <2>2. r \in Node /\ VarsOf(r) = {} /\ \A e : Holds(r, e) <=> Means(type, R, e)
      BY <1>5, <2>1, NeutralAbsorb
    <2> QED
      BY <1>3, <2>2
  <1>6. CASE Absorb(type) \notin R /\ Type(n) = type /\ ~ Changed(visited, type)
    <2>1. r = n
      BY <1>4, <1>6
    <2>2. \A o \in Operands(n) : f[o] = o
      BY <1>1, <1>6
    <2>3. VarsOf(n) = UNION {VarsOf(f[o]) : o \in Operands(n)}
      BY <2>2, VarsOfCases
    <2>4. R = Operands(n)
      BY <2>2
    <2>5. \A e : Holds(n, e) <=> Means(type, R, e)
      BY <1>6, <2>4, GateMeans
    <2> QED
      BY <1>3, <2>1, <2>3, <2>5
  <1>7. CASE Absorb(type) \notin R /\ ~ (Type(n) = type /\ ~ Changed(visited, type))
    <2> DEFINE spliced == SplicedAll(R, type)
    <2>1. r = Make(type, spliced)
      BY <1>4, <1>7
    <2>2. /\ spliced \in SUBSET Node /\ IsFiniteSet(spliced)
          /\ \A o \in spliced : \E x \in R : VarsOf(o) \subseteq VarsOf(x)
          /\ \A e : Means(type, spliced, e) <=> Means(type, R, e)
      <3> HIDE DEF R
      <3> QED
        BY <1>2, SplicedAllRight
    <2> HIDE DEF spliced
    <2>3. /\ r \in Node
          /\ VarsOf(r) \subseteq UNION {VarsOf(o) : o \in spliced}
          /\ \A e : (\A o \in spliced : Defined(e, o)) => (Holds(r, e) <=> Means(type, spliced, e))
      BY <2>1, <2>2, MakeRight
    <2>4. ASSUME NEW e, \A o \in Operands(n) : Defined(e, f[o])
          PROVE  \A o \in spliced : Defined(e, o)
      BY <2>2, <2>4 DEF Defined
    <2>5. VarsOf(r) \subseteq UNION {VarsOf(f[o]) : o \in Operands(n)}
      BY <2>2, <2>3
    <2> HIDE DEF r
    <2> QED
      BY <1>3, <2>2, <2>3, <2>4, <2>5 DEF r
  <1> QED
    BY <1>5, <1>6, <1>7

(* ConstNode where its argument says whether two truth values agree.       *)
LEMMA ConstNodeAgrees ==
  ASSUME NEW A \in BOOLEAN, NEW w \in BOOLEAN
  PROVE  ConstNode(A = w) = IF (A <=> w) THEN TrueNode ELSE FalseNode
  <1> DEFINE B == A = w
  <1>1. B <=> (A <=> w)
    OBVIOUS
  <1> HIDE DEF B
  <1>2. ConstNode(B) = IF (A <=> w) THEN TrueNode ELSE FalseNode
    BY <1>1 DEF ConstNode
  <1> QED
    BY <1>2 DEF B

(* What the nodes become for the value w. *)
For(h, w) == [o \in Node |-> h[o][w]]
(* A gate that is to be false is the dual one of operands that are to be   *)
(* false.                                                                  *)
GateFor(type, w) == IF w THEN type ELSE Dual(type)

(* The two circuits it makes of a node. *)
MayHold(n, dom, opp) == MakePossible(n, TRUE, dom, opp)
MayFail(n, dom, opp) == MakePossible(n, FALSE, dom, opp)

(* What they are, t for the value TRUE and f for the value FALSE.          *)
PossibleFrom(n, dom, opp, t, f) ==
    /\ n = TrueNode => t[n] = TrueNode /\ f[n] = FalseNode
    /\ n = FalseNode => t[n] = FalseNode /\ f[n] = TrueNode
    /\ Type(n) = "LITERAL" =>
        /\ LitVar(n) \in dom => t[n] = n /\ f[n] = Complement(n)
        /\ LitVar(n) \notin dom =>
            /\ n \in opp => t[n] = TrueNode /\ f[n] = FalseNode
            /\ n \notin opp /\ Complement(n) \in opp => t[n] = FalseNode /\ f[n] = TrueNode
            /\ n \notin opp /\ Complement(n) \notin opp => t[n] = TrueNode /\ f[n] = TrueNode
    /\ Type(n) = "NEGATION" => t[n] = f[Operand(n)] /\ f[n] = t[Operand(n)]
    /\ Type(n) \in Gates => t[n] = PossibleGate(n, Type(n), t) /\ f[n] = PossibleGate(n, Dual(Type(n)), f)

(* MakePossible, operand by operand. *)
LEMMA MakePossibleEqs ==
  ASSUME IsNodeSet, NEW dom, NEW opp
  PROVE  \E t, f \in [Node -> Node] : \A m \in Node :
            /\ MayHold(m, dom, opp) = t[m] /\ MayFail(m, dom, opp) = f[m]
            /\ PossibleFrom(m, dom, opp, t, f)
  <1> DEFINE
      V == [BOOLEAN -> Node]
      step(h) ==
        [m \in Node |-> [w \in BOOLEAN |->
            CASE IsConst(m) -> ConstNode((m = TrueNode) = w)
              [] Type(m) = "LITERAL" ->
                    IF LitVar(m) \in dom THEN (IF w THEN m ELSE Complement(m))
                    ELSE IF Assigns(opp, m) THEN ConstNode((m \in opp) = w)
                    ELSE TrueNode
              [] Type(m) = "NEGATION" -> h[Operand(m)][~ w]
              [] OTHER ->
                    LET type == IF w THEN Type(m) ELSE Dual(Type(m))
                        visited == {<<o, h[o][w]>> : o \in Operands(m)}
                    IN  IF Absorb(type) \in Results(visited) THEN Absorb(type)
                        ELSE IF Type(m) = type /\ ~ Changed(visited, type) THEN m
                        ELSE Make(type, SplicedAll(Results(visited), type))]]
      F == [h \in [Node -> V] |-> step(h)]
      val == CHOOSE h : h = step(h)
      Step(h, m, w, r) ==
            /\ IsConst(m) => r = IF (m = TrueNode <=> w) THEN TrueNode ELSE FalseNode
            /\ Type(m) = "LITERAL" =>
                      r = IF LitVar(m) \in dom THEN (IF w THEN m ELSE Complement(m))
                                ELSE IF m \in opp \/ Complement(m) \in opp
                                     THEN (IF (m \in opp <=> w) THEN TrueNode ELSE FalseNode)
                                     ELSE TrueNode
            /\ Type(m) = "NEGATION" => r = h[Operand(m)][~ w]
            /\ Type(m) \in Gates => r = PossibleGate(m, GateFor(Type(m), w), For(h, w))
  <1>1. ASSUME NEW h, NEW m \in Node, NEW w \in BOOLEAN PROVE Step(h, m, w, step(h)[m][w])
    <2>1. CASE Type(m) \in Gates
      <3> DEFINE type == IF w THEN Type(m) ELSE Dual(Type(m))
                 visited == {<<o, h[o][w]>> : o \in Operands(m)}
      <3>1. step(h)[m][w] = IF Absorb(type) \in Results(visited) THEN Absorb(type)
                            ELSE IF Type(m) = type /\ ~ Changed(visited, type) THEN m
                            ELSE Make(type, SplicedAll(Results(visited), type))
        BY <2>1, Shape DEF Gates
      <3>2. visited = {<<o, For(h, w)[o]>> : o \in Operands(m)}
        <4>1. \A o \in Operands(m) : For(h, w)[o] = h[o][w]
          BY <2>1, Shape DEF For
        <4> QED
          BY <4>1
      <3>3. type = GateFor(Type(m), w)
        BY DEF GateFor
      <3>4. step(h)[m][w] = PossibleGate(m, GateFor(Type(m), w), For(h, w))
        <4> HIDE DEF step, type, visited
        <4> QED
          BY <3>1, <3>2, <3>3 DEF PossibleGate
      <3> HIDE DEF step
      <3> QED
        BY <2>1, <3>4, Shape DEF Gates
    <2>2. CASE Type(m) = "LITERAL"
      <3>1. step(h)[m][w] = IF LitVar(m) \in dom THEN (IF w THEN m ELSE Complement(m))
                            ELSE IF Assigns(opp, m) THEN ConstNode((m \in opp) = w) ELSE TrueNode
        BY <2>2, Shape DEF Gates
      <3> HIDE DEF step
      <3>2. ConstNode((m \in opp) = w) = IF (m \in opp <=> w) THEN TrueNode ELSE FalseNode
        <4> DEFINE A == m \in opp
        <4>1. A \in BOOLEAN
          OBVIOUS
        <4> HIDE DEF A
        <4>2. ConstNode(A = w) = IF (A <=> w) THEN TrueNode ELSE FalseNode
          BY <4>1, ConstNodeAgrees
        <4> QED
          BY <4>2 DEF A
      <3>3. step(h)[m][w] = IF LitVar(m) \in dom THEN (IF w THEN m ELSE Complement(m))
                            ELSE IF m \in opp \/ Complement(m) \in opp
                                 THEN (IF (m \in opp <=> w) THEN TrueNode ELSE FalseNode)
                                 ELSE TrueNode
        <4> DEFINE c == ConstNode((m \in opp) = w)
        <4>1. step(h)[m][w] = IF LitVar(m) \in dom THEN (IF w THEN m ELSE Complement(m))
                            ELSE IF Assigns(opp, m) THEN c ELSE TrueNode
          BY <3>1
        <4>2. c = IF (m \in opp <=> w) THEN TrueNode ELSE FalseNode
          BY <3>2
        <4> HIDE DEF c
        <4> QED
          BY <4>1, <4>2 DEF Assigns
      <3> QED
        BY <2>2, <3>3, Shape DEF Gates
    <2>3. CASE Type(m) = "NEGATION"
      BY <2>3, Shape DEF Gates
    <2>4. CASE IsConst(m)
      <3>1. step(h)[m][w] = ConstNode((m = TrueNode) = w)
        BY <2>4, Shape DEF Gates
      <3> HIDE DEF step
      <3>2. ConstNode((m = TrueNode) = w) = IF (m = TrueNode <=> w) THEN TrueNode ELSE FalseNode
        <4> DEFINE A == m = TrueNode
        <4>1. A \in BOOLEAN
          OBVIOUS
        <4> HIDE DEF A
        <4>2. ConstNode(A = w) = IF (A <=> w) THEN TrueNode ELSE FalseNode
          BY <4>1, ConstNodeAgrees
        <4> QED
          BY <4>2 DEF A
      <3>3. step(h)[m][w] = IF (m = TrueNode <=> w) THEN TrueNode ELSE FalseNode
        <4> DEFINE c == ConstNode((m = TrueNode) = w)
        <4>1. step(h)[m][w] = c /\ c = IF (m = TrueNode <=> w) THEN TrueNode ELSE FalseNode
          BY <3>1, <3>2
        <4> HIDE DEF c
        <4> QED
          BY <4>1
      <3> QED
        BY <2>4, <3>3, Shape DEF Gates
    <2> QED
      BY <2>1, <2>2, <2>3, <2>4, Shape DEF Gates
  <1>2. \A h : step(h) = [m \in Node |-> [w \in BOOLEAN |-> step(h)[m][w]]]
    OBVIOUS
  <1>3. F = [h \in [Node -> V] |-> step(h)]
    OBVIOUS
  <1>4. \A m, w : MakePossible(m, w, dom, opp) = val[m][w]
    BY DEF MakePossible
  <1>5. ASSUME NEW h, h = step(h) PROVE val = step(val)
    BY <1>5
  <1> HIDE DEF step, F, val
  <1>6. ASSUME NEW h \in [Node -> V], NEW m \in Node, NEW w \in BOOLEAN PROVE step(h)[m][w] \in Node
    <2> DEFINE r == step(h)[m][w]
    <2>1. Step(h, m, w, r)
      BY <1>1
    <2>2. CASE Type(m) \in Gates
      <3>1. \A o \in Operands(m) : For(h, w)[o] \in Node
        BY <2>2, Shape DEF For
      <3>2. GateFor(Type(m), w) \in Gates
        BY <2>2 DEF GateFor, Dual, Gates
      <3> HIDE DEF r
      <3>3. r \in Node
        BY <2>1, <2>2, <3>1, <3>2, PossibleGateRight
      <3> QED
        BY <3>3 DEF r
    <2>3. CASE Type(m) = "NEGATION"
      <3>1. Operand(m) \in Node /\ (~ w) \in BOOLEAN
        BY <2>3, Shape
      <3>2. h[Operand(m)][~ w] \in Node
        BY <3>1
      <3> HIDE DEF r
      <3>3. r \in Node
        BY <2>1, <2>3, <3>2
      <3> QED
        BY <3>3 DEF r
    <2>4. CASE IsConst(m) \/ Type(m) = "LITERAL"
      <3> HIDE DEF r
      <3>1. r \in Node
        BY <2>1, <2>4, ConstNodes, ComplementRight
      <3> QED
        BY <3>1 DEF r
    <2> QED
      BY <2>2, <2>3, <2>4, Shape DEF Gates
  <1>7. F \in [[Node -> V] -> [Node -> V]]
    <2>1. ASSUME NEW h \in [Node -> V] PROVE step(h) \in [Node -> V]
      <3>1. step(h) = [m \in Node |-> [w \in BOOLEAN |-> step(h)[m][w]]]
        BY <1>2
      <3>2. \A m \in Node : [w \in BOOLEAN |-> step(h)[m][w]] \in V
        BY <1>6
      <3> HIDE DEF V
      <3> QED
        BY <3>1, <3>2
    <2> HIDE DEF V
    <2> QED
      BY <1>3, <2>1
  <1>8. ASSUME NEW f, NEW g, NEW m \in Node, \A o \in Children(m) : f[o] = g[o]
        PROVE  step(f)[m] = step(g)[m]
    <2>1. ASSUME NEW w \in BOOLEAN PROVE step(f)[m][w] = step(g)[m][w]
      <3>1. CASE IsConst(m) \/ Type(m) = "LITERAL"
        BY <1>1, <3>1
      <3>2. CASE Type(m) = "NEGATION"
        <4>1. f[Operand(m)] = g[Operand(m)]
          BY <1>8, <3>2, ChildrenOf
        <4>2. step(f)[m][w] = f[Operand(m)][~ w] /\ step(g)[m][w] = g[Operand(m)][~ w]
          BY <1>1, <3>2
        <4> QED
          BY <4>1, <4>2
      <3>3. CASE Type(m) \in Gates
        <4>1. \A o \in Operands(m) : For(f, w)[o] = For(g, w)[o]
          BY <1>8, <3>3, ChildrenOf, Shape DEF For
        <4>2. PossibleGate(m, GateFor(Type(m), w), For(f, w)) = PossibleGate(m, GateFor(Type(m), w), For(g, w))
          BY <4>1, PossibleGateAlike
        <4>3. /\ step(f)[m][w] = PossibleGate(m, GateFor(Type(m), w), For(f, w))
              /\ step(g)[m][w] = PossibleGate(m, GateFor(Type(m), w), For(g, w))
          BY <1>1, <3>3
        <4> QED
          BY <4>2, <4>3
      <3> QED
        BY <3>1, <3>2, <3>3, Shape DEF Gates
    <2>2. step(f)[m] = [w \in BOOLEAN |-> step(f)[m][w]] /\ step(g)[m] = [w \in BOOLEAN |-> step(g)[m][w]]
      BY <1>2
    <2> QED
      BY <2>1, <2>2
  <1>9. PICK h \in [Node -> V] : h = step(h)
    <2>1. \A f, g \in [Node -> V], m \in Node :
            (\A o \in Children(m) : f[o] = g[o]) => F[f][m] = F[g][m]
      <3> HIDE DEF V
      <3> QED
        BY <1>3, <1>8
    <2>2. V # {}
      <3>1. [w \in BOOLEAN |-> TrueNode] \in V
        BY ConstNodes
      <3> QED
        BY <3>1
    <2> HIDE DEF V
    <2>3. PICK h \in [Node -> V] : h = F[h]
      BY <1>7, <2>1, <2>2, NodeFixpoint
    <2>4. h = step(h)
      BY <1>3, <2>3
    <2> QED
      BY <2>4
  <1>10. val = step(val)
    BY <1>5, <1>9
  <1>11. \A m \in Node : m \in {k \in Node : h[k] = val[k]}
    <2>1. ASSUME NEW m \in Node, \A o \in Children(m) : o \in {k \in Node : h[k] = val[k]}
          PROVE  h[m] = val[m]
      <3>1. step(h)[m] = step(val)[m]
        BY <1>8, <2>1
      <3> QED
        BY <1>9, <1>10, <3>1
    <2> QED
      BY <2>1, NodeInduction
  <1>12. \A m \in Node, w \in BOOLEAN : Step(h, m, w, h[m][w])
    BY <1>1, <1>9
  <1> DEFINE t == For(h, TRUE)
             f == For(h, FALSE)
  <1>13. t \in [Node -> Node] /\ f \in [Node -> Node]
    <2>1. \A m \in Node : h[m][TRUE] \in Node /\ h[m][FALSE] \in Node
      BY <1>9
    <2> QED
      BY <2>1 DEF For
  <1>14. ASSUME NEW m \in Node PROVE t[m] = h[m][TRUE] /\ f[m] = h[m][FALSE]
    BY DEF For
  <1>15. ASSUME NEW m \in Node PROVE MayHold(m, dom, opp) = t[m] /\ MayFail(m, dom, opp) = f[m]
    <2>1. MayHold(m, dom, opp) = val[m][TRUE]
      BY <1>4 DEF MayHold
    <2>2. MayFail(m, dom, opp) = val[m][FALSE]
      BY <1>4 DEF MayFail
    <2>3. val[m] = h[m]
      BY <1>11
    <2> HIDE DEF t, f
    <2> QED
      BY <1>14, <2>1, <2>2, <2>3
  <1>16. ASSUME NEW m \in Node PROVE PossibleFrom(m, dom, opp, t, f)
    <2> DEFINE a == h[m][TRUE]
               b == h[m][FALSE]
               c == h[Operand(m)][TRUE]
               d == h[Operand(m)][FALSE]
    <2>0. Step(h, m, TRUE, a)
      BY <1>12
    <2>1. Step(h, m, FALSE, b)
      BY <1>12
    <2>2. Type(m) = "NEGATION" => c = t[Operand(m)] /\ d = f[Operand(m)]
      BY <1>14, Shape
    <2> HIDE DEF t, f, a, b, c, d
    <2>3. IsConst(m) => /\ m = TrueNode => a = TrueNode /\ b = FalseNode
                        /\ m # TrueNode => a = FalseNode /\ b = TrueNode
      BY <2>0, <2>1 DEF Step
    <2>4. Type(m) = "LITERAL" =>
            /\ LitVar(m) \in dom => a = m /\ b = Complement(m)
            /\ LitVar(m) \notin dom =>
                /\ m \in opp => a = TrueNode /\ b = FalseNode
                /\ m \notin opp /\ Complement(m) \in opp => a = FalseNode /\ b = TrueNode
                /\ m \notin opp /\ Complement(m) \notin opp => a = TrueNode /\ b = TrueNode
      BY <2>0, <2>1 DEF Step
    <2>5. Type(m) = "NEGATION" => a = d /\ b = c
      BY <2>0, <2>1 DEF Step, c, d
    <2>6. Type(m) \in Gates => a = PossibleGate(m, Type(m), t) /\ b = PossibleGate(m, Dual(Type(m)), f)
      BY <2>0, <2>1 DEF Step, GateFor, t, f
    <2>7. a = t[m] /\ b = f[m]
      BY <1>14 DEF a, b
    <2> QED
      BY <2>2, <2>3, <2>4, <2>5, <2>6, <2>7, ConstNodes DEF PossibleFrom
  <1> HIDE DEF t, f
  <1> QED
    BY <1>13, <1>15, <1>16

(* MakePossible, case by case. *)
Possible(dom, opp, t, f) ==
    /\ \A n \in Node : MayHold(n, dom, opp) = t[n] /\ MayFail(n, dom, opp) = f[n]
    /\ \A n \in Node : PossibleFrom(n, dom, opp, t, f)
    /\ \A n \in Node : Type(n) \in Gates =>
            /\ VarsOf(t[n]) \subseteq UNION {VarsOf(t[o]) : o \in Operands(n)}
            /\ VarsOf(f[n]) \subseteq UNION {VarsOf(f[o]) : o \in Operands(n)}
    /\ \A n \in Node : \A e :
            Type(n) \in Gates /\ (\A o \in Operands(n) : Defined(e, t[o]) /\ Defined(e, f[o])) =>
                /\ Type(n) = "AND" =>
                    /\ Holds(t[n], e) <=> \A o \in Operands(n) : Holds(t[o], e)
                    /\ Holds(f[n], e) <=> \E o \in Operands(n) : Holds(f[o], e)
                /\ Type(n) = "OR" =>
                    /\ Holds(t[n], e) <=> \E o \in Operands(n) : Holds(t[o], e)
                    /\ Holds(f[n], e) <=> \A o \in Operands(n) : Holds(f[o], e)

(* There are t and f as above that also mean what the gates say.           *)
LEMMA MakePossibleCases ==
  ASSUME IsNodeSet, NEW dom, NEW opp
  PROVE  \E t, f \in [Node -> Node] : Possible(dom, opp, t, f)
  <1>1. PICK t \in [Node -> Node], f \in [Node -> Node] : \A m \in Node :
            /\ MayHold(m, dom, opp) = t[m] /\ MayFail(m, dom, opp) = f[m]
            /\ PossibleFrom(m, dom, opp, t, f)
    BY MakePossibleEqs
  <1>2. ASSUME NEW n \in Node, Type(n) \in Gates
        PROVE  /\ VarsOf(t[n]) \subseteq UNION {VarsOf(t[o]) : o \in Operands(n)}
               /\ VarsOf(f[n]) \subseteq UNION {VarsOf(f[o]) : o \in Operands(n)}
               /\ \A e : (\A o \in Operands(n) : Defined(e, t[o])) =>
                    /\ Type(n) = "AND" => (Holds(t[n], e) <=> \A o \in Operands(n) : Holds(t[o], e))
                    /\ Type(n) = "OR" => (Holds(t[n], e) <=> \E o \in Operands(n) : Holds(t[o], e))
               /\ \A e : (\A o \in Operands(n) : Defined(e, f[o])) =>
                    /\ Type(n) = "AND" => (Holds(f[n], e) <=> \E o \in Operands(n) : Holds(f[o], e))
                    /\ Type(n) = "OR" => (Holds(f[n], e) <=> \A o \in Operands(n) : Holds(f[o], e))
    <2>1. \A o \in Operands(n) : t[o] \in Node /\ f[o] \in Node
      BY <1>2, Shape
    <2>2. t[n] = PossibleGate(n, Type(n), t) /\ f[n] = PossibleGate(n, Dual(Type(n)), f)
      BY <1>1, <1>2 DEF PossibleFrom
    <2>3. /\ Type(n) \in Gates /\ Dual(Type(n)) \in Gates
          /\ Type(n) = "AND" => Dual(Type(n)) = "OR"
          /\ Type(n) = "OR" => Dual(Type(n)) = "AND"
      BY <1>2 DEF Dual, Gates
    <2>4. /\ VarsOf(t[n]) \subseteq UNION {VarsOf(t[o]) : o \in Operands(n)}
          /\ \A e : (\A o \in Operands(n) : Defined(e, t[o])) =>
                (Holds(t[n], e) <=>
                    IF Type(n) = "AND" THEN \A o \in Operands(n) : Holds(t[o], e)
                                    ELSE \E o \in Operands(n) : Holds(t[o], e))
      BY <2>1, <2>2, <2>3, PossibleGateRight
    <2>5. /\ VarsOf(f[n]) \subseteq UNION {VarsOf(f[o]) : o \in Operands(n)}
          /\ \A e : (\A o \in Operands(n) : Defined(e, f[o])) =>
                (Holds(f[n], e) <=>
                    IF Dual(Type(n)) = "AND" THEN \A o \in Operands(n) : Holds(f[o], e)
                                    ELSE \E o \in Operands(n) : Holds(f[o], e))
      BY <2>1, <2>2, <2>3, PossibleGateRight
    <2>6. ASSUME NEW e, \A o \in Operands(n) : Defined(e, t[o])
          PROVE  /\ Type(n) = "AND" => (Holds(t[n], e) <=> \A o \in Operands(n) : Holds(t[o], e))
                 /\ Type(n) = "OR" => (Holds(t[n], e) <=> \E o \in Operands(n) : Holds(t[o], e))
      BY <2>3, <2>4, <2>6
    <2>7. ASSUME NEW e, \A o \in Operands(n) : Defined(e, f[o])
          PROVE  /\ Type(n) = "AND" => (Holds(f[n], e) <=> \E o \in Operands(n) : Holds(f[o], e))
                 /\ Type(n) = "OR" => (Holds(f[n], e) <=> \A o \in Operands(n) : Holds(f[o], e))
      BY <2>3, <2>5, <2>7
    <2> QED
      BY <2>4, <2>5, <2>6, <2>7
  <1>3. \A n \in Node : Type(n) \in Gates =>
                    /\ VarsOf(t[n]) \subseteq UNION {VarsOf(t[o]) : o \in Operands(n)}
                    /\ VarsOf(f[n]) \subseteq UNION {VarsOf(f[o]) : o \in Operands(n)}
    BY <1>2
  <1>4. ASSUME NEW n \in Node, NEW e, Type(n) \in Gates,
               \A o \in Operands(n) : Defined(e, t[o]) /\ Defined(e, f[o])
        PROVE  /\ Type(n) = "AND" =>
                        /\ Holds(t[n], e) <=> \A o \in Operands(n) : Holds(t[o], e)
                        /\ Holds(f[n], e) <=> \E o \in Operands(n) : Holds(f[o], e)
               /\ Type(n) = "OR" =>
                        /\ Holds(t[n], e) <=> \E o \in Operands(n) : Holds(t[o], e)
                        /\ Holds(f[n], e) <=> \A o \in Operands(n) : Holds(f[o], e)
    BY <1>2, <1>4
  <1>5. \A n \in Node : /\ MayHold(n, dom, opp) = t[n] /\ MayFail(n, dom, opp) = f[n]
                        /\ PossibleFrom(n, dom, opp, t, f)
    BY <1>1
  <1>6. Possible(dom, opp, t, f)
    BY <1>3, <1>4, <1>5 DEF Possible
  <1> QED
    BY <1>6

(* They speak of the variables of dom only, and of none the node does not have. *)
THEOREM MakePossibleKnown ==
  ASSUME IsNodeSet, NEW dom, NEW opp, NEW n \in Node
  PROVE  /\ MayHold(n, dom, opp) \in Node /\ VarsOf(MayHold(n, dom, opp)) \subseteq dom \cap VarsOf(n)
         /\ MayFail(n, dom, opp) \in Node /\ VarsOf(MayFail(n, dom, opp)) \subseteq dom \cap VarsOf(n)
  <1>0. PICK t \in [Node -> Node], f \in [Node -> Node] : Possible(dom, opp, t, f)
    BY MakePossibleCases
  <1>1.     /\ \A m \in Node : MayHold(m, dom, opp) = t[m] /\ MayFail(m, dom, opp) = f[m]
            /\ \A m \in Node : PossibleFrom(m, dom, opp, t, f)
            /\ \A m \in Node : Type(m) \in Gates =>
                    /\ VarsOf(t[m]) \subseteq UNION {VarsOf(t[o]) : o \in Operands(m)}
                    /\ VarsOf(f[m]) \subseteq UNION {VarsOf(f[o]) : o \in Operands(m)}
    BY <1>0 DEF Possible
  <1> DEFINE Right(m) == VarsOf(t[m]) \subseteq dom \cap VarsOf(m) /\ VarsOf(f[m]) \subseteq dom \cap VarsOf(m)
             S == {k \in Node : Right(k)}
  <1>2. ASSUME NEW m \in Node, \A o \in Children(m) : Right(o) PROVE Right(m)
    <2>0. PossibleFrom(m, dom, opp, t, f)
      BY <1>1
    <2>1. CASE IsConst(m)
      BY <2>0, <2>1, ConstNodes DEF PossibleFrom, IsConst
    <2>2. CASE Type(m) = "LITERAL"
      <3>1. VarsOf(m) = {LitVar(m)} /\ VarsOf(Complement(m)) = {LitVar(m)}
        BY <2>2, VarsOfCases, ComplementRight
      <3>2. LitVar(m) \in dom => t[m] \in {m, Complement(m)} /\ f[m] \in {m, Complement(m)}
        BY <2>0, <2>2 DEF PossibleFrom
      <3>3. LitVar(m) \notin dom => t[m] \in {TrueNode, FalseNode} /\ f[m] \in {TrueNode, FalseNode}
        BY <2>0, <2>2 DEF PossibleFrom
      <3> QED
        BY <3>1, <3>2, <3>3, ConstNodes
    <2>3. CASE Type(m) = "NEGATION"
      <3>1. Right(Operand(m)) /\ VarsOf(Operand(m)) = VarsOf(m)
        BY <1>2, <2>3, ChildrenOf, VarsOfCases
      <3>2. t[m] = f[Operand(m)] /\ f[m] = t[Operand(m)]
        BY <2>0, <2>3 DEF PossibleFrom
      <3> QED
        BY <3>1, <3>2
    <2>4. CASE Type(m) \in Gates
      <3>1. \A o \in Operands(m) : Right(o) /\ VarsOf(o) \subseteq VarsOf(m)
        BY <1>2, <2>4, ChildrenOf, VarsOfCases
      <3>2. /\ VarsOf(t[m]) \subseteq UNION {VarsOf(t[o]) : o \in Operands(m)}
            /\ VarsOf(f[m]) \subseteq UNION {VarsOf(f[o]) : o \in Operands(m)}
        BY <1>1, <2>4
      <3> QED
        BY <3>1, <3>2
    <2> QED
      BY <2>1, <2>2, <2>3, <2>4, Shape DEF Gates
  <1> HIDE DEF Right
  <1>3. \A m \in Node : (\A o \in Children(m) : o \in S) => m \in S
    BY <1>2
  <1> HIDE DEF S
  <1>4. \A m \in Node : m \in S
    BY <1>3, NodeInduction
  <1>5. Right(n)
    BY <1>4 DEF S
  <1> QED
    BY <1>1, <1>5 DEF Right

(* Whatever assignment gives the node the value wanted, with the moves of  *)
(* opp as they were, satisfies it.                                         *)
THEOREM MakePossibleRight ==
  ASSUME IsNodeSet, NEW dom, NEW opp, Consistent(opp), NEW n \in Node, NEW e, NEW d,
         \A v \in VarsOf(n) \cap dom : d[v] \in BOOLEAN /\ e[v] = d[v],
         Follows(d, opp, VarsOf(n) \ dom)
  PROVE  /\ Holds(n, d) => Holds(MayHold(n, dom, opp), e)
         /\ ~ Holds(n, d) => Holds(MayFail(n, dom, opp), e)
  <1>0. PICK t \in [Node -> Node], f \in [Node -> Node] : Possible(dom, opp, t, f)
    BY MakePossibleCases
  <1> DEFINE Alike(m) == /\ \A v \in VarsOf(m) \cap dom : d[v] \in BOOLEAN /\ e[v] = d[v]
                         /\ Follows(d, opp, VarsOf(m) \ dom)
             Right(m) == Alike(m) => /\ Holds(m, d) => Holds(t[m], e)
                                     /\ ~ Holds(m, d) => Holds(f[m], e)
             S == {k \in Node : Right(k)}
  <1>1. ASSUME NEW m \in Node, \A o \in Children(m) : Right(o) PROVE Right(m)
    <2> SUFFICES ASSUME Alike(m) PROVE /\ Holds(m, d) => Holds(t[m], e)
                                       /\ ~ Holds(m, d) => Holds(f[m], e)
      OBVIOUS
    <2>0. PossibleFrom(m, dom, opp, t, f)
      BY <1>0 DEF Possible
    <2>1. CASE IsConst(m)
      BY <2>0, <2>1, ConstNodes DEF IsConst, PossibleFrom
    <2>2. CASE Type(m) = "LITERAL"
      <3>1. VarsOf(m) = {LitVar(m)}
        BY <2>2, VarsOfCases
      <3>2. CASE LitVar(m) \in dom
        <4>1. d[LitVar(m)] \in BOOLEAN /\ e[LitVar(m)] = d[LitVar(m)]
          BY <3>1, <3>2
        <4>2. /\ Holds(m, e) <=> Holds(m, d)
              /\ Holds(Complement(m), e) <=> ~ Holds(m, e)
          BY <2>2, <4>1, HoldsEqs, ComplementRight
        <4>3. t[m] = m /\ f[m] = Complement(m)
          BY <2>0, <2>2, <3>2 DEF PossibleFrom
        <4> QED
          BY <4>2, <4>3
      <3>3. CASE LitVar(m) \notin dom
        <4>1. Follows(d, opp, {LitVar(m)})
          BY <3>1, <3>3 DEF Follows
        <4>2. /\ m \in opp => Holds(m, d)
              /\ Complement(m) \in opp => ~ Holds(m, d)
          BY <2>2, <4>1, FollowedLiteral
        <4>3. /\ m \in opp => t[m] = TrueNode /\ f[m] = FalseNode
              /\ m \notin opp /\ Complement(m) \in opp => t[m] = FalseNode /\ f[m] = TrueNode
              /\ m \notin opp /\ Complement(m) \notin opp => t[m] = TrueNode /\ f[m] = TrueNode
          BY <2>0, <2>2, <3>3 DEF PossibleFrom
        <4> QED
          BY <4>2, <4>3, ConstNodes
      <3> QED
        BY <3>2, <3>3
    <2>3. CASE Type(m) = "NEGATION"
      <3>1. Right(Operand(m)) /\ VarsOf(Operand(m)) = VarsOf(m)
        BY <1>1, <2>3, ChildrenOf, VarsOfCases
      <3>2. t[m] = f[Operand(m)] /\ f[m] = t[Operand(m)]
        BY <2>0, <2>3 DEF PossibleFrom
      <3>3. Holds(m, d) <=> ~ Holds(Operand(m), d)
        BY <2>3, HoldsEqs
      <3>4. Alike(Operand(m))
        BY <3>1
      <3> HIDE DEF Alike
      <3> QED
        BY <3>1, <3>2, <3>3, <3>4
    <2>4. CASE Type(m) \in Gates
      <3>1. \A o \in Operands(m) : o \in Node /\ Right(o) /\ VarsOf(o) \subseteq VarsOf(m)
        BY <1>1, <2>4, ChildrenOf, VarsOfCases
      <3>2. \A o \in Operands(m) : Alike(o)
        BY <3>1 DEF Follows
      <3>3. ASSUME NEW o \in Operands(m) PROVE Defined(e, t[o]) /\ Defined(e, f[o])
        <4>1. /\ o \in Node /\ t[o] = MayHold(o, dom, opp) /\ f[o] = MayFail(o, dom, opp)
              /\ \A v \in VarsOf(o) \cap dom : e[v] \in BOOLEAN
          BY <1>0, <3>1, <3>2 DEF Possible
        <4>2. VarsOf(t[o]) \subseteq dom \cap VarsOf(o) /\ VarsOf(f[o]) \subseteq dom \cap VarsOf(o)
          BY <4>1, MakePossibleKnown
        <4> QED
          BY <4>1, <4>2 DEF Defined
      <3> HIDE DEF Alike
      <3>5. \A o \in Operands(m) : /\ Holds(o, d) => Holds(t[o], e)
                                   /\ ~ Holds(o, d) => Holds(f[o], e)
        BY <3>1, <3>2
      <3>7. CASE Type(m) = "AND"
        <4>1. /\ Holds(t[m], e) <=> \A o \in Operands(m) : Holds(t[o], e)
              /\ Holds(f[m], e) <=> \E o \in Operands(m) : Holds(f[o], e)
          BY <1>0, <2>4, <3>3, <3>7 DEF Possible
        <4> QED
          BY <3>5, <3>7, <4>1, HoldsEqs
      <3>8. CASE Type(m) = "OR"
        <4>1. /\ Holds(t[m], e) <=> \E o \in Operands(m) : Holds(t[o], e)
              /\ Holds(f[m], e) <=> \A o \in Operands(m) : Holds(f[o], e)
          BY <1>0, <2>4, <3>3, <3>8 DEF Possible
        <4> QED
          BY <3>5, <3>8, <4>1, HoldsEqs
      <3> QED
        BY <2>4, <3>7, <3>8 DEF Gates
    <2> QED
      BY <2>1, <2>2, <2>3, <2>4, Shape DEF Gates
  <1> HIDE DEF Right
  <1>2. \A m \in Node : (\A o \in Children(m) : o \in S) => m \in S
    BY <1>1
  <1> HIDE DEF S
  <1>3. \A m \in Node : m \in S
    BY <1>2, NodeInduction
  <1>4. Right(n)
    BY <1>3 DEF S
  <1>5. MayHold(n, dom, opp) = t[n] /\ MayFail(n, dom, opp) = f[n]
    BY <1>0 DEF Possible
  <1> QED
    BY <1>4, <1>5 DEF Right

(* The literals vals say nothing e or the moves of opp do not say. *)
Within(vals, vs, dom, opp, e) ==
    \A v \in vs : \A b \in BOOLEAN : Literal(v, b) \in vals =>
        /\ v \in dom => e[v] = b
        /\ v \notin dom => Literal(v, b) \in opp

(* They are false wherever the values that decide the node the other way   *)
(* are the same.                                                           *)
THEOREM MakePossibleExcludes ==
  ASSUME IsNodeSet, NEW dom, NEW opp, Consistent(opp), NEW n \in Node, NEW vals, NEW e,
         \A v \in VarsOf(n) \cap dom : e[v] \in BOOLEAN,
         Within(vals, VarsOf(n), dom, opp, e)
  PROVE  /\ Eval(n, vals) = "FALSE" => ~ Holds(MayHold(n, dom, opp), e)
         /\ Eval(n, vals) = "TRUE" => ~ Holds(MayFail(n, dom, opp), e)
  <1>0. PICK t \in [Node -> Node], f \in [Node -> Node] : Possible(dom, opp, t, f)
    BY MakePossibleCases
  <1> DEFINE Alike(m) == /\ \A v \in VarsOf(m) \cap dom : e[v] \in BOOLEAN
                         /\ Within(vals, VarsOf(m), dom, opp, e)
             Right(m) == Alike(m) => /\ Eval(m, vals) = "FALSE" => ~ Holds(t[m], e)
                                     /\ Eval(m, vals) = "TRUE" => ~ Holds(f[m], e)
             S == {k \in Node : Right(k)}
  <1>1. ASSUME NEW m \in Node, \A o \in Children(m) : Right(o) PROVE Right(m)
    <2> SUFFICES ASSUME Alike(m) PROVE /\ Eval(m, vals) = "FALSE" => ~ Holds(t[m], e)
                                       /\ Eval(m, vals) = "TRUE" => ~ Holds(f[m], e)
      OBVIOUS
    <2>0. PossibleFrom(m, dom, opp, t, f)
      BY <1>0 DEF Possible
    <2>1. CASE IsConst(m)
      <3>1. /\ m = TrueNode => Eval(m, vals) = "TRUE" /\ f[m] = FalseNode
            /\ m = FalseNode => Eval(m, vals) = "FALSE" /\ t[m] = FalseNode
        BY <2>0, EvalCases DEF PossibleFrom
      <3> QED
        BY <2>1, <3>1, ConstNodes DEF IsConst
    <2>2. CASE Type(m) = "LITERAL"
      <3>1. VarsOf(m) = {LitVar(m)} /\ Positive(m) \in BOOLEAN /\ m = Literal(LitVar(m), Positive(m))
        BY <2>2, VarsOfCases, Shape
      <3>2. Complement(m) = Literal(LitVar(m), ~ Positive(m)) /\ (~ Positive(m)) \in BOOLEAN
        BY DEF Complement
      <3>3. /\ m \in vals /\ LitVar(m) \in dom => e[LitVar(m)] = Positive(m)
            /\ m \in vals /\ LitVar(m) \notin dom => m \in opp
        BY <3>1 DEF Within
      <3>4. /\ Complement(m) \in vals /\ LitVar(m) \in dom => e[LitVar(m)] = ~ Positive(m)
            /\ Complement(m) \in vals /\ LitVar(m) \notin dom => Complement(m) \in opp
        <4> DEFINE b == ~ Positive(m)
        <4>1. Complement(m) = Literal(LitVar(m), b) /\ b \in BOOLEAN /\ LitVar(m) \in VarsOf(m)
          BY <3>1, <3>2
        <4> HIDE DEF b
        <4>2. /\ Complement(m) \in vals /\ LitVar(m) \in dom => e[LitVar(m)] = b
              /\ Complement(m) \in vals /\ LitVar(m) \notin dom => Complement(m) \in opp
          BY <4>1 DEF Within
        <4> QED
          BY <4>2 DEF b
      <3>5. /\ Eval(m, vals) = "TRUE" => m \in vals
            /\ Eval(m, vals) = "FALSE" => Complement(m) \in vals
        BY <2>2, EvalCases, ValueFacts
      <3>6. CASE LitVar(m) \in dom
        <4>1. e[LitVar(m)] \in BOOLEAN
          BY <3>1, <3>6
        <4>2. /\ Holds(m, e) <=> e[LitVar(m)] = Positive(m)
              /\ Holds(Complement(m), e) <=> ~ Holds(m, e)
          BY <2>2, <4>1, HoldsEqs, ComplementRight
        <4>3. t[m] = m /\ f[m] = Complement(m)
          BY <2>0, <2>2, <3>6 DEF PossibleFrom
        <4>4. /\ m \in vals => Holds(m, e)
              /\ Complement(m) \in vals => ~ Holds(m, e)
          BY <3>1, <3>3, <3>4, <3>6, <4>1, <4>2
        <4> QED
          BY <3>5, <4>2, <4>3, <4>4
      <3>7. CASE LitVar(m) \notin dom
        <4>1. /\ m \in opp => t[m] = TrueNode /\ f[m] = FalseNode
              /\ m \notin opp /\ Complement(m) \in opp => t[m] = FalseNode /\ f[m] = TrueNode
          BY <2>0, <2>2, <3>7 DEF PossibleFrom
        <4>2. m \in opp => Complement(m) \notin opp
          BY DEF Consistent
        <4> QED
          BY <3>3, <3>4, <3>5, <3>7, <4>1, <4>2, ConstNodes
      <3> QED
        BY <3>6, <3>7
    <2>3. CASE Type(m) = "NEGATION"
      <3>1. Right(Operand(m)) /\ VarsOf(Operand(m)) = VarsOf(m) /\ Operand(m) \in Node
        BY <1>1, <2>3, ChildrenOf, VarsOfCases, Shape
      <3>2. t[m] = f[Operand(m)] /\ f[m] = t[Operand(m)]
        BY <2>0, <2>3 DEF PossibleFrom
      <3>3. Eval(m, vals) = Negated(Eval(Operand(m), vals)) /\ Eval(Operand(m), vals) \in Values
        BY <2>3, <3>1, EvalCases
      <3>4. Alike(Operand(m))
        BY <3>1
      <3> HIDE DEF Alike
      <3> QED
        BY <3>1, <3>2, <3>3, <3>4, ValueFacts DEF Values
    <2>4. CASE Type(m) \in Gates
      <3>1. \A o \in Operands(m) : o \in Node /\ Right(o) /\ VarsOf(o) \subseteq VarsOf(m)
        BY <1>1, <2>4, ChildrenOf, VarsOfCases
      <3>2. \A o \in Operands(m) : Alike(o)
        BY <3>1 DEF Within
      <3>3. ASSUME NEW o \in Operands(m) PROVE Defined(e, t[o]) /\ Defined(e, f[o])
        <4>1. /\ o \in Node /\ t[o] = MayHold(o, dom, opp) /\ f[o] = MayFail(o, dom, opp)
              /\ \A v \in VarsOf(o) \cap dom : e[v] \in BOOLEAN
          BY <1>0, <3>1, <3>2 DEF Possible
        <4>2. VarsOf(t[o]) \subseteq dom \cap VarsOf(o) /\ VarsOf(f[o]) \subseteq dom \cap VarsOf(o)
          BY <4>1, MakePossibleKnown
        <4> QED
          BY <4>1, <4>2 DEF Defined
      <3> HIDE DEF Alike
      <3>5. \A o \in Operands(m) :
                /\ Eval(o, vals) = "FALSE" => ~ Holds(t[o], e)
                /\ Eval(o, vals) = "TRUE" => ~ Holds(f[o], e)
        BY <3>1, <3>2
      <3>6. Operands(m) # {}
        BY <2>4, Shape
      <3>7. CASE Type(m) = "AND"
        <4>1. /\ Holds(t[m], e) <=> \A o \in Operands(m) : Holds(t[o], e)
              /\ Holds(f[m], e) <=> \E o \in Operands(m) : Holds(f[o], e)
          BY <1>0, <2>4, <3>3, <3>7 DEF Possible
        <4> QED
          BY <3>5, <3>6, <3>7, <4>1, EvalCases
      <3>8. CASE Type(m) = "OR"
        <4>1. /\ Holds(t[m], e) <=> \E o \in Operands(m) : Holds(t[o], e)
              /\ Holds(f[m], e) <=> \A o \in Operands(m) : Holds(f[o], e)
          BY <1>0, <2>4, <3>3, <3>8 DEF Possible
        <4> QED
          BY <3>5, <3>6, <3>8, <4>1, EvalCases
      <3> QED
        BY <2>4, <3>7, <3>8 DEF Gates
    <2> QED
      BY <2>1, <2>2, <2>3, <2>4, Shape DEF Gates
  <1> HIDE DEF Right
  <1>2. \A m \in Node : (\A o \in Children(m) : o \in S) => m \in S
    BY <1>1
  <1> HIDE DEF S
  <1>3. \A m \in Node : m \in S
    BY <1>2, NodeInduction
  <1>4. Right(n)
    BY <1>3 DEF S
  <1>5. MayHold(n, dom, opp) = t[n] /\ MayFail(n, dom, opp) = f[n]
    BY <1>0 DEF Possible
  <1> QED
    BY <1>4, <1>5 DEF Right
=============================================================================
