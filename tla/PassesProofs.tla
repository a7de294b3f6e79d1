---------------------------- MODULE PassesProofs ----------------------------
(***************************************************************************)
(* The prefix and the circuits the parser makes are what the file says,    *)
(* for any number of blocks, variables, gates and operands; and the passes *)
(* keep what they promise of every such circuit, for any assignment and    *)
(* any partial assignment.                                                 *)
(***************************************************************************)
EXTENDS Passes, CircuitProofs

-----------------------------------------------------------------------------
(* The names have the numbers from one on, each once.                      *)
Numbered(f) ==
    /\ IsFiniteSet(DOMAIN f)
    /\ IsInjective(f)
    /\ \A n \in DOMAIN f : f[n] \in 1 .. Cardinality(DOMAIN f)

(* The blocks read so far hold every declared variable, in order.          *)
BlocksRight ==
    /\ counter \in Nat
    /\ counter = 0 => free = {} /\ pref = <<>> /\ DOMAIN name2var = {}
    /\ free \in SUBSET Nat
    /\ pref \in Seq([type : {"EXISTENTIAL", "UNIVERSAL"}, vars : SUBSET Nat])
    /\ \A v : v \in Declared <=> v \in free \/ \E i \in 1 .. Len(pref) : v \in pref[i].vars
    /\ \A i \in 1 .. Len(pref) : \A v \in free, w \in pref[i].vars : v < w
    /\ \A i, j \in 1 .. Len(pref) : i < j => \A v \in pref[i].vars, w \in pref[j].vars : v < w

(* The prefix: what make_varid and cb_quant_closed keep.                   *)
PrefixInv == Numbered(name2var) /\ BlocksRight

-----------------------------------------------------------------------------
(* The numbers f with those of a block of names, the ones that follow.     *)
BlockAdded(f, names, g) ==
    /\ Numbered(f)
    /\ \E m \in Nat : \E V : names \in [1 .. m -> V]
    /\ IsInjective(names) /\ Range(names) \cap DOMAIN f = {}
    /\ DOMAIN g = DOMAIN f \cup Range(names)
    /\ \A n \in DOMAIN f : g[n] = f[n]
    /\ \A i \in DOMAIN names : g[names[i]] = Cardinality(DOMAIN f) + i

(* The names of a block get the numbers that follow.                       *)
LEMMA BlockNumbered ==
  ASSUME NEW f, NEW names, NEW g, BlockAdded(f, names, g), NEW N, N = Cardinality(DOMAIN f)
  PROVE  /\ Numbered(g)
         /\ N \in Nat
         /\ Range(g) = Range(f) \cup {N + i : i \in DOMAIN names}
  <1>0. PICK m \in Nat : \E V : names \in [1 .. m -> V]
    BY DEF BlockAdded
  <1>0a. PICK V : names \in [1 .. m -> V]
    BY <1>0
  <1> USE <1>0a DEF BlockAdded
  <1>1. N \in Nat
    BY FS_CardinalityType DEF Numbered
  <1>2. IsFiniteSet(Range(names)) /\ Cardinality(Range(names)) = m
    <2>1. IsFiniteSet(1 .. m) /\ Cardinality(1 .. m) = m
      BY FS_Interval
    <2>2. names \in Bijection(1 .. m, Range(names))
      BY DEF Bijection, Injection, Surjection, IsInjective, Range
    <2> QED
      BY <2>1, <2>2, FS_Bijection DEF ExistsBijection
  <1>3. IsFiniteSet(DOMAIN g) /\ Cardinality(DOMAIN g) = N + m
    <2>1. IsFiniteSet(DOMAIN f) /\ DOMAIN f \cap Range(names) = {}
      BY DEF Numbered
    <2>2. /\ IsFiniteSet(DOMAIN f \cup Range(names))
          /\ Cardinality(DOMAIN f \cup Range(names)) =
                Cardinality(DOMAIN f) + Cardinality(Range(names)) - Cardinality(DOMAIN f \cap Range(names))
      BY <1>2, <2>1, FS_Union
    <2>3. Cardinality(DOMAIN f \cap Range(names)) = 0
      BY <2>1, FS_EmptySet
    <2> QED
      BY <1>1, <1>2, <2>2, <2>3
  <1>4. ASSUME NEW n \in DOMAIN g
        PROVE  \/ n \in DOMAIN f /\ g[n] = f[n] /\ g[n] \in 1 .. N
               \/ \E i \in 1 .. m : n = names[i] /\ n \notin DOMAIN f /\ g[n] = N + i
    BY DEF Numbered, Range
  <1>5. IsInjective(g)
    <2> SUFFICES ASSUME NEW a \in DOMAIN g, NEW b \in DOMAIN g, g[a] = g[b] PROVE a = b
      BY DEF IsInjective
    <2>1. CASE a \in DOMAIN f /\ b \in DOMAIN f
      BY <2>1 DEF Numbered, IsInjective
    <2>2. CASE a \in DOMAIN f /\ b \notin DOMAIN f
      <3>1. g[a] \in 1 .. N
        BY <2>2 DEF Numbered
      <3>2. PICK i \in 1 .. m : g[b] = N + i
        BY <1>4, <2>2
      <3> QED
        BY <1>1, <3>1, <3>2
    <2>3. CASE a \notin DOMAIN f /\ b \in DOMAIN f
      <3>1. g[b] \in 1 .. N
        BY <2>3 DEF Numbered
      <3>2. PICK i \in 1 .. m : g[a] = N + i
        BY <1>4, <2>3
      <3> QED
        BY <1>1, <3>1, <3>2
    <2>4. CASE a \notin DOMAIN f /\ b \notin DOMAIN f
      <3>1. PICK i \in 1 .. m : a = names[i] /\ g[a] = N + i
        BY <1>4, <2>4
      <3>2. PICK j \in 1 .. m : b = names[j] /\ g[b] = N + j
        BY <1>4, <2>4
      <3> QED
        BY <1>1, <3>1, <3>2
    <2> QED
      BY <2>1, <2>2, <2>3, <2>4
  <1>6. \A n \in DOMAIN g : g[n] \in 1 .. N + m
    <2> SUFFICES ASSUME NEW n \in DOMAIN g PROVE g[n] \in 1 .. N + m
      OBVIOUS
    <2>1. CASE n \in DOMAIN f /\ g[n] \in 1 .. N
      BY <1>1, <2>1
    <2>2. CASE \E i \in 1 .. m : g[n] = N + i
      BY <1>1, <2>2
    <2> QED
      BY <1>4, <2>1, <2>2
  <1>7. Range(g) = Range(f) \cup {N + i : i \in DOMAIN names}
    <2>1. \A v : v \in Range(g) => v \in Range(f) \/ \E i \in 1 .. m : v = N + i
      BY <1>4 DEF Range
    <2>2. \A v : v \in Range(f) => v \in Range(g)
      BY DEF Range
    <2>3. ASSUME NEW i \in 1 .. m PROVE N + i \in Range(g)
      <3>1. names[i] \in DOMAIN g
        BY DEF Range
      <3> QED
        BY <3>1 DEF Range
    <2> QED
      BY <2>1, <2>2, <2>3
  <1> QED
    BY <1>1, <1>3, <1>5, <1>6, <1>7 DEF Numbered

(* A quantifier block. *)
LEMMA QBlockPrefix ==
  ASSUME PrefixInv, NEW names \in SeqOf(VarNames, MaxBlockSize), ~ Redefined(names),
         NEW quant \in {"free", "exists", "forall"}, quant = "free" => counter = 0,
         counter' = counter + 1, name2var' = NamesVars(names),
         QuantClosed(quant, BlockVars(names))
  PROVE  PrefixInv' /\ Declared \subseteq Declared'
  <1> DEFINE N == VarsDeclared
             new == BlockVars(names)
  <1>1. PICK m \in Nat : names \in [1 .. m -> VarNames]
    BY ParserAssumption DEF SeqOf
  <1>2. IsInjective(names) /\ Range(names) \cap DOMAIN name2var = {}
    BY DEF Redefined
  <1>3. /\ DOMAIN name2var' = DOMAIN name2var \cup Range(names)
        /\ \A n \in DOMAIN name2var : name2var'[n] = name2var[n]
        /\ \A i \in 1 .. m : name2var'[names[i]] = N + i
    <2>1. /\ DOMAIN name2var' = DOMAIN name2var \cup Range(names)
          /\ \A n \in DOMAIN name2var : name2var'[n] = name2var[n]
      BY DEF NamesVars
    <2>2. ASSUME NEW i \in 1 .. m PROVE name2var'[names[i]] = N + i
      <3>1. names[i] \in Range(names) /\ names[i] \notin DOMAIN name2var
        BY <1>1, <1>2 DEF Range
      <3>2. \A j \in DOMAIN names : names[j] = names[i] => j = i
        BY <1>1, <1>2 DEF IsInjective
      <3>3. (CHOOSE j \in DOMAIN names : names[j] = names[i]) = i
        BY <1>1, <3>2
      <3> QED
        BY <3>1, <3>3 DEF NamesVars
    <2> QED
      BY <2>1, <2>2
  <1>4. new = {N + i : i \in 1 .. m}
    BY <1>1 DEF BlockVars
  <1>5. Numbered(name2var') /\ N \in Nat /\ Declared' = Declared \cup new
    <2> DEFINE g == name2var'
    <2>1. Numbered(name2var) /\ N = Cardinality(DOMAIN name2var)
      BY DEF PrefixInv, VarsDeclared
    <2>2. /\ DOMAIN g = DOMAIN name2var \cup Range(names)
          /\ \A n \in DOMAIN name2var : g[n] = name2var[n]
          /\ \A i \in 1 .. m : g[names[i]] = N + i
      BY <1>3
    <2> HIDE DEF N, g, new
    <2>3. BlockAdded(name2var, names, g)
      BY <1>1, <1>2, <2>1, <2>2 DEF BlockAdded
    <2>4. Numbered(g) /\ N \in Nat /\ Range(g) = Range(name2var) \cup {N + i : i \in DOMAIN names}
      BY <2>1, <2>3, BlockNumbered
    <2> QED
      BY <1>1, <1>4, <2>4 DEF Declared, g
  <1>6. new \in SUBSET Nat /\ \A v \in Declared, w \in new : v < w
    <2>1. \A v \in Declared : v \in 1 .. N
      BY DEF PrefixInv, Numbered, Declared, Range, VarsDeclared
    <2> QED
      BY <1>4, <1>5, <2>1
  <1> HIDE DEF new, N
  <1>7. CASE quant = "free"
    <2>1. free' = new /\ pref' = pref /\ pref = <<>> /\ DOMAIN name2var = {} /\ counter = 0
      BY <1>7 DEF QuantClosed, PrefixInv, BlocksRight, new
    <2>2. Declared = {}
      BY <2>1 DEF Declared, Range
    <2>3. Len(pref) = 0
      BY <2>1
    <2>4. BlocksRight'
      BY <1>5, <1>6, <2>1, <2>2, <2>3 DEF BlocksRight, PrefixInv
    <2> QED
      BY <1>5, <2>4 DEF PrefixInv
  <1>8. CASE quant # "free"
    <2>1. PICK t \in {"EXISTENTIAL", "UNIVERSAL"} : pref' = Append(pref, [type |-> t, vars |-> new])
      BY <1>8 DEF QuantClosed, new
    <2>2. free' = free
      BY <1>8 DEF QuantClosed
    <2>3. pref \in Seq([type : {"EXISTENTIAL", "UNIVERSAL"}, vars : SUBSET Nat])
      BY DEF PrefixInv, BlocksRight
    <2>4. /\ pref' \in Seq([type : {"EXISTENTIAL", "UNIVERSAL"}, vars : SUBSET Nat])
          /\ Len(pref') = Len(pref) + 1 /\ Len(pref) \in Nat
          /\ pref'[Len(pref) + 1].vars = new
          /\ \A i \in 1 .. Len(pref) : pref'[i].vars = pref[i].vars
      BY <1>6, <2>1, <2>3
    <2>5. \A v : v \in Declared' <=> v \in free' \/ \E i \in 1 .. Len(pref') : v \in pref'[i].vars
      <3>1. \A v : v \in Declared <=> v \in free \/ \E i \in 1 .. Len(pref) : v \in pref[i].vars
        BY DEF PrefixInv, BlocksRight
      <3> QED
        BY <1>5, <2>2, <2>4, <3>1
    <2>6. \A i \in 1 .. Len(pref) : \A v \in pref[i].vars : v \in Declared
      BY DEF PrefixInv, BlocksRight
    <2>7. \A v \in free : v \in Declared
      BY DEF PrefixInv, BlocksRight
    <2>8. \A i \in 1 .. Len(pref') : \A v \in free', w \in pref'[i].vars : v < w
      <3> SUFFICES ASSUME NEW i \in 1 .. Len(pref'), NEW v \in free', NEW w \in pref'[i].vars PROVE v < w
        OBVIOUS
      <3>1. CASE i = Len(pref) + 1
        BY <1>6, <2>2, <2>4, <2>7, <3>1
      <3>2. CASE i \in 1 .. Len(pref)
        BY <2>2, <2>4, <3>2 DEF PrefixInv, BlocksRight
      <3> QED
        BY <2>4, <3>1, <3>2
    <2>9. \A i, j \in 1 .. Len(pref') : i < j => \A v \in pref'[i].vars, w \in pref'[j].vars : v < w
      <3> SUFFICES ASSUME NEW i \in 1 .. Len(pref'), NEW j \in 1 .. Len(pref'), i < j,
                          NEW v \in pref'[i].vars, NEW w \in pref'[j].vars
                   PROVE v < w
        OBVIOUS
      <3>1. i \in 1 .. Len(pref)
        BY <2>4
      <3>2. CASE j = Len(pref) + 1
        BY <1>6, <2>4, <2>6, <3>1, <3>2
      <3>3. CASE j \in 1 .. Len(pref)
        <4>1. v \in pref[i].vars /\ w \in pref[j].vars
          BY <2>4, <3>1, <3>3
        <4> QED
          BY <3>1, <3>3, <4>1 DEF PrefixInv, BlocksRight
      <3>4. j = Len(pref) + 1 \/ j \in 1 .. Len(pref)
        <4>1. Len(pref') = Len(pref) + 1 /\ Len(pref) \in Nat
          BY <2>4
        <4> QED
          BY <4>1
      <3> QED
        BY <3>2, <3>3, <3>4
    <2>10. counter' \in Nat /\ counter' # 0 /\ free' \in SUBSET Nat
      BY <2>2 DEF PrefixInv, BlocksRight
    <2>11. BlocksRight'
      BY <2>4, <2>5, <2>8, <2>9, <2>10 DEF BlocksRight
    <2> QED
      BY <1>5, <2>11 DEF PrefixInv
  <1> QED
    BY <1>7, <1>8

-----------------------------------------------------------------------------
(* A node that speaks of declared variables only.                          *)
Circuits == {n \in Node : VarsOf(n) \subseteq Declared}

(* The gates read so far mean what the file says.                          *)
GatesInv ==
    /\ stage = "prefix" => DOMAIN name2id = {}
    /\ DOMAIN meaning = DOMAIN name2id
    /\ \A g \in DOMAIN name2id :
        /\ name2id[g] \in Circuits
        /\ \A e \in Assignments : Holds(name2id[g], e) <=> e \in meaning[g]
    /\ last_id \in Circuits
    /\ output \in Circuits
    /\ output_lit.sign \in BOOLEAN
    /\ stage = "closed" =>
        /\ output_lit.name \in DOMAIN name2id
        /\ output = IF output_lit.sign THEN MakeNot(name2id[output_lit.name])
                    ELSE name2id[output_lit.name]

IInv == PrefixInv /\ GatesInv

(* A circuit over declared variables is given a value by every assignment. *)
LEMMA CircuitDefined ==
  ASSUME NEW n \in Circuits, NEW e \in Assignments
  PROVE  Defined(e, n)
  BY DEF Circuits, Assignments, Defined

LEMMA NotCircuit ==
  ASSUME IsNodeSet, NEW n \in Circuits
  PROVE  /\ MakeNot(n) \in Circuits
         /\ \A e \in Assignments : Holds(MakeNot(n), e) <=> ~ Holds(n, e)
  BY MakeNotRight, CircuitDefined DEF Circuits

(* make_and and make_or of two operands, with constants dropped at once.   *)
LEMMA And2Circuit ==
  ASSUME IsNodeSet, NEW m \in Circuits, NEW n \in Circuits
  PROVE  /\ And2(m, n) \in Circuits
         /\ \A e \in Assignments : Holds(And2(m, n), e) <=> Holds(m, e) /\ Holds(n, e)
  <1>1. TrueNode \in Circuits /\ FalseNode \in Circuits
    BY ConstNodes DEF Circuits
  <1>2. CASE m = TrueNode \/ n = TrueNode
    <2>1. CASE m = TrueNode
      BY <2>1, ConstNodes DEF And2
    <2>2. CASE m # TrueNode /\ n = TrueNode
      BY <2>2, ConstNodes DEF And2
    <2> QED
      BY <1>2, <2>1, <2>2
  <1>3. CASE FalseNode \in {m, n} /\ TrueNode \notin {m, n}
    <2>1. And2(m, n) = FalseNode
      BY <1>3 DEF And2, IsConst
    <2> QED
      BY <1>1, <1>3, <2>1, ConstNodes
  <1>4. CASE FalseNode \notin {m, n} /\ TrueNode \notin {m, n}
    <2>1. And2(m, n) = MakeAnd({m, n})
      <3>1. /\ m # TrueNode /\ m # FalseNode /\ n # TrueNode /\ n # FalseNode
            /\ ~ IsConst(m) /\ ~ IsConst(n) /\ ~ (FalseNode \in {m, n}) /\ ~ (TrueNode \in {m, n})
        BY <1>4 DEF IsConst
      <3> QED
        BY <3>1 DEF And2
    <2>2. {m, n} \in SUBSET Node /\ IsFiniteSet({m, n})
      <3>1. IsFiniteSet({m}) /\ {m, n} = {m} \cup {n}
        BY FS_Singleton
      <3>2. IsFiniteSet({m} \cup {n})
        BY <3>1, FS_AddElement
      <3>3. {m, n} \in SUBSET Node
        BY DEF Circuits
      <3>4. IsFiniteSet({m, n})
        BY <3>1, <3>2, Zenon
      <3> QED
        BY <3>3, <3>4
    <2>3. MakeAnd({m, n}) \in Circuits
      <3>1. MakeAnd({m, n}) \in Node /\ VarsOf(MakeAnd({m, n})) \subseteq UNION {VarsOf(o) : o \in {m, n}}
        BY <2>2, MakeAndRight
      <3>2. \A o \in {m, n} : VarsOf(o) \subseteq Declared
        BY DEF Circuits
      <3> QED
        BY <3>1, <3>2 DEF Circuits
    <2>4. ASSUME NEW e \in Assignments PROVE Holds(MakeAnd({m, n}), e) <=> Holds(m, e) /\ Holds(n, e)
      <3>1. \A o \in {m, n} : Defined(e, o)
        BY CircuitDefined
      <3>2. Holds(MakeAnd({m, n}), e) <=> \A o \in {m, n} : Holds(o, e)
        BY <2>2, <3>1, MakeAndRight
      <3> QED
        BY <3>2
    <2> QED
      BY <2>1, <2>3, <2>4
  <1> QED
    BY <1>2, <1>3, <1>4

LEMMA Or2Circuit ==
  ASSUME IsNodeSet, NEW m \in Circuits, NEW n \in Circuits
  PROVE  /\ Or2(m, n) \in Circuits
         /\ \A e \in Assignments : Holds(Or2(m, n), e) <=> Holds(m, e) \/ Holds(n, e)
  <1>1. TrueNode \in Circuits /\ FalseNode \in Circuits
    BY ConstNodes DEF Circuits
  <1>2. CASE m = FalseNode \/ n = FalseNode
    <2>1. CASE m = FalseNode
      BY <2>1, ConstNodes DEF Or2
    <2>2. CASE m # FalseNode /\ n = FalseNode
      BY <2>2, ConstNodes DEF Or2
    <2> QED
      BY <1>2, <2>1, <2>2
  <1>3. CASE TrueNode \in {m, n} /\ FalseNode \notin {m, n}
    <2>1. Or2(m, n) = TrueNode
      BY <1>3 DEF Or2, IsConst
    <2> QED
      BY <1>1, <1>3, <2>1, ConstNodes
  <1>4. CASE FalseNode \notin {m, n} /\ TrueNode \notin {m, n}
    <2>1. Or2(m, n) = MakeOr({m, n})
      <3>1. /\ m # TrueNode /\ m # FalseNode /\ n # TrueNode /\ n # FalseNode
            /\ ~ IsConst(m) /\ ~ IsConst(n) /\ ~ (FalseNode \in {m, n}) /\ ~ (TrueNode \in {m, n})
        BY <1>4 DEF IsConst
      <3> QED
        BY <3>1 DEF Or2
    <2>2. {m, n} \in SUBSET Node /\ IsFiniteSet({m, n})
      <3>1. IsFiniteSet({m}) /\ {m, n} = {m} \cup {n}
        BY FS_Singleton
      <3>2. IsFiniteSet({m} \cup {n})
        BY <3>1, FS_AddElement
      <3>3. {m, n} \in SUBSET Node
        BY DEF Circuits
      <3>4. IsFiniteSet({m, n})
        BY <3>1, <3>2, Zenon
      <3> QED
        BY <3>3, <3>4
    <2>3. MakeOr({m, n}) \in Circuits
      <3>1. MakeOr({m, n}) \in Node /\ VarsOf(MakeOr({m, n})) \subseteq UNION {VarsOf(o) : o \in {m, n}}
        BY <2>2, MakeOrRight
      <3>2. \A o \in {m, n} : VarsOf(o) \subseteq Declared
        BY DEF Circuits
      <3> QED
        BY <3>1, <3>2 DEF Circuits
    <2>4. ASSUME NEW e \in Assignments PROVE Holds(MakeOr({m, n}), e) <=> Holds(m, e) \/ Holds(n, e)
      <3>1. \A o \in {m, n} : Defined(e, o)
        BY CircuitDefined
      <3>2. Holds(MakeOr({m, n}), e) <=> \E o \in {m, n} : Holds(o, e)
        BY <2>2, <3>1, MakeOrRight
      <3> QED
        BY <3>2
    <2> QED
      BY <2>1, <2>3, <2>4
  <1> QED
    BY <1>2, <1>3, <1>4

(* An operand: the node get_ID finds means what the literal says.          *)
LEMMA GetIDRight ==
  ASSUME IsNodeSet, IInv, NEW l, l.sign \in BOOLEAN, Known(l.name)
  PROVE  /\ GetID(l) \in Circuits
         /\ \A e \in Assignments : Holds(GetID(l), e) <=> TrueIn(l, e)
  <1>1. CASE l.name \in DOMAIN name2id
    <2> DEFINE n == name2id[l.name]
    <2>1. n \in Circuits /\ \A e \in Assignments : Holds(n, e) <=> e \in meaning[l.name]
      BY <1>1 DEF IInv, GatesInv
    <2>2. ASSUME NEW e \in Assignments PROVE TrueIn(l, e) <=> (l.sign # (e \in meaning[l.name]))
      BY <1>1 DEF TrueIn
    <2>3. ASSUME NEW e \in Assignments
          PROVE  TrueIn(l, e) <=> IF l.sign THEN ~ (e \in meaning[l.name]) ELSE e \in meaning[l.name]
      <3> DEFINE A == e \in meaning[l.name]
      <3>1. A \in BOOLEAN
        OBVIOUS
      <3>2. TrueIn(l, e) <=> (l.sign # A)
        BY <2>2
      <3> HIDE DEF A
      <3>3. TrueIn(l, e) <=> IF l.sign THEN ~ A ELSE A
        BY <3>1, <3>2
      <3> QED
        BY <3>3 DEF A
    <2> HIDE DEF n
    <2>4. CASE l.sign
      <3>1. GetID(l) = MakeNot(n)
        BY <1>1, <2>4 DEF GetID, n
      <3> QED
        BY <2>1, <2>3, <2>4, <3>1, NotCircuit
    <2>5. CASE ~ l.sign
      <3>1. GetID(l) = n
        BY <1>1, <2>5 DEF GetID, n
      <3> QED
        BY <2>1, <2>3, <2>5, <3>1
    <2> QED
      BY <2>4, <2>5
  <1>2. CASE l.name \notin DOMAIN name2id
    <2> DEFINE v == name2var[l.name]
               b == ~ l.sign
    <2>1. v \in Declared /\ v \in Nat /\ b \in BOOLEAN
      <3>1. l.name \in DOMAIN name2var
        BY <1>2 DEF Known
      <3>2. v \in 1 .. Cardinality(DOMAIN name2var)
        BY <3>1 DEF IInv, PrefixInv, Numbered
      <3>3. Cardinality(DOMAIN name2var) \in Nat
        BY FS_CardinalityType DEF IInv, PrefixInv, Numbered
      <3> QED
        BY <3>1, <3>2, <3>3 DEF Declared, Range
    <2>2. GetID(l) = Literal(v, b)
      BY <1>2 DEF GetID
    <2>3. ASSUME NEW e \in Assignments PROVE (TrueIn(l, e) <=> e[v] = b) /\ e[v] \in BOOLEAN
      <3>1. e[v] \in BOOLEAN
        BY <2>1 DEF Assignments
      <3>2. TrueIn(l, e) <=> (l.sign # e[v])
        BY <1>2 DEF TrueIn
      <3> QED
        BY <3>1, <3>2
    <2> HIDE DEF v, b
    <2>4. /\ Literal(v, b) \in Node /\ Type(Literal(v, b)) = "LITERAL"
          /\ LitVar(Literal(v, b)) = v /\ Positive(Literal(v, b)) = b
      BY <2>1 DEF IsNodeSet, NodeSet, Literal, Type, LitVar, Positive
    <2>5. VarsOf(Literal(v, b)) = {v} /\ \A e : Holds(Literal(v, b), e) <=> e[v] = b
      BY <2>4, VarsOfCases, HoldsEqs
    <2>6. Literal(v, b) \in Circuits
      BY <2>1, <2>4, <2>5 DEF Circuits
    <2> QED
      BY <2>2, <2>3, <2>5, <2>6
  <1> QED
    BY <1>1, <1>2

(* make_gate: what a gate of these operands means.                         *)
GateMeaning(gate, ids, e) ==
    CASE gate = "and" -> \A i \in DOMAIN ids : Holds(ids[i], e)
      [] gate = "or"  -> \E i \in DOMAIN ids : Holds(ids[i], e)
      [] gate = "xor" -> ~ (Holds(ids[1], e) <=> Holds(ids[2], e))
      [] gate = "ite" -> IF Holds(ids[1], e) THEN Holds(ids[2], e) ELSE Holds(ids[3], e)

LEMMA MakeXorRight ==
  ASSUME IsNodeSet, NEW m \in Circuits, NEW n \in Circuits
  PROVE  /\ MakeXor(m, n) \in Circuits
         /\ \A e \in Assignments : Holds(MakeXor(m, n), e) <=> ~ (Holds(m, e) <=> Holds(n, e))
  <1> DEFINE a == Or2(m, n)
             b == Or2(MakeNot(m), MakeNot(n))
  <1>1. MakeNot(m) \in Circuits /\ MakeNot(n) \in Circuits
    BY NotCircuit
  <1>2. /\ a \in Circuits /\ b \in Circuits
        /\ \A e \in Assignments : Holds(a, e) <=> Holds(m, e) \/ Holds(n, e)
        /\ \A e \in Assignments : Holds(b, e) <=> Holds(MakeNot(m), e) \/ Holds(MakeNot(n), e)
    BY <1>1, Or2Circuit
  <1>3. MakeXor(m, n) = And2(a, b)
    BY DEF MakeXor
  <1> HIDE DEF a, b
  <1>4. /\ And2(a, b) \in Circuits
        /\ \A e \in Assignments : Holds(And2(a, b), e) <=> Holds(a, e) /\ Holds(b, e)
    BY <1>2, And2Circuit
  <1> QED
    BY <1>2, <1>3, <1>4, NotCircuit

LEMMA MakeIteRight ==
  ASSUME IsNodeSet, NEW c \in Circuits, NEW m \in Circuits, NEW n \in Circuits
  PROVE  /\ MakeIte(c, m, n) \in Circuits
         /\ \A e \in Assignments :
                Holds(MakeIte(c, m, n), e) <=> IF Holds(c, e) THEN Holds(m, e) ELSE Holds(n, e)
  <1> DEFINE a == And2(c, m)
             b == And2(MakeNot(c), n)
  <1>1. MakeNot(c) \in Circuits
    BY NotCircuit
  <1>2. /\ a \in Circuits /\ b \in Circuits
        /\ \A e \in Assignments : Holds(a, e) <=> Holds(c, e) /\ Holds(m, e)
        /\ \A e \in Assignments : Holds(b, e) <=> Holds(MakeNot(c), e) /\ Holds(n, e)
    BY <1>1, And2Circuit
  <1>3. MakeIte(c, m, n) = Or2(a, b)
    BY DEF MakeIte
  <1> HIDE DEF a, b
  <1>4. /\ Or2(a, b) \in Circuits
        /\ \A e \in Assignments : Holds(Or2(a, b), e) <=> Holds(a, e) \/ Holds(b, e)
    BY <1>2, Or2Circuit
  <1> QED
    BY <1>2, <1>3, <1>4, NotCircuit

LEMMA MakeGateRight ==
  ASSUME IsNodeSet, NEW gate \in {"and", "or", "xor", "ite"},
         NEW k \in Nat, NEW ids \in [1 .. k -> Circuits],
         gate = "xor" => k = 2, gate = "ite" => k = 3
  PROVE  /\ MakeGate(gate, ids) \in Circuits
         /\ \A e \in Assignments : Holds(MakeGate(gate, ids), e) <=> GateMeaning(gate, ids, e)
  <1> DEFINE ops == Range(ids)
  <1>1. /\ ops \in SUBSET Circuits
        /\ \A e : (\A o \in ops : Holds(o, e)) <=> \A i \in 1 .. k : Holds(ids[i], e)
        /\ \A e : (\E o \in ops : Holds(o, e)) <=> \E i \in 1 .. k : Holds(ids[i], e)
    BY DEF Range
  <1>2. IsFiniteSet(ops)
    <2>1. IsFiniteSet(1 .. k)
      BY FS_Interval
    <2> QED
      BY <2>1, FiniteImage DEF Range
  <1> HIDE DEF ops
  <1>3. ops \in SUBSET Node /\ \A o \in ops : VarsOf(o) \subseteq Declared
    BY <1>1 DEF Circuits
  <1>4. \A e \in Assignments : \A o \in ops : Defined(e, o)
    BY <1>1, CircuitDefined
  <1>5. CASE gate = "and"
    <2>1. MakeGate(gate, ids) = MakeAnd(ops)
      BY <1>5 DEF MakeGate, ops
    <2>2. MakeAnd(ops) \in Circuits
      BY <1>2, <1>3, MakeAndRight DEF Circuits
    <2>3. \A e \in Assignments : Holds(MakeAnd(ops), e) <=> \A o \in ops : Holds(o, e)
      BY <1>2, <1>3, <1>4, MakeAndRight
    <2>4. \A e \in Assignments : GateMeaning(gate, ids, e) <=> \A i \in 1 .. k : Holds(ids[i], e)
      BY <1>5 DEF GateMeaning
    <2> QED
      BY <1>1, <2>1, <2>2, <2>3, <2>4
  <1>6. CASE gate = "or"
    <2>1. MakeGate(gate, ids) = MakeOr(ops)
      BY <1>6 DEF MakeGate, ops
    <2>2. MakeOr(ops) \in Circuits
      BY <1>2, <1>3, MakeOrRight DEF Circuits
    <2>3. \A e \in Assignments : Holds(MakeOr(ops), e) <=> \E o \in ops : Holds(o, e)
      BY <1>2, <1>3, <1>4, MakeOrRight
    <2>4. \A e \in Assignments : GateMeaning(gate, ids, e) <=> \E i \in 1 .. k : Holds(ids[i], e)
      BY <1>6 DEF GateMeaning
    <2> QED
      BY <1>1, <2>1, <2>2, <2>3, <2>4
  <1>7. CASE gate = "xor"
    <2>1. ids[1] \in Circuits /\ ids[2] \in Circuits
      BY <1>7
    <2>2. MakeGate(gate, ids) = MakeXor(ids[1], ids[2])
      BY <1>7 DEF MakeGate
    <2>3. \A e \in Assignments : GateMeaning(gate, ids, e) <=> ~ (Holds(ids[1], e) <=> Holds(ids[2], e))
      BY <1>7 DEF GateMeaning
    <2> QED
      BY <2>1, <2>2, <2>3, MakeXorRight
  <1>8. CASE gate = "ite"
    <2>1. ids[1] \in Circuits /\ ids[2] \in Circuits /\ ids[3] \in Circuits
      BY <1>8
    <2>2. MakeGate(gate, ids) = MakeIte(ids[1], ids[2], ids[3])
      BY <1>8 DEF MakeGate
    <2>3. \A e \in Assignments : GateMeaning(gate, ids, e) <=>
            IF Holds(ids[1], e) THEN Holds(ids[2], e) ELSE Holds(ids[3], e)
      BY <1>8 DEF GateMeaning
    <2> QED
      BY <2>1, <2>2, <2>3, MakeIteRight
  <1> QED
    BY <1>5, <1>6, <1>7, <1>8

-----------------------------------------------------------------------------
LEMMA InitIInv == ASSUME IsNodeSet, Init PROVE IInv
  <1>1. DOMAIN name2var = {} /\ DOMAIN name2id = {} /\ DOMAIN meaning = {}
    BY DEF Init, EmptyFunction
  <1>2. Numbered(name2var)
    BY <1>1, FS_EmptySet DEF Numbered, IsInjective
  <1>3. BlocksRight
    <2>1. Declared = {}
      BY <1>1 DEF Declared, Range
    <2>2. pref = <<>> /\ Len(pref) = 0 /\ free = {} /\ counter = 0
      BY DEF Init
    <2> QED
      BY <1>1, <2>1, <2>2 DEF BlocksRight
  <1>4. FalseNode \in Circuits
    BY ConstNodes DEF Circuits
  <1> QED
    BY <1>1, <1>2, <1>3, <1>4 DEF IInv, PrefixInv, GatesInv, Init

(* What the prefix consists of does not change. *)
LEMMA PrefixKept ==
  ASSUME PrefixInv, UNCHANGED prefix_vars
  PROVE  PrefixInv' /\ Declared' = Declared /\ Circuits' = Circuits /\ Assignments' = Assignments
  <1>1. /\ counter' = counter /\ free' = free /\ pref' = pref /\ name2var' = name2var
    BY DEF prefix_vars
  <1>2. Declared' = Declared
    BY <1>1 DEF Declared
  <1>3. Circuits' = Circuits /\ Assignments' = Assignments
    BY <1>2 DEF Circuits, Assignments
  <1>4. Numbered(name2var')
    BY <1>1 DEF PrefixInv
  <1>5. BlocksRight'
    BY <1>1, <1>2 DEF PrefixInv, BlocksRight
  <1> QED
    BY <1>2, <1>3, <1>4, <1>5 DEF PrefixInv

LEMMA ErrorIInv == ASSUME IInv, Error PROVE IInv'
  <1>1. PrefixInv' /\ Circuits' = Circuits /\ Assignments' = Assignments
    BY PrefixKept DEF Error, prefix_vars, IInv
  <1>2. GatesInv'
    BY <1>1 DEF Error, IInv, GatesInv
  <1> QED
    BY <1>1, <1>2 DEF IInv

LEMMA QBlockIInv == ASSUME IInv, QBlock PROVE IInv'
  <1>1. stage = "prefix" /\ DOMAIN name2id = {}
    BY DEF QBlock, IInv, GatesInv
  <1>2. PICK quant \in {"free", "exists", "forall"}, names \in SeqOf(VarNames, MaxBlockSize) :
           \/ Error
           \/ /\ quant = "free" => counter = 0
              /\ ~ Redefined(names)
              /\ counter' = counter + 1
              /\ name2var' = NamesVars(names)
              /\ QuantClosed(quant, BlockVars(names))
              /\ UNCHANGED <<stage, output_lit, name2id, output, last_id, meaning>>
    BY DEF QBlock
  <1>3. CASE Error
    BY <1>3, ErrorIInv
  <1>4. CASE ~ Error
    <2>1. PrefixInv' /\ Declared \subseteq Declared'
      BY <1>2, <1>4, QBlockPrefix DEF IInv
    <2>2. \A n \in Circuits : n \in Circuits'
      BY <2>1 DEF Circuits
    <2>3. UNCHANGED <<stage, output_lit, name2id, output, last_id, meaning>>
      BY <1>2, <1>4
    <2>4. GatesInv'
      BY <1>1, <2>2, <2>3 DEF IInv, GatesInv
    <2> QED
      BY <2>1, <2>4 DEF IInv
  <1> QED
    BY <1>3, <1>4

LEMMA OutputIInv == ASSUME IInv, OutputStmt PROVE IInv'
  <1>1. PrefixInv' /\ Circuits' = Circuits /\ Assignments' = Assignments
    BY PrefixKept DEF OutputStmt, IInv
  <1>2. output_lit'.sign \in BOOLEAN /\ stage' = "gates"
    BY DEF OutputStmt, Lits
  <1>3. GatesInv'
    BY <1>1, <1>2 DEF OutputStmt, IInv, GatesInv
  <1> QED
    BY <1>1, <1>3 DEF IInv

(* A gate of known operands means what its statement says. *)
LEMMA GateRight ==
  ASSUME IsNodeSet, IInv, NEW gate \in GateTypes, NEW args \in SeqOf(Lits, MaxArgs),
         \A i \in DOMAIN args : Known(args[i].name), Arity(gate, args),
         NEW id, id = MakeGate(gate, [i \in DOMAIN args |-> GetID(args[i])])
  PROVE  /\ id \in Circuits
         /\ \A e \in Assignments : Holds(id, e) <=> GateTrue(gate, args, e)
  <1> DEFINE ids == [i \in DOMAIN args |-> GetID(args[i])]
  <1>1. PICK k \in Nat : args \in [1 .. k -> Lits]
    BY ParserAssumption DEF SeqOf
  <1>2. DOMAIN args = 1 .. k /\ Len(args) = k
    BY <1>1
  <1>3. gate \in {"and", "or", "xor", "ite"} /\ (gate = "xor" => k = 2) /\ (gate = "ite" => k = 3)
    BY <1>2, ParserAssumption DEF Arity
  <1>4. ASSUME NEW i \in 1 .. k
        PROVE  /\ ids[i] \in Circuits
               /\ \A e \in Assignments : Holds(ids[i], e) <=> TrueIn(args[i], e)
    <2>1. args[i].sign \in BOOLEAN /\ Known(args[i].name)
      BY <1>1 DEF Lits
    <2>2. ids[i] = GetID(args[i])
      BY <1>2
    <2> QED
      BY <2>1, <2>2, GetIDRight
  <1>5. ids \in [1 .. k -> Circuits]
    BY <1>2, <1>4
  <1>6. id = MakeGate(gate, ids)
    OBVIOUS
  <1> HIDE DEF ids
  <1>7. id \in Circuits /\ \A e \in Assignments : Holds(id, e) <=> GateMeaning(gate, ids, e)
    BY <1>3, <1>5, <1>6, MakeGateRight
  <1>8. ASSUME NEW e \in Assignments PROVE GateMeaning(gate, ids, e) <=> GateTrue(gate, args, e)
    <2>1. DOMAIN ids = 1 .. k
      BY <1>5
    <2>2. CASE gate = "and"
      BY <1>2, <1>4, <2>1, <2>2 DEF GateMeaning, GateTrue
    <2>3. CASE gate = "or"
      BY <1>2, <1>4, <2>1, <2>3 DEF GateMeaning, GateTrue
    <2>4. CASE gate = "xor"
      <3> DEFINE A == TrueIn(args[1], e)
                 B == TrueIn(args[2], e)
      <3>1. A \in BOOLEAN /\ B \in BOOLEAN
        BY DEF TrueIn
      <3>2. GateTrue(gate, args, e) <=> (A # B)
        BY <2>4 DEF GateTrue
      <3>3. GateMeaning(gate, ids, e) <=> ~ (A <=> B)
        BY <1>3, <1>4, <2>4 DEF GateMeaning
      <3> HIDE DEF A, B
      <3> QED
        BY <3>1, <3>2, <3>3
    <2>5. CASE gate = "ite"
      BY <1>3, <1>4, <2>5 DEF GateMeaning, GateTrue
    <2> QED
      BY <1>3, <2>2, <2>3, <2>4, <2>5
  <1> QED
    BY <1>7, <1>8

LEMMA GateIInv == ASSUME IsNodeSet, IInv, GateStmt PROVE IInv'
  <1>1. stage = "gates"
    BY DEF GateStmt
  <1>2. PICK name \in GateNames, gate \in GateTypes, args \in SeqOf(Lits, MaxArgs) :
          \/ Error
          \/ /\ \A i \in DOMAIN args : Known(args[i].name)
             /\ Arity(gate, args)
             /\ name \notin DOMAIN name2id
             /\ last_id' = MakeGate(gate, [i \in DOMAIN args |-> GetID(args[i])])
             /\ DefineGate(name, last_id')
             /\ meaning' = With(meaning, name, {e \in Assignments : GateTrue(gate, args, e)})
             /\ UNCHANGED <<stage, prefix_vars, output_lit, output>>
    BY DEF GateStmt
  <1>3. CASE Error
    BY <1>3, ErrorIInv
  <1>4. CASE ~ Error
    <2>1. UNCHANGED <<stage, prefix_vars, output_lit, output>> /\ name \notin DOMAIN name2id
      BY <1>2, <1>4
    <2>2. PrefixInv' /\ Circuits' = Circuits /\ Assignments' = Assignments
      BY <2>1, PrefixKept DEF IInv
    <2>3. /\ last_id' \in Circuits
          /\ \A e \in Assignments : Holds(last_id', e) <=> GateTrue(gate, args, e)
      BY <1>2, <1>4, GateRight
    <2>4. /\ DOMAIN name2id' = DOMAIN name2id \cup {name}
          /\ name2id'[name] = last_id'
          /\ \A g \in DOMAIN name2id : name2id'[g] = name2id[g]
      BY <1>2, <1>4, <2>1 DEF DefineGate, With
    <2>5. /\ DOMAIN meaning' = DOMAIN meaning \cup {name} /\ DOMAIN meaning = DOMAIN name2id
          /\ meaning'[name] = {e \in Assignments : GateTrue(gate, args, e)}
          /\ \A g \in DOMAIN name2id : meaning'[g] = meaning[g]
      BY <1>2, <1>4, <2>1 DEF With, IInv, GatesInv
    <2>6. ASSUME NEW g \in DOMAIN name2id'
          PROVE  /\ name2id'[g] \in Circuits
                 /\ \A e \in Assignments : Holds(name2id'[g], e) <=> e \in meaning'[g]
      <3>1. CASE g = name
        BY <2>3, <2>4, <2>5, <3>1
      <3>2. CASE g \in DOMAIN name2id
        BY <2>4, <2>5, <3>2 DEF IInv, GatesInv
      <3> QED
        BY <2>4, <3>1, <3>2
    <2>7. GatesInv'
      BY <1>1, <2>1, <2>2, <2>3, <2>4, <2>5, <2>6 DEF IInv, GatesInv
    <2> QED
      BY <2>2, <2>7 DEF IInv
  <1> QED
    BY <1>3, <1>4

LEMMA ClosedIInv == ASSUME IsNodeSet, IInv, FileClosed PROVE IInv'
  <1>1. CASE Error
    BY <1>1, ErrorIInv
  <1>2. CASE ~ Error
    <2> DEFINE id == name2id[output_lit.name]
    <2>1. /\ output_lit.name \in DOMAIN name2id
          /\ stage' = "closed"
          /\ output' = IF output_lit.sign THEN MakeNot(id) ELSE id
          /\ UNCHANGED <<prefix_vars, output_lit, name2id, last_id, meaning>>
      BY <1>2 DEF FileClosed
    <2>2. PrefixInv' /\ Circuits' = Circuits /\ Assignments' = Assignments
      BY <2>1, PrefixKept DEF IInv
    <2>3. id \in Circuits
      BY <2>1 DEF IInv, GatesInv
    <2>4. output' \in Circuits
      BY <2>1, <2>3, NotCircuit
    <2>5. GatesInv'
      BY <2>1, <2>2, <2>4 DEF IInv, GatesInv
    <2> QED
      BY <2>2, <2>5 DEF IInv
  <1> QED
    BY <1>1, <1>2

LEMMA StepIInv == ASSUME IsNodeSet, IInv, [Next]_vars PROVE IInv'
  <1>1. CASE Next
    BY <1>1, QBlockIInv, OutputIInv, GateIInv, ClosedIInv DEF Next
  <1>2. CASE UNCHANGED vars
    <2>1. UNCHANGED prefix_vars /\ UNCHANGED <<stage, output_lit, name2id, output, last_id, meaning>>
      BY <1>2 DEF vars, prefix_vars
    <2>2. PrefixInv' /\ Circuits' = Circuits /\ Assignments' = Assignments
      BY <2>1, PrefixKept DEF IInv
    <2>3. GatesInv'
      BY <2>1, <2>2 DEF IInv, GatesInv
    <2> QED
      BY <2>2, <2>3 DEF IInv
  <1> QED
    BY <1>1, <1>2

(* The prefix does not depend on the circuits. *)
LEMMA StepPrefix == ASSUME PrefixInv, [Next]_vars PROVE PrefixInv'
  <1>1. ASSUME UNCHANGED prefix_vars PROVE PrefixInv'
    BY <1>1, PrefixKept
  <1>2. CASE QBlock
    <2>1. PICK quant \in {"free", "exists", "forall"}, names \in SeqOf(VarNames, MaxBlockSize) :
           \/ Error
           \/ /\ quant = "free" => counter = 0
              /\ ~ Redefined(names)
              /\ counter' = counter + 1
              /\ name2var' = NamesVars(names)
              /\ QuantClosed(quant, BlockVars(names))
      BY <1>2 DEF QBlock
    <2>2. CASE Error
      BY <1>1, <2>2 DEF Error, prefix_vars
    <2> QED
      BY <2>1, <2>2, QBlockPrefix
  <1>3. CASE OutputStmt
    BY <1>1, <1>3 DEF OutputStmt
  <1>4. CASE GateStmt
    BY <1>1, <1>4 DEF GateStmt, Error, prefix_vars
  <1>5. CASE FileClosed
    BY <1>1, <1>5 DEF FileClosed, Error, prefix_vars
  <1>6. CASE UNCHANGED vars
    BY <1>1, <1>6 DEF vars, prefix_vars
  <1> QED
    BY <1>2, <1>3, <1>4, <1>5, <1>6 DEF Next

LEMMA PrefixInvPartition == ASSUME PrefixInv PROVE PrefixPartition
  <1> DEFINE blocks == <<free>> \o [i \in DOMAIN pref |-> pref[i].vars]
  <1>1. pref \in Seq([type : {"EXISTENTIAL", "UNIVERSAL"}, vars : SUBSET Nat]) /\ free \in SUBSET Nat
    BY DEF PrefixInv, BlocksRight
  <1>2. Len(pref) \in Nat /\ DOMAIN pref = 1 .. Len(pref)
    BY <1>1
  <1>3. /\ DOMAIN blocks = 1 .. Len(pref) + 1
        /\ blocks[1] = free
        /\ \A i \in 1 .. Len(pref) : blocks[i + 1] = pref[i].vars
    <2> DEFINE rest == [i \in DOMAIN pref |-> pref[i].vars]
    <2>1. rest \in Seq(SUBSET Nat) /\ Len(rest) = Len(pref) /\ \A i \in 1 .. Len(pref) : rest[i] = pref[i].vars
      <3>1. \A i \in 1 .. Len(pref) : pref[i].vars \in SUBSET Nat
        <4>1. ASSUME NEW i \in 1 .. Len(pref) PROVE pref[i].vars \in SUBSET Nat
          <5> DEFINE Blocks == [type : {"EXISTENTIAL", "UNIVERSAL"}, vars : SUBSET Nat]
          <5>1. pref[i] \in Blocks
            <6>1. pref \in Seq(Blocks)
              BY <1>1
            <6> HIDE DEF Blocks
            <6> QED
              BY <6>1
          <5> QED
            BY <5>1
        <4> QED
          BY <4>1
      <3>2. rest \in [1 .. Len(pref) -> SUBSET Nat]
        BY <1>2, <3>1
      <3>3. \A i \in 1 .. Len(pref) : rest[i] = pref[i].vars
        BY <1>2
      <3> HIDE DEF rest
      <3> QED
        BY <1>2, <3>2, <3>3
    <2>2. <<free>> \in Seq(SUBSET Nat) /\ Len(<<free>>) = 1 /\ <<free>>[1] = free
      BY <1>1
    <2> HIDE DEF rest
    <2>3. /\ DOMAIN (<<free>> \o rest) = 1 .. Len(pref) + 1
          /\ (<<free>> \o rest)[1] = free
          /\ \A i \in 1 .. Len(pref) : (<<free>> \o rest)[i + 1] = rest[i]
      BY <1>2, <2>1, <2>2
    <2> QED
      BY <2>1, <2>3 DEF rest
  <1> HIDE DEF blocks
  <1>4. \A v : v \in Declared <=> v \in free \/ \E i \in 1 .. Len(pref) : v \in pref[i].vars
    BY DEF PrefixInv, BlocksRight
  <1>5. ASSUME NEW i \in DOMAIN blocks
        PROVE  i = 1 \/ (i - 1 \in 1 .. Len(pref) /\ blocks[i] = pref[i - 1].vars)
    <2>1. CASE i # 1
      <3>1. i - 1 \in 1 .. Len(pref) /\ (i - 1) + 1 = i
        BY <1>2, <1>3, <2>1
      <3> QED
        BY <1>3, <3>1
    <2> QED
      BY <2>1
  <1>6. UNION Range(blocks) = Declared
    <2>1. ASSUME NEW v, v \in UNION Range(blocks) PROVE v \in Declared
      <3>1. PICK i \in DOMAIN blocks : v \in blocks[i]
        BY <2>1 DEF Range
      <3> QED
        BY <1>3, <1>4, <1>5, <3>1
    <2>2. ASSUME NEW v \in Declared PROVE v \in UNION Range(blocks)
      <3>1. \E i \in DOMAIN blocks : v \in blocks[i]
        <4>1. CASE v \in free
          BY <1>2, <1>3, <4>1
        <4>2. CASE \E i \in 1 .. Len(pref) : v \in pref[i].vars
          <5>1. PICK i \in 1 .. Len(pref) : v \in pref[i].vars
            BY <4>2
          <5>2. i + 1 \in DOMAIN blocks /\ v \in blocks[i + 1]
            BY <1>2, <1>3, <5>1
          <5> QED
            BY <5>2
        <4> QED
          BY <1>4, <4>1, <4>2
      <3> QED
        BY <3>1 DEF Range
    <2> QED
      BY <2>1, <2>2
  <1>7. ASSUME NEW i \in DOMAIN blocks, NEW j \in DOMAIN blocks, i < j,
               NEW v \in blocks[i], NEW w \in blocks[j]
        PROVE  v < w
    <2>0. i \in Int /\ j \in Int /\ 1 <= i
      BY <1>2, <1>3
    <2>1. j - 1 \in 1 .. Len(pref) /\ w \in pref[j - 1].vars
      BY <1>5, <1>7, <2>0
    <2>2. CASE i = 1
      BY <1>3, <2>1, <2>2 DEF PrefixInv, BlocksRight
    <2>3. CASE i # 1
      <3>1. i - 1 \in 1 .. Len(pref) /\ v \in pref[i - 1].vars /\ i - 1 < j - 1
        BY <1>5, <1>7, <2>0, <2>3
      <3> QED
        BY <2>1, <3>1 DEF PrefixInv, BlocksRight
    <2> QED
      BY <2>2, <2>3
  <1>8. IsInjective(name2var)
    BY DEF PrefixInv, Numbered
  <1> QED
    BY <1>6, <1>7, <1>8 DEF PrefixPartition, blocks

LEMMA IInvMeans == ASSUME IsNodeSet, IInv PROVE FileMeans
  <1>1. ASSUME NEW g \in DOMAIN name2id
        PROVE  /\ VarsOf(name2id[g]) \subseteq Declared
               /\ \A e \in Assignments : Holds(name2id[g], e) = (e \in meaning[g])
    <2>1. /\ name2id[g] \in Circuits
          /\ \A e \in Assignments : Holds(name2id[g], e) <=> e \in meaning[g]
      BY DEF IInv, GatesInv
    <2>2. ASSUME NEW e \in Assignments PROVE Holds(name2id[g], e) = (e \in meaning[g])
      <3> DEFINE A == Holds(name2id[g], e)
                 B == e \in meaning[g]
      <3>1. A \in BOOLEAN
        BY <2>1, HoldsEqs DEF Circuits
      <3>2. B \in BOOLEAN
        OBVIOUS
      <3>3. A <=> B
        BY <2>1
      <3> HIDE DEF A, B
      <3>4. A = B
        BY <3>1, <3>2, <3>3
      <3> QED
        BY <3>4 DEF A, B
    <2> QED
      BY <2>1, <2>2 DEF Circuits
  <1>2. ASSUME stage = "closed", NEW e \in Assignments
        PROVE  Holds(output, e) = (output_lit.sign # (e \in meaning[output_lit.name]))
    <2> DEFINE n == name2id[output_lit.name]
               A == Holds(output, e)
               B == e \in meaning[output_lit.name]
               s == output_lit.sign
    <2>1. /\ n \in Circuits /\ s \in BOOLEAN /\ output \in Circuits
          /\ Holds(n, e) <=> B
          /\ output = IF s THEN MakeNot(n) ELSE n
      BY <1>2 DEF IInv, GatesInv
    <2>2. A \in BOOLEAN
      BY <2>1, HoldsEqs DEF Circuits
    <2>3. B \in BOOLEAN
      OBVIOUS
    <2>4. A <=> IF s THEN ~ B ELSE B
      <3>1. CASE s
        BY <2>1, <3>1, NotCircuit
      <3>2. CASE ~ s
        BY <2>1, <3>2
      <3> QED
        BY <3>1, <3>2
    <2> HIDE DEF A, B, s
    <2>5. A = (s # B)
      <3>1. s \in BOOLEAN
        BY <2>1
      <3> QED
        BY <2>2, <2>3, <2>4, <3>1
    <2> QED
      BY <2>5 DEF A, B, s
  <1> QED
    BY <1>1, <1>2 DEF FileMeans

(* Every declared variable is in one block, under one number, in the order *)
(* of the declarations (qesto_qcir_parser.h:34-48, 135-141).               *)
THEOREM PrefixRight == Spec => []PrefixPartition
  <1>1. Init => PrefixInv
    BY FS_EmptySet DEF Init, PrefixInv, Numbered, BlocksRight, IsInjective, Declared, Range, EmptyFunction
  <1>2. PrefixInv /\ [Next]_vars => PrefixInv'
    BY StepPrefix
  <1>3. PrefixInv => PrefixPartition
    BY PrefixInvPartition
  <1> QED
    BY <1>1, <1>2, <1>3, PTL DEF Spec

(* The circuits are what the file's gates and its output statement say     *)
(* (qesto_qcir_parser.h:55-101, expressions.cpp).                          *)
THEOREM FileRight == IsNodeSet => (Spec => []FileMeans)
  <1> SUFFICES ASSUME IsNodeSet PROVE Spec => []FileMeans
    OBVIOUS
  <1>1. Init => IInv
    BY InitIInv
  <1>2. IInv /\ [Next]_vars => IInv'
    BY StepIInv
  <1>3. IInv => FileMeans
    BY IInvMeans
  <1> QED
    BY <1>1, <1>2, <1>3, PTL DEF Spec

-----------------------------------------------------------------------------
(* What is below a node is closed and finite, and speaks of the variables  *)
(* of the node.                                                            *)
LEMMA SubNodesRight ==
  ASSUME IsNodeSet, NEW n \in Node
  PROVE  /\ n \in SubNodes(n) /\ SubNodes(n) \in SUBSET Node
         /\ IsFiniteSet(SubNodes(n))
         /\ \A s \in SubNodes(n) : Children(s) \subseteq SubNodes(n) /\ VarsOf(s) \subseteq VarsOf(n)
  <1> DEFINE Right(m) == /\ IsFiniteSet(SubNodes(m))
                         /\ \A s \in SubNodes(m) :
                                Children(s) \subseteq SubNodes(m) /\ VarsOf(s) \subseteq VarsOf(m)
             S == {k \in Node : Right(k)}
  <1>1. ASSUME NEW m \in Node, \A o \in Children(m) : Right(o) PROVE Right(m)
    <2>1. SubNodes(m) = {m} \cup UNION {SubNodes(o) : o \in Children(m)}
      BY SubNodesEqs
    <2>2. \A o \in Children(m) : o \in SubNodes(o) /\ VarsOf(o) \subseteq VarsOf(m)
      <3>1. ASSUME NEW o \in Children(m) PROVE o \in SubNodes(o)
        BY ChildrenOf, SubNodesEqs
      <3>2. ASSUME NEW o \in Children(m) PROVE VarsOf(o) \subseteq VarsOf(m)
        BY ChildrenOf, VarsOfCases, Shape DEF Gates
      <3> QED
        BY <3>1, <3>2
    <2>3. IsFiniteSet(SubNodes(m))
      <3> DEFINE g == [o \in Children(m) |-> SubNodes(o)]
                 parts == {g[o] : o \in Children(m)}
      <3>1. IsFiniteSet(parts)
        <4>1. IsFiniteSet(Children(m))
          BY ChildrenOf
        <4> HIDE DEF g
        <4> QED
          BY <4>1, FiniteImage
      <3>2. \A p \in parts : IsFiniteSet(p)
        <4>1. \A T \in {SubNodes(o) : o \in Children(m)} : IsFiniteSet(T)
          BY <1>1
        <4>2. parts = {SubNodes(o) : o \in Children(m)}
          OBVIOUS
        <4> QED
          BY <4>1, <4>2
      <3>3. SubNodes(m) = (UNION parts) \cup {m}
        BY <2>1
      <3> HIDE DEF parts
      <3>4. IsFiniteSet(UNION parts)
        BY <3>1, <3>2, FS_UNION
      <3>5. IsFiniteSet((UNION parts) \cup {m})
        BY <3>4, FS_AddElement
      <3> QED
        BY <3>3, <3>5
    <2>4. ASSUME NEW s \in SubNodes(m)
          PROVE  Children(s) \subseteq SubNodes(m) /\ VarsOf(s) \subseteq VarsOf(m)
      <3>1. CASE s = m
        BY <2>1, <2>2, <3>1
      <3>2. CASE \E o \in Children(m) : s \in SubNodes(o)
        BY <1>1, <2>1, <2>2, <3>2
      <3> QED
        BY <2>1, <3>1, <3>2
    <2> QED
      BY <2>3, <2>4
  <1>2. \A m \in Node : m \in S
    <2>1. \A m \in Node : (\A o \in Children(m) : o \in S) => m \in S
      BY <1>1
    <2> HIDE DEF S
    <2> QED
      BY <2>1, NodeInduction
  <1> QED
    BY <1>2, SubNodesEqs

(* What is below a node below. *)
LEMMA SubNodesWithin ==
  ASSUME IsNodeSet, NEW n \in Node
  PROVE  \A s \in SubNodes(n) : SubNodes(s) \subseteq SubNodes(n)
  <1> DEFINE S == {m \in Node : m \in SubNodes(n) => SubNodes(m) \subseteq SubNodes(n)}
  <1>1. ASSUME NEW m \in Node, \A o \in Children(m) : o \in S PROVE m \in S
    BY <1>1, SubNodesEqs, SubNodesRight
  <1> HIDE DEF S
  <1>2. \A m \in Node : m \in S
    BY <1>1, NodeInduction
  <1> QED
    BY <1>2, SubNodesRight DEF S

-----------------------------------------------------------------------------
(* What one turn of the work list adds to the cut.                         *)
Found(top, vals) == IF EvalUp(top, vals) # Undefined THEN {TrueOf(top, vals)} ELSE {}

(* The list holds nodes below the node that were not seen.                 *)
LEMMA TodoBelow ==
  ASSUME IsNodeSet, NEW n \in Node, NEW vals, NEW seen \in SUBSET SubNodes(n),
         NEW top \in Todo(n, seen, vals)
  PROVE  /\ top \in SubNodes(n) /\ top \notin seen
         /\ seen \cup {top} \in SUBSET SubNodes(n)
         /\ Cardinality(SubNodes(n) \ (seen \cup {top})) \in Nat
         /\ Cardinality(SubNodes(n) \ seen) \in Nat
         /\ Cardinality(SubNodes(n) \ (seen \cup {top})) < Cardinality(SubNodes(n) \ seen)
  <1>1. top \in SubNodes(n) /\ top \notin seen
    BY SubNodesRight DEF Todo
  <1>2. IsFiniteSet(SubNodes(n) \ seen)
    BY SubNodesRight, FS_Subset
  <1>3. SubNodes(n) \ (seen \cup {top}) = (SubNodes(n) \ seen) \ {top}
    OBVIOUS
  <1>4. Cardinality((SubNodes(n) \ seen) \ {top}) = Cardinality(SubNodes(n) \ seen) - 1
    BY <1>1, <1>2, FS_RemoveElement
  <1>5. Cardinality(SubNodes(n) \ seen) \in Nat
    BY <1>2, FS_CardinalityType
  <1>6. IsFiniteSet((SubNodes(n) \ seen) \ {top})
    BY <1>2, FS_RemoveElement
  <1>7. Cardinality((SubNodes(n) \ seen) \ {top}) \in Nat
    BY <1>6, FS_CardinalityType
  <1> QED
    BY <1>1, <1>3, <1>4, <1>5, <1>7

(* FindCutNoRec, turn by turn: h[seen] is what is added once seen has been *)
(* seen.                                                                   *)
Turns(h, n, vals) ==
    \A seen \in SUBSET SubNodes(n) :
        /\ Todo(n, seen, vals) = {} => h[seen] = {}
        /\ Todo(n, seen, vals) # {} =>
            \E top \in Todo(n, seen, vals) :
                h[seen] = Found(top, vals) \cup h[seen \cup {top}]

LEMMA WorkListEqs ==
  ASSUME IsNodeSet, NEW n \in Node, NEW vals
  PROVE  \E h : FindCutNoRec(n, vals) = h[{}] /\ Turns(h, n, vals)
  <1> DEFINE D == SUBSET SubNodes(n)
             V == SUBSET Node
             step(h) == [seen \in SUBSET SubNodes(n) |->
                IF Todo(n, seen, vals) = {} THEN {}
                ELSE LET top == CHOOSE s \in Todo(n, seen, vals) : TRUE
                         rest == h[seen \cup {top}]
                     IN  IF EvalUp(top, vals) # Undefined THEN {TrueOf(top, vals)} \cup rest
                         ELSE rest]
             F == [h \in [D -> V] |-> step(h)]
             rank == [seen \in D |-> Cardinality(SubNodes(n) \ seen)]
             First(seen) == CHOOSE s \in Todo(n, seen, vals) : TRUE
             val == CHOOSE h : h = step(h)
  <1>1. \A seen \in D : Todo(n, seen, vals) # {} => First(seen) \in Todo(n, seen, vals)
    OBVIOUS
  <1>2. \A h : \A seen \in D :
            step(h)[seen] = IF Todo(n, seen, vals) = {} THEN {}
                            ELSE Found(First(seen), vals) \cup h[seen \cup {First(seen)}]
    <2> TAKE h
    <2> TAKE seen \in D
    <2>1. step(h)[seen] = IF Todo(n, seen, vals) = {} THEN {}
                ELSE IF EvalUp(First(seen), vals) # Undefined
                     THEN {TrueOf(First(seen), vals)} \cup h[seen \cup {First(seen)}]
                     ELSE h[seen \cup {First(seen)}]
      OBVIOUS
    <2> HIDE DEF step, First
    <2> QED
      BY <2>1 DEF Found
  <1>3. \A seen \in D : Todo(n, seen, vals) # {} =>
            /\ seen \cup {First(seen)} \in D
            /\ Found(First(seen), vals) \in V
            /\ rank[seen \cup {First(seen)}] < rank[seen]
    <2> SUFFICES ASSUME NEW seen \in D, Todo(n, seen, vals) # {}
                 PROVE  /\ seen \cup {First(seen)} \in D
                        /\ Found(First(seen), vals) \in V
                        /\ rank[seen \cup {First(seen)}] < rank[seen]
      OBVIOUS
    <2>1. First(seen) \in Todo(n, seen, vals)
      BY <1>1
    <2> HIDE DEF First
    <2>2. First(seen) \in Node /\ seen \cup {First(seen)} \in D
      <3>1. First(seen) \in SubNodes(n) /\ seen \cup {First(seen)} \in D
        BY <2>1, TodoBelow
      <3> QED
        BY <3>1, SubNodesRight
    <2>3. Found(First(seen), vals) \in V
      BY <2>2, MakeNotRight DEF Found, TrueOf
    <2>4. rank[seen \cup {First(seen)}] < rank[seen]
      BY <2>1, <2>2, TodoBelow
    <2> QED
      BY <2>2, <2>3, <2>4
  <1>4. \A h : step(h) = [seen \in D |-> step(h)[seen]]
    OBVIOUS
  <1>5. \A h \in [D -> V] : F[h] = step(h)
    OBVIOUS
  <1>6. \A seen \in D : rank[seen] \in Nat
    BY SubNodesRight, FS_Subset, FS_CardinalityType
  <1>7. rank \in [D -> Nat]
    BY <1>6
  <1>8. F = [h \in [D -> V] |-> F[h]]
    OBVIOUS
  <1> HIDE DEF First, rank, F
  <1>9. Recursion(D, V, rank, F)
    <2>1. F \in [[D -> V] -> [D -> V]]
      <3>1. ASSUME NEW h \in [D -> V], NEW seen \in D PROVE step(h)[seen] \in V
        <4> HIDE DEF step
        <4>1. CASE Todo(n, seen, vals) = {}
          BY <1>2, <4>1
        <4>2. CASE Todo(n, seen, vals) # {}
          <5>1. step(h)[seen] = Found(First(seen), vals) \cup h[seen \cup {First(seen)}]
            BY <1>2, <4>2
          <5> QED
            BY <1>3, <4>2, <5>1
        <4> QED
          BY <4>1, <4>2
      <3>2. ASSUME NEW h \in [D -> V] PROVE step(h) \in [D -> V]
        <4> HIDE DEF step
        <4> QED
          BY <1>4, <3>1
      <3> HIDE DEF step
      <3> QED
        BY <1>5, <1>8, <3>2
    <2>2. ASSUME NEW f \in [D -> V], NEW g \in [D -> V], NEW x \in D,
                 \A y \in D : rank[y] < rank[x] => f[y] = g[y]
          PROVE  F[f][x] = F[g][x]
      <3>1. F[f][x] = step(f)[x] /\ F[g][x] = step(g)[x]
        <4> HIDE DEF step
        <4> QED
          BY <1>5
      <3> HIDE DEF step
      <3>2. CASE Todo(n, x, vals) = {}
        BY <1>2, <3>1, <3>2
      <3>3. CASE Todo(n, x, vals) # {}
        <4>1. f[x \cup {First(x)}] = g[x \cup {First(x)}]
          <5> DEFINE y == x \cup {First(x)}
          <5>1. y \in D /\ rank[y] < rank[x]
            BY <1>3, <3>3
          <5> HIDE DEF y
          <5>2. f[y] = g[y]
            BY <2>2, <5>1
          <5> QED
            BY <5>2 DEF y
        <4>2. step(f)[x] = Found(First(x), vals) \cup f[x \cup {First(x)}]
          BY <1>2, <3>3
        <4>3. step(g)[x] = Found(First(x), vals) \cup g[x \cup {First(x)}]
          BY <1>2, <3>3
        <4> QED
          BY <3>1, <4>1, <4>2, <4>3
      <3> QED
        BY <3>2, <3>3
    <2>3. V # {}
      OBVIOUS
    <2>4. \A f, g \in [D -> V], x \in D :
            (\A y \in D : rank[y] < rank[x] => f[y] = g[y]) => F[f][x] = F[g][x]
      <3> HIDE DEF D, V
      <3> QED
        BY <2>2
    <2> HIDE DEF D, V
    <2> QED
      BY <1>7, <2>1, <2>3, <2>4 DEF Recursion
  <1>10. PICK h \in [D -> V] : h = F[h]
    <2> HIDE DEF D, V
    <2> QED
      BY <1>9, Fixpoint
  <1>11. h = step(h)
    BY <1>5, <1>10
  <1>12. val = step(val)
    <2> HIDE DEF step
    <2> QED
      BY <1>11
  <1>13. FindCutNoRec(n, vals) = val[{}]
    BY DEF FindCutNoRec
  <1> QED
    <2> HIDE DEF val
    <2>1. \A seen \in D :
            /\ Todo(n, seen, vals) = {} => val[seen] = {}
            /\ Todo(n, seen, vals) # {} =>
                val[seen] = Found(First(seen), vals) \cup val[seen \cup {First(seen)}]
      <3>1. \A seen \in D : val[seen] = step(val)[seen]
        <4> HIDE DEF step
        <4> QED
          BY <1>12
      <3> HIDE DEF step
      <3> QED
        BY <1>2, <3>1
    <2> HIDE DEF step
    <2>2. Turns(val, n, vals)
      <3> HIDE DEF First
      <3> QED
        BY <1>1, <2>1 DEF Turns
    <2> QED
      BY <1>13, <2>2

(* A list that is worked off from seen ends with the nodes F seen, and h   *)
(* is what it has added to the cut.                                        *)
WorkedOff(h, n, vals, seen, F) ==
    /\ seen \subseteq F /\ F \subseteq SubNodes(n)
    /\ Todo(n, F, vals) = {}
    /\ h[seen] = UNION {Found(s, vals) : s \in F \ seen}
    /\ \A s \in F \ seen : \E t \in Todo(n, seen, vals) :
            Found(s, vals) \subseteq FindCut(t, vals) \cup {TrueNode}

LEMMA MakeNotConst == ASSUME IsNodeSet PROVE MakeNot(FalseNode) = TrueNode
  <1>1. IsConst(FalseNode)
    BY ConstNodes
  <1>2. MakeNot(FalseNode) = ConstNode(FalseNode = FalseNode)
    BY <1>1, ConstNodes, Shape DEF MakeNot, Gates
  <1> QED
    BY <1>2 DEF ConstNode

(* What a turn adds is in the cut of the node on turn, but for TRUE; so is *)
(* the cut of its operands, which it puts on the list.                     *)
LEMMA FoundInCut ==
  ASSUME IsNodeSet, NEW n \in Node, NEW vals
  PROVE  /\ Found(n, vals) \subseteq FindCut(n, vals) \cup {TrueNode}
         /\ EvalUp(n, vals) # Undefined => FindCut(n, vals) \subseteq Found(n, vals)
         /\ EvalUp(n, vals) = Undefined =>
                /\ Found(n, vals) = {}
                /\ FindCut(n, vals) = UNION {FindCut(o, vals) : o \in Children(n)}
  <1>1. CASE IsConst(n)
    <2>1. EvalUp(n, vals) = ValueOf(n = TrueNode) /\ EvalUp(n, vals) # Undefined
      BY <1>1, ValueFacts DEF EvalUp
    <2>2. MakeNot(FalseNode) = TrueNode /\ FalseNode # TrueNode
      BY ConstNodes, MakeNotConst
    <2>3. n = TrueNode => EvalUp(n, vals) = "TRUE"
      BY <2>1, ValueFacts
    <2>4. n = FalseNode => EvalUp(n, vals) # "TRUE"
      BY <2>1, <2>2, ValueFacts
    <2>5. Found(n, vals) = {TrueNode}
      BY <1>1, <2>1, <2>2, <2>3, <2>4 DEF Found, TrueOf, IsConst
    <2>6. FindCut(n, vals) = {n} \ {FalseNode}
      BY <1>1, FindCutEqs
    <2> QED
      BY <1>1, <2>1, <2>5, <2>6 DEF IsConst
  <1>2. CASE ~ IsConst(n) /\ EvalUp(n, vals) # Undefined
    <2>1. FindCut(n, vals) = {TrueOf(n, vals)}
      BY <1>2, FindCutEqs DEF TrueOf
    <2> QED
      BY <1>2, <2>1 DEF Found
  <1>3. CASE ~ IsConst(n) /\ EvalUp(n, vals) = Undefined
    BY <1>3, FindCutEqs DEF Found
  <1> QED
    BY <1>1, <1>2, <1>3

(* The list is worked off.                                                 *)
LEMMA ListWorkedOff ==
  ASSUME IsNodeSet, NEW n \in Node, NEW vals, NEW h, Turns(h, n, vals),
         NEW seen \in SUBSET SubNodes(n)
  PROVE  \E F : WorkedOff(h, n, vals, seen, F)
  <1> DEFINE Size(s) == Cardinality(SubNodes(n) \ s)
             Bad == {s \in SUBSET SubNodes(n) : ~ \E F : WorkedOff(h, n, vals, s, F)}
             Sizes0 == {Size(s) : s \in Bad}
  <1> SUFFICES ASSUME Bad # {} PROVE FALSE
    OBVIOUS
  <1>1. \A s \in SUBSET SubNodes(n) : Size(s) \in Nat
    BY SubNodesRight, FS_Subset, FS_CardinalityType
  <1>2. \E k \in Sizes0 : \A m \in Sizes0 : k <= m
    <2>1. Bad \subseteq SUBSET SubNodes(n)
      OBVIOUS
    <2>2. Sizes0 \in SUBSET Nat /\ Sizes0 # {}
      <3> HIDE DEF Bad, Size
      <3> QED
        BY <1>1, <2>1
    <2> HIDE DEF Sizes0
    <2> QED
      BY <2>2, NatMin
  <1>3. PICK bad \in Bad : \A s \in Bad : Size(bad) <= Size(s)
    <2> HIDE DEF Bad, Size
    <2> QED
      BY <1>2
  <1>4. CASE Todo(n, bad, vals) = {}
    <2>1. h[bad] = {} /\ bad \ bad = {}
      BY <1>4 DEF Turns
    <2>2. WorkedOff(h, n, vals, bad, bad)
      BY <1>4, <2>1 DEF WorkedOff
    <2> QED
      BY <2>2
  <1>5. CASE Todo(n, bad, vals) # {}
    <2>1. PICK top \in Todo(n, bad, vals) : h[bad] = Found(top, vals) \cup h[bad \cup {top}]
      BY <1>5 DEF Turns
    <2> DEFINE next == bad \cup {top}
    <2>2. /\ top \in SubNodes(n) /\ top \notin bad /\ next \in SUBSET SubNodes(n)
          /\ Size(next) \in Nat /\ Size(bad) \in Nat /\ Size(next) < Size(bad)
      BY TodoBelow
    <2>3. next \notin Bad
      <3> HIDE DEF next, Bad, Size
      <3> QED
        BY <1>3, <2>2
    <2>4. PICK F : WorkedOff(h, n, vals, next, F)
      BY <2>2, <2>3
    <2>5. top \in Node
      BY <2>2, SubNodesRight
    <2>6. F \ bad = {top} \cup (F \ next)
      BY <2>2, <2>4 DEF WorkedOff
    <2>7. h[bad] = UNION {Found(s, vals) : s \in F \ bad}
      <3>1. h[next] = UNION {Found(s, vals) : s \in F \ next}
        BY <2>4 DEF WorkedOff
      <3> HIDE DEF next
      <3>2. h[bad] = Found(top, vals) \cup UNION {Found(s, vals) : s \in F \ next}
        BY <2>1, <3>1 DEF next
      <3>3. UNION {Found(s, vals) : s \in {top} \cup (F \ next)} =
                Found(top, vals) \cup UNION {Found(s, vals) : s \in F \ next}
        OBVIOUS
      <3> QED
        BY <2>6, <3>2, <3>3
    <2>8. ASSUME NEW s \in F \ bad
          PROVE  \E t \in Todo(n, bad, vals) : Found(s, vals) \subseteq FindCut(t, vals) \cup {TrueNode}
      <3>1. CASE s = top
        BY <2>5, <3>1, FoundInCut
      <3>2. CASE s \in F \ next
        <4>1. PICK t \in Todo(n, next, vals) : Found(s, vals) \subseteq FindCut(t, vals) \cup {TrueNode}
          BY <2>4, <3>2 DEF WorkedOff
        <4>2. CASE t \in Todo(n, bad, vals)
          BY <4>1, <4>2
        <4>3. CASE t \notin Todo(n, bad, vals)
          <5>1. EvalUp(top, vals) = Undefined /\ t \in Children(top)
            BY <4>3 DEF Todo
          <5>2. FindCut(t, vals) \subseteq FindCut(top, vals)
            BY <2>5, <5>1, FoundInCut
          <5> QED
            BY <4>1, <5>2
        <4> QED
          BY <4>2, <4>3
      <3> QED
        BY <2>6, <3>1, <3>2
    <2>9. WorkedOff(h, n, vals, bad, F)
      <3>1. bad \subseteq F /\ F \subseteq SubNodes(n) /\ Todo(n, F, vals) = {}
        BY <2>4 DEF WorkedOff
      <3> QED
        BY <2>7, <2>8, <3>1 DEF WorkedOff
    <2> QED
      BY <2>9
  <1> QED
    BY <1>4, <1>5

(* The cut by a work list is the recursive one, but for the constant TRUE. *)
THEOREM FindCutNoRecRight ==
  ASSUME IsNodeSet, NEW n \in Node, NEW vals
  PROVE  FindCutNoRec(n, vals) \ {TrueNode} = FindCut(n, vals) \ {TrueNode}
  <1>1. PICK h : FindCutNoRec(n, vals) = h[{}] /\ Turns(h, n, vals)
    BY WorkListEqs
  <1>2. PICK F : WorkedOff(h, n, vals, {}, F)
    <2>1. {} \in SUBSET SubNodes(n)
      OBVIOUS
    <2> QED
      BY <1>1, <2>1, ListWorkedOff
  <1>3. F \in SUBSET Node /\ h[{}] = UNION {Found(s, vals) : s \in F}
    <2>1. F \ {} = F
      OBVIOUS
    <2>2. h[{}] = UNION {Found(s, vals) : s \in F \ {}} /\ F \subseteq SubNodes(n)
      BY <1>2 DEF WorkedOff
    <2> QED
      BY <2>1, <2>2, SubNodesRight
  <1>4. Todo(n, {}, vals) = {n}
    BY DEF Todo
  <1>5. n \in F /\ \A s \in F : EvalUp(s, vals) = Undefined => Children(s) \subseteq F
    BY <1>2 DEF WorkedOff, Todo
  <1>6. ASSUME NEW c \in h[{}], c # TrueNode PROVE c \in FindCut(n, vals)
    <2>1. PICK s \in F : c \in Found(s, vals)
      BY <1>3
    <2>2. Found(s, vals) \subseteq FindCut(n, vals) \cup {TrueNode}
      BY <1>2, <1>4 DEF WorkedOff
    <2> QED
      BY <1>6, <2>1, <2>2
  <1>7. ASSUME NEW c \in FindCut(n, vals), c # TrueNode PROVE c \in h[{}]
    <2> DEFINE S == {m \in Node : m \in F => FindCut(m, vals) \subseteq h[{}]}
    <2>1. ASSUME NEW m \in Node, \A o \in Children(m) : o \in S PROVE m \in S
      <3> SUFFICES ASSUME m \in F PROVE FindCut(m, vals) \subseteq h[{}]
        OBVIOUS
      <3>1. CASE EvalUp(m, vals) # Undefined
        <4>1. FindCut(m, vals) \subseteq Found(m, vals)
          BY <3>1, FoundInCut
        <4> QED
          BY <1>3, <4>1
      <3>2. CASE EvalUp(m, vals) = Undefined
        <4>1. FindCut(m, vals) = UNION {FindCut(o, vals) : o \in Children(m)}
          BY <3>2, FoundInCut
        <4>2. \A o \in Children(m) : FindCut(o, vals) \subseteq h[{}]
          BY <1>5, <2>1, <3>2
        <4> QED
          BY <4>1, <4>2
      <3> QED
        BY <3>1, <3>2
    <2> HIDE DEF S
    <2>2. n \in S
      BY <2>1, NodeInduction
    <2> QED
      BY <1>5, <1>7, <2>2 DEF S
  <1> QED
    BY <1>1, <1>6, <1>7

-----------------------------------------------------------------------------
(* The moves of some variables: what they make of an assignment.           *)
LEMMA MovesRight ==
  ASSUME IsNodeSet, Declared \subseteq Nat, NEW S \in SUBSET Declared, NEW sub \in Moves(S)
  PROVE  /\ sub \in SUBSET Node /\ Consistent(sub)
         /\ \A v : Assigns(sub, Literal(v, TRUE)) <=> v \in S
         /\ \A e \in Assignments : Under(e, sub) \in Assignments
         /\ \A n \in Circuits, e \in Assignments :
                /\ Moved(Under(e, sub), e, sub, VarsOf(n))
                /\ Follows(Under(e, sub), sub, VarsOf(n))
  <1>1. PICK m \in [S -> BOOLEAN] : sub = {Literal(v, m[v]) : v \in S}
    BY DEF Moves
  <1>2. \A v, b : Literal(v, b) \in sub <=> v \in S /\ m[v] = b
    BY <1>1 DEF Literal
  <1>3. \A v, b : Complement(Literal(v, b)) = Literal(v, ~ b)
    BY DEF Complement, Literal, LitVar, Positive
  <1>4. sub \in SUBSET Node
    BY <1>1 DEF IsNodeSet, NodeSet
  <1>5. Consistent(sub)
    <2> SUFFICES ASSUME NEW n \in sub, Complement(n) \in sub PROVE FALSE
      BY DEF Consistent
    <2>1. PICK v \in S : n = Literal(v, m[v])
      BY <1>1
    <2>2. m[v] = ~ m[v]
      BY <1>2, <1>3, <2>1
    <2>3. m[v] \in BOOLEAN
      BY <1>1
    <2> QED
      BY <2>2, <2>3
  <1>6. \A v : Assigns(sub, Literal(v, TRUE)) <=> v \in S
    <2> TAKE v
    <2>1. Complement(Literal(v, TRUE)) = Literal(v, FALSE)
      BY <1>3
    <2>2. v \in S => m[v] = TRUE \/ m[v] = FALSE
      BY <1>1
    <2> QED
      BY <1>2, <2>1, <2>2 DEF Assigns
  <1>7. \A e \in Assignments : Under(e, sub) \in Assignments
    <2> TAKE e \in Assignments
    <2>1. \A v \in Declared : e[v] \in BOOLEAN /\ (Literal(v, TRUE) \in sub) \in BOOLEAN
      BY DEF Assignments
    <2> QED
      BY <2>1 DEF Under, Assignments
  <1>8. \A n \in Circuits, e \in Assignments : \A v \in VarsOf(n) :
            Under(e, sub)[v] = IF Assigns(sub, Literal(v, TRUE)) THEN Literal(v, TRUE) \in sub ELSE e[v]
    BY DEF Under, Circuits
  <1>9. \A n \in Circuits, e \in Assignments :
                /\ Moved(Under(e, sub), e, sub, VarsOf(n))
                /\ Follows(Under(e, sub), sub, VarsOf(n))
    BY <1>8 DEF Moved, Follows
  <1> QED
    BY <1>4, <1>5, <1>6, <1>7, <1>9

LEMMA DeclaredNumbers == ASSUME IInv PROVE Declared \subseteq Nat
  <1>1. Cardinality(DOMAIN name2var) \in Nat
    BY FS_CardinalityType DEF IInv, PrefixInv, Numbered
  <1>2. \A x \in DOMAIN name2var : name2var[x] \in Nat
    BY <1>1 DEF IInv, PrefixInv, Numbered
  <1> QED
    BY <1>2 DEF Declared, Range

(* A substitution is the moves of some variables. *)
LEMMA SubstitutionRight ==
  ASSUME IsNodeSet, IInv, NEW sub \in Substitutions
  PROVE  /\ sub \in SUBSET Node /\ Consistent(sub)
         /\ \A e \in Assignments : Under(e, sub) \in Assignments
         /\ \A n \in Circuits, e \in Assignments :
                /\ Moved(Under(e, sub), e, sub, VarsOf(n))
                /\ Follows(Under(e, sub), sub, VarsOf(n))
  <1>1. PICK S \in SUBSET Declared : sub \in Moves(S)
    BY DEF Substitutions
  <1> QED
    BY <1>1, DeclaredNumbers, MovesRight

LEMMA SimplifyKeeps == ASSUME IsNodeSet, IInv PROVE SimplifyFaithful
  <1> SUFFICES ASSUME NEW fixed, NEW e \in Assignments, \A s \in fixed : Holds(s, e)
               PROVE  Holds(Simplify(last_id, fixed), e) = Holds(last_id, e)
    BY DEF SimplifyFaithful
  <1>1. last_id \in Node /\ Defined(e, last_id)
    BY CircuitDefined DEF IInv, GatesInv, Circuits
  <1>2. Holds(Simplify(last_id, fixed), e) <=> Holds(last_id, e)
    BY <1>1, SimplifyRight
  <1>3. Holds(Simplify(last_id, fixed), e) \in BOOLEAN /\ Holds(last_id, e) \in BOOLEAN
    BY <1>1, SimplifyRight, HoldsEqs
  <1> QED
    BY <1>2, <1>3

LEMMA ReduceKeeps == ASSUME IsNodeSet, IInv PROVE ReduceFaithful
  <1> SUFFICES ASSUME NEW sub \in Substitutions
               PROVE  /\ \A v \in VarsOf(Reduce(last_id, sub)) : ~ Assigns(sub, Literal(v, TRUE))
                      /\ \A e \in Assignments :
                            Holds(Reduce(last_id, sub), e) = Holds(last_id, Under(e, sub))
    BY DEF ReduceFaithful
  <1>1. last_id \in Circuits /\ last_id \in Node
    BY DEF IInv, GatesInv, Circuits
  <1>2. \A v \in VarsOf(Reduce(last_id, sub)) : ~ Assigns(sub, Literal(v, TRUE))
    BY <1>1, ReduceRight
  <1>3. ASSUME NEW e \in Assignments
        PROVE  Holds(Reduce(last_id, sub), e) = Holds(last_id, Under(e, sub))
    <2>1. Holds(Reduce(last_id, sub), e) <=> Holds(last_id, Under(e, sub))
      BY <1>1, CircuitDefined, SubstitutionRight, ReduceRight
    <2>2. Holds(Reduce(last_id, sub), e) \in BOOLEAN /\ Holds(last_id, Under(e, sub)) \in BOOLEAN
      BY <1>1, ReduceRight, HoldsEqs
    <2> QED
      BY <2>1, <2>2
  <1> QED
    BY <1>2, <1>3

LEMMA EvalUpAgrees == ASSUME IsNodeSet, IInv PROVE EvalUpAgreesWithEval
  <1> SUFFICES ASSUME NEW sub \in Substitutions, NEW n \in SubNodes(last_id)
               PROVE  /\ EvalUp(n, sub) \in {Undefined, Eval(n, sub)}
                      /\ EvalUp(n, sub) # Undefined =>
                            \A e \in Assignments : Holds(n, Under(e, sub)) = (EvalUp(n, sub) = "TRUE")
                      /\ (\A s \in SubNodes(n) : ~ IsConst(s)) => CmpEval(n, sub)
    BY DEF EvalUpAgreesWithEval
  <1>1. last_id \in Circuits /\ last_id \in Node
    BY DEF IInv, GatesInv, Circuits
  <1>2. n \in Node /\ n \in Circuits
    BY <1>1, SubNodesRight DEF Circuits
  <1>3. EvalUp(n, sub) \in {Undefined, Eval(n, sub)} /\ EvalUp(n, sub) \in Values
    BY <1>2, EvalUpRight
  <1>4. ASSUME EvalUp(n, sub) # Undefined, NEW e \in Assignments
        PROVE  Holds(n, Under(e, sub)) = (EvalUp(n, sub) = "TRUE")
    <2>1. Eval(n, sub) = "TRUE" => Holds(n, Under(e, sub))
      BY <1>2, SubstitutionRight, EvalRight
    <2>2. Eval(n, sub) = "FALSE" => ~ Holds(n, Under(e, sub))
      BY <1>2, SubstitutionRight, EvalRight
    <2>3. Holds(n, Under(e, sub)) <=> (EvalUp(n, sub) = "TRUE")
      BY <1>3, <1>4, <2>1, <2>2 DEF Values
    <2>4. Holds(n, Under(e, sub)) \in BOOLEAN
      BY <1>2, HoldsEqs
    <2> QED
      BY <2>3, <2>4
  <1>5. ASSUME \A s \in SubNodes(n) : ~ IsConst(s), NEW s \in SubNodes(n)
        PROVE  EvalUp(s, sub) = Eval(s, sub)
    <2>1. s \in Node /\ SubNodes(s) \subseteq SubNodes(n)
      BY <1>2, SubNodesRight, SubNodesWithin
    <2> QED
      BY <1>5, <2>1, EvalUpRight
  <1> QED
    BY <1>3, <1>4, <1>5 DEF CmpEval

LEMMA CutRight == ASSUME IsNodeSet, IInv PROVE CutDecides
  <1> SUFFICES ASSUME NEW sub \in Substitutions
               PROVE  /\ FindCutNoRec(last_id, sub) \ {TrueNode} = FindCut(last_id, sub) \ {TrueNode}
                      /\ \A e \in Assignments :
                            /\ \A n \in FindCut(last_id, sub) : Holds(n, Under(e, sub))
                            /\ (\A n \in FindCut(last_id, sub) : Holds(n, e)) =>
                                    Holds(last_id, e) = Holds(last_id, Under(e, sub))
    BY DEF CutDecides
  <1>1. last_id \in Circuits /\ last_id \in Node
    BY DEF IInv, GatesInv, Circuits
  <1>2. FindCutNoRec(last_id, sub) \ {TrueNode} = FindCut(last_id, sub) \ {TrueNode}
    BY <1>1, FindCutNoRecRight
  <1>3. ASSUME NEW e \in Assignments, NEW n \in FindCut(last_id, sub)
        PROVE  Holds(n, Under(e, sub))
    <2>1. n \in Node /\ VarsOf(n) \subseteq VarsOf(last_id) /\ Eval(n, sub) = "TRUE"
      BY <1>1, SubstitutionRight, FindCutKnown
    <2>2. n \in Circuits
      BY <1>1, <2>1 DEF Circuits
    <2> QED
      BY <2>1, <2>2, SubstitutionRight, EvalRight
  <1>4. ASSUME NEW e \in Assignments, \A n \in FindCut(last_id, sub) : Holds(n, e)
        PROVE  Holds(last_id, e) = Holds(last_id, Under(e, sub))
    <2>1. Holds(last_id, e) <=> Holds(last_id, Under(e, sub))
      BY <1>1, <1>4, CircuitDefined, SubstitutionRight, FindCutRight
    <2>2. Holds(last_id, e) \in BOOLEAN /\ Holds(last_id, Under(e, sub)) \in BOOLEAN
      BY <1>1, HoldsEqs
    <2> QED
      BY <2>1, <2>2
  <1> QED
    BY <1>2, <1>3, <1>4

LEMMA PossibleRight == ASSUME IsNodeSet, IInv PROVE MakePossibleCovers
  <1>1. last_id \in Circuits /\ last_id \in Node
    BY DEF IInv, GatesInv, Circuits
  <1>2. ASSUME NEW dom \in SUBSET Declared, NEW opp \in UNION {Moves(S) : S \in SUBSET (Declared \ dom)}
        PROVE  /\ VarsOf(MayHold(last_id, dom, opp)) \subseteq dom
               /\ VarsOf(MayFail(last_id, dom, opp)) \subseteq dom
               /\ \A e \in Assignments :
                    /\ Holds(last_id, Under(e, opp)) => Holds(MayHold(last_id, dom, opp), e)
                    /\ ~ Holds(last_id, Under(e, opp)) => Holds(MayFail(last_id, dom, opp), e)
    <2>1. PICK S \in SUBSET (Declared \ dom) : opp \in Moves(S)
      BY <1>2
    <2>2. S \in SUBSET Declared /\ Declared \subseteq Nat
      BY DeclaredNumbers
    <2>3. /\ Consistent(opp)
          /\ \A v : Assigns(opp, Literal(v, TRUE)) <=> v \in S
          /\ \A e \in Assignments : Follows(Under(e, opp), opp, VarsOf(last_id))
      BY <1>1, <2>1, <2>2, MovesRight
    <2>4. /\ VarsOf(MayHold(last_id, dom, opp)) \subseteq dom
          /\ VarsOf(MayFail(last_id, dom, opp)) \subseteq dom
      BY <1>1, MakePossibleKnown
    <2>5. ASSUME NEW e \in Assignments
          PROVE  /\ Holds(last_id, Under(e, opp)) => Holds(MayHold(last_id, dom, opp), e)
                 /\ ~ Holds(last_id, Under(e, opp)) => Holds(MayFail(last_id, dom, opp), e)
      <3>1. \A v \in VarsOf(last_id) \cap dom :
                Under(e, opp)[v] \in BOOLEAN /\ e[v] = Under(e, opp)[v]
        <4>1. \A v \in dom : Under(e, opp)[v] = e[v] /\ e[v] \in BOOLEAN
          BY <2>1, <2>3 DEF Under, Assignments
        <4> QED
          BY <4>1
      <3>2. Follows(Under(e, opp), opp, VarsOf(last_id) \ dom)
        BY <2>3 DEF Follows
      <3> QED
        BY <1>1, <2>3, <3>1, <3>2, MakePossibleRight
    <2> QED
      BY <2>4, <2>5
  <1>3. ASSUME NEW dom \in SUBSET Declared, NEW opp \in UNION {Moves(S) : S \in SUBSET (Declared \ dom)},
               NEW wanted \in BOOLEAN
        PROVE  /\ VarsOf(MakePossible(last_id, wanted, dom, opp)) \subseteq dom
               /\ \A e \in Assignments : Holds(last_id, Under(e, opp)) = wanted =>
                        Holds(MakePossible(last_id, wanted, dom, opp), e)
    <2>1. CASE wanted = TRUE
      BY <1>2, <2>1 DEF MayHold
    <2>2. CASE wanted = FALSE
      BY <1>2, <2>2 DEF MayFail
    <2> QED
      BY <2>1, <2>2
  <1> QED
    BY <1>3 DEF MakePossibleCovers

-----------------------------------------------------------------------------
(* Simplify does not change what a circuit means, with unit propagation    *)
(* and without, given nodes that hold (simplify.h).                        *)
THEOREM SimplifyAlways == IsNodeSet => (Spec => []SimplifyFaithful)
  <1> SUFFICES ASSUME IsNodeSet PROVE Spec => []SimplifyFaithful
    OBVIOUS
  <1>1. Init => IInv
    BY InitIInv
  <1>2. IInv /\ [Next]_vars => IInv'
    BY StepIInv
  <1>3. IInv => SimplifyFaithful
    BY SimplifyKeeps
  <1> QED
    BY <1>1, <1>2, <1>3, PTL DEF Spec

(* Reduce puts a partial assignment into a circuit and leaves nothing of   *)
(* it (reduce.h, transform.h).                                             *)
THEOREM ReduceAlways == IsNodeSet => (Spec => []ReduceFaithful)
  <1> SUFFICES ASSUME IsNodeSet PROVE Spec => []ReduceFaithful
    OBVIOUS
  <1>1. Init => IInv
    BY InitIInv
  <1>2. IInv /\ [Next]_vars => IInv'
    BY StepIInv
  <1>3. IInv => ReduceFaithful
    BY ReduceKeeps
  <1> QED
    BY <1>1, <1>2, <1>3, PTL DEF Spec

(* The evaluation from the inputs agrees with the one from the output and  *)
(* with what the circuit means (eval_up.h, eval.h).                        *)
THEOREM EvalUpAlways == IsNodeSet => (Spec => []EvalUpAgreesWithEval)
  <1> SUFFICES ASSUME IsNodeSet PROVE Spec => []EvalUpAgreesWithEval
    OBVIOUS
  <1>1. Init => IInv
    BY InitIInv
  <1>2. IInv /\ [Next]_vars => IInv'
    BY StepIInv
  <1>3. IInv => EvalUpAgreesWithEval
    BY EvalUpAgrees
  <1> QED
    BY <1>1, <1>2, <1>3, PTL DEF Spec

(* The cut is true under the moves and decides the circuit as they do; the *)
(* two ways to find it agree (find_cut.h, find_cut_no_rec.h).              *)
THEOREM CutAlways == IsNodeSet => (Spec => []CutDecides)
  <1> SUFFICES ASSUME IsNodeSet PROVE Spec => []CutDecides
    OBVIOUS
  <1>1. Init => IInv
    BY InitIInv
  <1>2. IInv /\ [Next]_vars => IInv'
    BY StepIInv
  <1>3. IInv => CutDecides
    BY CutRight
  <1> QED
    BY <1>1, <1>2, <1>3, PTL DEF Spec

(* MakePossible excludes no position in which the circuit has the value    *)
(* wanted (make_possible.h).                                               *)
THEOREM PossibleAlways == IsNodeSet => (Spec => []MakePossibleCovers)
  <1> SUFFICES ASSUME IsNodeSet PROVE Spec => []MakePossibleCovers
    OBVIOUS
  <1>1. Init => IInv
    BY InitIInv
  <1>2. IInv /\ [Next]_vars => IInv'
    BY StepIInv
  <1>3. IInv => MakePossibleCovers
    BY PossibleRight
  <1> QED
    BY <1>1, <1>2, <1>3, PTL DEF Spec
=============================================================================
