---------------------------- MODULE SharingProofs ----------------------------
(***************************************************************************)
(* Blocks are counted right, vectors keep their content and the table's    *)
(* indices their meaning, for any number of handles, blocks and entries    *)
(* and any hash code.                                                      *)
(***************************************************************************)
EXTENDS Sharing, FiniteSetTheorems, TLAPS

SharersIn(f, a) == {p \in DOMAIN f : f[p].data = a}
ContentAt(blocks, a) == IF a \in DOMAIN blocks THEN blocks[a].elements ELSE {}

(* The counts of blocks are right for the handles of f. *)
Counted(f, blocks) ==
    /\ IsFiniteSet(DOMAIN f)
    /\ DOMAIN blocks \subseteq Address
    /\ \A a \in DOMAIN blocks :
        /\ blocks[a] \in [count : Nat \ {0}, elements : SUBSET Element]
        /\ blocks[a].count = Cardinality(SharersIn(f, a))
    /\ \A p \in DOMAIN f : f[p].data \in DOMAIN blocks \cup {Null}

(* What is in the table: entry n is in s and in m, with one content. *)
TableRight ==
    /\ entry_count \in Nat
    /\ \A n \in 0 .. entry_count - 1 :
        /\ Slot("s", n) \in DOMAIN at /\ Slot("m", n) \in DOMAIN at
        /\ at[Slot("s", n)] = at[Slot("m", n)]
        /\ at[Slot("s", n)].size >= 0
    /\ entry_count <= MaxEntries
    /\ \A p \in DOMAIN at :
        p \in Local \/ \E n \in 0 .. entry_count - 1 : p = Slot("s", n) \/ p = Slot("m", n)

Inv == Counted(at, heap) /\ HandlesRight /\ TableRight /\ IndexFaithful

(* What a step keeps: the content of every handle it leaves alone. *)
Keeps ==
    \A p \in DOMAIN at : p \in DOMAIN at' /\ at'[p] = at[p] =>
        ContentAt(heap', at[p].data) = ContentAt(heap, at[p].data)

-----------------------------------------------------------------------------
LEMMA SharersFinite ==
    ASSUME NEW f, NEW a, IsFiniteSet(DOMAIN f)
    PROVE  IsFiniteSet(SharersIn(f, a)) /\ Cardinality(SharersIn(f, a)) \in Nat
<1>1. SharersIn(f, a) \in SUBSET DOMAIN f
    BY DEF SharersIn
<1> QED
    BY <1>1, FS_Subset, FS_CardinalityType

(* A new handle on a known block, with the block's count increased. *)
LEMMA HandleAdded ==
    ASSUME NEW f, NEW blocks, NEW p, NEW h, Counted(f, blocks),
           p \notin DOMAIN f, h.data \in DOMAIN blocks \cup {Null}
    PROVE  /\ Counted(With(f, p, h), Increase(blocks, h.data))
           /\ \A a : ContentAt(Increase(blocks, h.data), a) = ContentAt(blocks, a)
<1> DEFINE g == With(f, p, h)
           new == Increase(blocks, h.data)
<1>1. DOMAIN g = DOMAIN f \cup {p} /\ g[p] = h /\ \A q \in DOMAIN f : g[q] = f[q]
    BY DEF With
<1>2. IsFiniteSet(DOMAIN g)
    BY <1>1, FS_AddElement DEF Counted
<1>3. /\ DOMAIN new = DOMAIN blocks
      /\ \A a \in DOMAIN blocks :
            /\ new[a] \in [count : Nat \ {0}, elements : SUBSET Element]
            /\ new[a].elements = blocks[a].elements
            /\ new[a].count = IF a = h.data THEN blocks[a].count + 1 ELSE blocks[a].count
    <2>1. CASE h.data = Null
        BY <2>1, NullAssumption DEF Increase, Counted
    <2>2. CASE h.data # Null
        BY <2>2 DEF Increase, Counted
    <2> QED
        BY <2>1, <2>2
<1>4. ASSUME NEW a \in DOMAIN blocks
      PROVE  new[a].count = Cardinality(SharersIn(g, a))
    <2>1. CASE a = h.data
        <3>1. SharersIn(g, a) = SharersIn(f, a) \cup {p} /\ p \notin SharersIn(f, a)
            BY <2>1, <1>1 DEF SharersIn
        <3>2. IsFiniteSet(SharersIn(f, a))
            BY SharersFinite DEF Counted
        <3>3. Cardinality(SharersIn(g, a)) = Cardinality(SharersIn(f, a)) + 1
            BY <3>1, <3>2, FS_AddElement
        <3> QED
            BY <2>1, <1>3, <3>3 DEF Counted
    <2>2. CASE a # h.data
        <3>1. SharersIn(g, a) = SharersIn(f, a)
            BY <2>2, <1>1 DEF SharersIn
        <3> QED
            BY <2>2, <1>3, <3>1 DEF Counted
    <2> QED
        BY <2>1, <2>2
<1>5. Counted(g, new)
    <2>1. \A q \in DOMAIN g : g[q].data \in DOMAIN new \cup {Null}
        BY <1>1, <1>3 DEF Counted
    <2> QED
        BY <1>2, <1>3, <1>4, <2>1 DEF Counted
<1>6. \A a : ContentAt(new, a) = ContentAt(blocks, a)
    BY <1>3 DEF ContentAt
<1> QED
    BY <1>5, <1>6

(* A handle gone, with the count of its block decreased. *)
LEMMA HandleGone ==
    ASSUME NEW f, NEW blocks, NEW p \in DOMAIN f, Counted(f, blocks)
    PROVE  /\ Counted(Without(f, p), Decrease(blocks, f[p].data))
           /\ \A q \in DOMAIN f \ {p} :
                ContentAt(Decrease(blocks, f[p].data), f[q].data) = ContentAt(blocks, f[q].data)
<1> DEFINE g == Without(f, p)
           b == f[p].data
           new == Decrease(blocks, b)
<1>1. DOMAIN g = DOMAIN f \ {p} /\ \A q \in DOMAIN g : g[q] = f[q]
    BY DEF Without
<1>2. IsFiniteSet(DOMAIN g)
    BY <1>1, FS_RemoveElement DEF Counted
<1>3. ASSUME NEW a
      PROVE  /\ IsFiniteSet(SharersIn(f, a))
             /\ a # b => SharersIn(g, a) = SharersIn(f, a)
             /\ a = b => Cardinality(SharersIn(g, a)) = Cardinality(SharersIn(f, a)) - 1
    <2>1. IsFiniteSet(SharersIn(f, a))
        BY SharersFinite DEF Counted
    <2>2. a # b => SharersIn(g, a) = SharersIn(f, a)
        BY <1>1 DEF SharersIn
    <2>3. SharersIn(g, b) = SharersIn(f, b) \ {p} /\ p \in SharersIn(f, b)
        BY <1>1 DEF SharersIn
    <2> QED
        BY <2>1, <2>2, <2>3, FS_RemoveElement
<1>4. CASE b = Null
    <2>1. new = blocks
        BY <1>4 DEF Decrease
    <2>2. \A a \in DOMAIN blocks : a # b
        BY <1>4, NullAssumption DEF Counted
    <2>3. \A a \in DOMAIN blocks : blocks[a].count = Cardinality(SharersIn(g, a))
        BY <2>2, <1>3 DEF Counted
    <2>4. Counted(g, blocks)
        BY <1>1, <1>2, <2>3 DEF Counted
    <2> QED
        BY <2>1, <2>4
<1>5. CASE b # Null /\ blocks[b].count = 1
    <2>1. b \in DOMAIN blocks
        BY <1>5 DEF Counted
    <2>2. new = Without(blocks, b)
        BY <1>5 DEF Decrease
    <2>3. DOMAIN new = DOMAIN blocks \ {b} /\ \A a \in DOMAIN new : new[a] = blocks[a]
        BY <2>2 DEF Without
    <2>4. \A q \in DOMAIN f \ {p} : f[q].data # b
        <3>1. Cardinality(SharersIn(g, b)) = 0
            BY <1>3, <2>1, <1>5 DEF Counted
        <3>2. IsFiniteSet(SharersIn(g, b))
            BY <1>2, SharersFinite
        <3>3. SharersIn(g, b) = {}
            BY <3>1, <3>2, FS_EmptySet
        <3> QED
            BY <3>3, <1>1 DEF SharersIn
    <2>5. \A a \in DOMAIN new : new[a].count = Cardinality(SharersIn(g, a))
        BY <1>3, <2>3 DEF Counted
    <2>6. Counted(g, new)
        <3>1. \A q \in DOMAIN g : g[q].data \in DOMAIN new \cup {Null}
            BY <1>1, <2>3, <2>4 DEF Counted
        <3> QED
            BY <1>2, <2>3, <2>5, <3>1 DEF Counted
    <2>7. \A q \in DOMAIN f \ {p} : ContentAt(new, f[q].data) = ContentAt(blocks, f[q].data)
        BY <2>3, <2>4 DEF ContentAt
    <2> QED
        BY <2>6, <2>7
<1>6. CASE b # Null /\ blocks[b].count # 1
    <2>1. b \in DOMAIN blocks
        BY <1>6 DEF Counted
    <2>2. new = [blocks EXCEPT ![b].count = @ - 1]
        BY <1>6 DEF Decrease
    <2>3. blocks[b] \in [count : Nat \ {0}, elements : SUBSET Element]
        BY <2>1 DEF Counted
    <2>4. /\ DOMAIN new = DOMAIN blocks
          /\ \A a \in DOMAIN blocks :
                /\ new[a] \in [count : Nat \ {0}, elements : SUBSET Element]
                /\ new[a].elements = blocks[a].elements
                /\ new[a].count = IF a = b THEN blocks[a].count - 1 ELSE blocks[a].count
        BY <2>1, <2>2, <2>3, <1>6 DEF Counted
    <2>5. \A a \in DOMAIN new : new[a].count = Cardinality(SharersIn(g, a))
        BY <1>3, <2>4 DEF Counted
    <2>6. Counted(g, new)
        <3>1. \A q \in DOMAIN g : g[q].data \in DOMAIN new \cup {Null}
            BY <1>1, <2>4 DEF Counted
        <3> QED
            BY <1>2, <2>4, <2>5, <3>1 DEF Counted
    <2>7. \A a : ContentAt(new, a) = ContentAt(blocks, a)
        BY <2>4 DEF ContentAt
    <2> QED
        BY <2>6, <2>7
<1> QED
    BY <1>4, <1>5, <1>6

(* A new block with its only handle. *)
LEMMA BlockAdded ==
    ASSUME NEW f, NEW blocks, NEW p, NEW h, NEW a \in Address, NEW es \in SUBSET Element,
           Counted(f, blocks), p \notin DOMAIN f, a \notin DOMAIN blocks, h.data = a
    PROVE  LET new == With(blocks, a, [count |-> 1, elements |-> es])
           IN  /\ Counted(With(f, p, h), new)
               /\ \A q \in DOMAIN f : ContentAt(new, f[q].data) = ContentAt(blocks, f[q].data)
               /\ ContentAt(new, a) = es
<1> DEFINE g == With(f, p, h)
           new == With(blocks, a, [count |-> 1, elements |-> es])
<1>1. DOMAIN g = DOMAIN f \cup {p} /\ g[p] = h /\ \A q \in DOMAIN f : g[q] = f[q]
    BY DEF With
<1>2. /\ DOMAIN new = DOMAIN blocks \cup {a}
      /\ new[a] = [count |-> 1, elements |-> es]
      /\ \A c \in DOMAIN blocks : new[c] = blocks[c]
    BY DEF With
<1>3. \A q \in DOMAIN f : f[q].data # a
    BY NullAssumption DEF Counted
<1>4. IsFiniteSet(DOMAIN g)
    BY <1>1, FS_AddElement DEF Counted
<1>5. SharersIn(g, a) = {p} /\ \A c \in DOMAIN blocks : SharersIn(g, c) = SharersIn(f, c)
    BY <1>1, <1>3 DEF SharersIn
<1>6. \A c \in DOMAIN new :
        /\ new[c] \in [count : Nat \ {0}, elements : SUBSET Element]
        /\ new[c].count = Cardinality(SharersIn(g, c))
    BY <1>2, <1>5, FS_Singleton DEF Counted
<1>7. \A q \in DOMAIN g : g[q].data \in DOMAIN new \cup {Null}
    BY <1>1, <1>2 DEF Counted
<1>8. Counted(g, new)
    BY <1>2, <1>4, <1>6, <1>7 DEF Counted
<1>9. /\ \A q \in DOMAIN f : ContentAt(new, f[q].data) = ContentAt(blocks, f[q].data)
      /\ ContentAt(new, a) = es
    BY <1>2, <1>3 DEF ContentAt
<1> QED
    BY <1>8, <1>9

-----------------------------------------------------------------------------
LEMMA SlotsApart ==
    /\ \A p \in Local, n \in 0 .. MaxEntries : p # Slot("s", n) /\ p # Slot("m", n)
    /\ \A m, n : Slot("s", m) # Slot("m", n)
    /\ \A k : \A m, n : Slot(k, m) = Slot(k, n) => m = n
<1>1. \A p \in Local, n \in 0 .. MaxEntries : p # Slot("s", n) /\ p # Slot("m", n)
    BY LocalAssumption DEF LocalAssumption
<1>2. \A m, n : Slot("s", m) # Slot("m", n)
    BY DEF Slot
<1>3. \A k : \A m, n : Slot(k, m) = Slot(k, n) => m = n
    BY DEF Slot
<1> QED
    BY <1>1, <1>2, <1>3

(* A step that only moves handles of local variables leaves the table, and *)
(* what is known of its entries, as it was.                                *)
LEMMA TableKept ==
    ASSUME Inv, Keeps, UNCHANGED <<entry_count, answers>>,
           \A p \in DOMAIN at \ Local : p \in DOMAIN at' /\ at'[p] = at[p],
           DOMAIN at' \ DOMAIN at \subseteq Local
    PROVE  TableRight' /\ IndexFaithful'
<1>1. entry_count \in Nat /\ MaxEntries \in Nat /\ entry_count <= MaxEntries
    BY EntriesAssumption DEF EntriesAssumption, Inv, TableRight
<1>2. ASSUME NEW n \in 0 .. entry_count - 1, NEW k \in {"s", "m"}
      PROVE  /\ Slot(k, n) \in DOMAIN at /\ Slot(k, n) \in DOMAIN at'
             /\ at'[Slot(k, n)] = at[Slot(k, n)]
             /\ ContentAt(heap', at'[Slot(k, n)].data) = ContentAt(heap, at[Slot(k, n)].data)
    <2>1. n \in 0 .. MaxEntries
        BY <1>1
    <2>2. Slot(k, n) \notin Local
        BY <2>1, SlotsApart
    <2>3. Slot(k, n) \in DOMAIN at
        BY DEF Inv, TableRight
    <2> QED
        BY <2>2, <2>3 DEF Keeps
<1>3. TableRight'
    <2>1. \A p \in DOMAIN at' :
            p \in Local \/ \E n \in 0 .. entry_count - 1 : p = Slot("s", n) \/ p = Slot("m", n)
        BY DEF Inv, TableRight
    <2> QED
        BY <1>2, <2>1 DEF Inv, TableRight
<1>4. \A n \in 0 .. entry_count - 1 : Content(Slot("s", n))' = Content(Slot("s", n))
    BY <1>2 DEF Content, ContentAt
<1>5. IndexFaithful'
    BY <1>4 DEF Inv, IndexFaithful
<1> QED
    BY <1>3, <1>5

(* The handles of a step are right when the new ones are.                  *)
LEMMA HandlesKept ==
    ASSUME Inv, Keeps,
           \A p \in DOMAIN at' :
                \/ p \in DOMAIN at /\ at'[p] = at[p]
                \/ at'[p].size >= 0 =>
                        /\ at'[p].hash = Hash[ContentAt(heap', at'[p].data)]
                        /\ at'[p].size = Cardinality(ContentAt(heap', at'[p].data))
    PROVE  HandlesRight'
BY DEF Inv, HandlesRight, Keeps, Content, ContentAt

(* A copy of a right handle is right, wherever its content is kept. *)
LEMMA CopyRight ==
    ASSUME Inv, NEW q \in DOMAIN at, at[q].size >= 0,
           ContentAt(heap', at[q].data) = ContentAt(heap, at[q].data)
    PROVE  /\ at[q].hash = Hash[ContentAt(heap', at[q].data)]
           /\ at[q].size = Cardinality(ContentAt(heap', at[q].data))
BY DEF Inv, HandlesRight, Content, ContentAt

LEMMA ConstructEmptyStep ==
    ASSUME Inv, NEW p \in Local, ConstructEmpty(p)
    PROVE  Inv' /\ Keeps
<1> DEFINE h == [data |-> Null, size |-> 0, hash |-> Hash[{}]]
<1>1. p \notin DOMAIN at /\ at' = With(at, p, h) /\ UNCHANGED <<heap, entry_count, answers>>
    BY DEF ConstructEmpty
<1>2. DOMAIN at' = DOMAIN at \cup {p} /\ at'[p] = h /\ \A q \in DOMAIN at : at'[q] = at[q]
    BY <1>1 DEF With
<1>3. Counted(at', heap')
    <2>1. Counted(With(at, p, h), Increase(heap, h.data))
        BY <1>1, HandleAdded DEF Inv
    <2>2. Increase(heap, h.data) = heap
        BY DEF Increase
    <2> QED
        BY <1>1, <2>1, <2>2
<1>4. Keeps
    BY <1>1 DEF Keeps
<1>5. ContentAt(heap', Null) = {}
    BY <1>1, NullAssumption DEF Inv, Counted, ContentAt, NullAssumption
<1>6. HandlesRight'
    BY <1>2, <1>4, <1>5, HandlesKept, FS_EmptySet
<1>7. TableRight' /\ IndexFaithful'
    BY <1>1, <1>2, <1>4, TableKept
<1> QED
    BY <1>3, <1>4, <1>6, <1>7 DEF Inv

LEMMA ConstructStep ==
    ASSUME Inv, NEW p \in Local, NEW es \in SUBSET Element \ {{}}, NEW a \in Address,
           Construct(p, es, a)
    PROVE  Inv' /\ Keeps
<1> DEFINE h == [data |-> a, size |-> Cardinality(es), hash |-> Hash[es]]
<1>1. /\ p \notin DOMAIN at /\ a \notin DOMAIN heap
      /\ at' = With(at, p, h) /\ heap' = With(heap, a, [count |-> 1, elements |-> es])
      /\ UNCHANGED <<entry_count, answers>>
    BY DEF Construct
<1>2. DOMAIN at' = DOMAIN at \cup {p} /\ at'[p] = h /\ \A q \in DOMAIN at : at'[q] = at[q]
    BY <1>1 DEF With
<1>3. /\ Counted(at', heap')
      /\ \A q \in DOMAIN at : ContentAt(heap', at[q].data) = ContentAt(heap, at[q].data)
      /\ ContentAt(heap', a) = es
    BY <1>1, BlockAdded DEF Inv
<1>4. Keeps
    BY <1>3 DEF Keeps
<1>5. HandlesRight'
    BY <1>2, <1>3, <1>4, HandlesKept
<1>6. TableRight' /\ IndexFaithful'
    BY <1>1, <1>2, <1>4, TableKept
<1> QED
    BY <1>3, <1>4, <1>5, <1>6 DEF Inv

LEMMA CopyStep ==
    ASSUME Inv, NEW p \in Local, NEW q \in DOMAIN at, Copy(p, q)
    PROVE  Inv' /\ Keeps
<1>1. /\ p \notin DOMAIN at /\ at[q].size >= 0
      /\ at' = With(at, p, at[q]) /\ heap' = Increase(heap, at[q].data)
      /\ UNCHANGED <<entry_count, answers>>
    BY DEF Copy, Usable
<1>2. /\ DOMAIN at' = DOMAIN at \cup {p} /\ at'[p] = at[q]
      /\ \A x \in DOMAIN at : at'[x] = at[x]
    BY <1>1 DEF With
<1>3. Counted(at', heap') /\ \A b : ContentAt(heap', b) = ContentAt(heap, b)
    <2>1. at[q].data \in DOMAIN heap \cup {Null}
        BY DEF Inv, Counted
    <2> QED
        BY <1>1, <2>1, HandleAdded DEF Inv
<1>4. Keeps
    BY <1>3 DEF Keeps
<1>5. HandlesRight'
    BY <1>1, <1>2, <1>3, <1>4, HandlesKept, CopyRight
<1>6. TableRight' /\ IndexFaithful'
    BY <1>1, <1>2, <1>4, TableKept
<1> QED
    BY <1>3, <1>4, <1>5, <1>6 DEF Inv

LEMMA DestroyStep ==
    ASSUME Inv, NEW p \in Local, Destroy(p)
    PROVE  Inv' /\ Keeps
<1>1. /\ p \in DOMAIN at
      /\ at' = Without(at, p) /\ heap' = Decrease(heap, at[p].data)
      /\ UNCHANGED <<entry_count, answers>>
    BY DEF Destroy
<1>2. DOMAIN at' = DOMAIN at \ {p} /\ \A x \in DOMAIN at' : at'[x] = at[x]
    BY <1>1 DEF Without
<1>3. /\ Counted(at', heap')
      /\ \A x \in DOMAIN at \ {p} : ContentAt(heap', at[x].data) = ContentAt(heap, at[x].data)
    BY <1>1, HandleGone DEF Inv
<1>4. Keeps
    BY <1>2, <1>3 DEF Keeps
<1>5. HandlesRight'
    BY <1>2, <1>4, HandlesKept
<1>6. TableRight' /\ IndexFaithful'
    BY <1>1, <1>2, <1>4, TableKept
<1> QED
    BY <1>3, <1>4, <1>5, <1>6 DEF Inv

LEMMA MoveStep ==
    ASSUME Inv, NEW p \in Local, NEW q \in Local, Move(p, q)
    PROVE  Inv' /\ Keeps
<1> DEFINE gone == [data |-> Null, size |-> -1, hash |-> -1]
<1>1. /\ p \notin DOMAIN at /\ q \in DOMAIN at /\ p # q /\ at[q].size >= 0
      /\ at' = With(With(at, p, at[q]), q, gone)
      /\ UNCHANGED <<heap, entry_count, answers>>
    BY DEF Move, Usable
<1>2. /\ DOMAIN at' = DOMAIN at \cup {p}
      /\ at'[p] = at[q] /\ at'[q] = gone
      /\ \A x \in DOMAIN at \ {q} : at'[x] = at[x]
    BY <1>1 DEF With
<1>3. ASSUME NEW a \in DOMAIN heap
      PROVE  Cardinality(SharersIn(at', a)) = Cardinality(SharersIn(at, a))
    <2>1. a # Null
        BY NullAssumption DEF Inv, Counted
    <2>2. IsFiniteSet(SharersIn(at, a)) /\ Cardinality(SharersIn(at, a)) \in Nat
        BY SharersFinite DEF Inv, Counted
    <2>3. CASE at[q].data = a
        <3>1. /\ SharersIn(at', a) = (SharersIn(at, a) \ {q}) \cup {p}
              /\ q \in SharersIn(at, a) /\ p \notin SharersIn(at, a) \ {q}
            BY <1>1, <1>2, <2>1, <2>3 DEF SharersIn
        <3>2. /\ IsFiniteSet(SharersIn(at, a) \ {q})
              /\ Cardinality(SharersIn(at, a) \ {q}) = Cardinality(SharersIn(at, a)) - 1
            BY <2>2, <3>1, FS_RemoveElement
        <3>3. Cardinality(SharersIn(at', a)) = Cardinality(SharersIn(at, a) \ {q}) + 1
            BY <3>1, <3>2, FS_AddElement
        <3> QED
            BY <2>2, <3>2, <3>3
    <2>4. CASE at[q].data # a
        <3>1. SharersIn(at', a) = SharersIn(at, a)
            BY <1>1, <1>2, <2>1, <2>4 DEF SharersIn
        <3> QED
            BY <3>1
    <2> QED
        BY <2>3, <2>4
<1>4. Counted(at', heap')
    <2>1. IsFiniteSet(DOMAIN at')
        BY <1>2, FS_AddElement DEF Inv, Counted
    <2>2. \A x \in DOMAIN at' : at'[x].data \in DOMAIN heap \cup {Null}
        BY <1>1, <1>2 DEF Inv, Counted
    <2> QED
        BY <1>1, <1>3, <2>1, <2>2 DEF Inv, Counted
<1>5. Keeps
    BY <1>1 DEF Keeps
<1>6. HandlesRight'
    <2>1. ~ (gone.size >= 0)
        OBVIOUS
    <2> HIDE DEF gone
    <2> QED
        BY <1>1, <1>2, <1>5, <2>1, HandlesKept, CopyRight
<1>7. TableRight' /\ IndexFaithful'
    BY <1>1, <1>2, <1>5, TableKept
<1> QED
    BY <1>4, <1>5, <1>6, <1>7 DEF Inv

LEMMA AssignStep ==
    ASSUME Inv, NEW p \in Local, NEW q \in Local, Assign(p, q)
    PROVE  Inv' /\ Keeps
<1> DEFINE g == Without(at, p)
           less == Decrease(heap, at[p].data)
<1>1. /\ p # q /\ p \in DOMAIN at /\ q \in DOMAIN at /\ at[q].size >= 0
      /\ at' = [at EXCEPT ![p] = at[q]] /\ heap' = Increase(less, at[q].data)
      /\ UNCHANGED <<entry_count, answers>>
    BY DEF Assign, Usable
<1>2. /\ DOMAIN at' = DOMAIN at /\ at'[p] = at[q]
      /\ \A x \in DOMAIN at \ {p} : at'[x] = at[x]
    BY <1>1
<1>3. DOMAIN g = DOMAIN at \ {p} /\ \A x \in DOMAIN g : g[x] = at[x]
    BY DEF Without
<1>4. at' = With(g, p, at[q])
    <2>1. at' = [y \in DOMAIN at |-> IF y = p THEN at[q] ELSE at[y]]
        BY <1>1
    <2>2. With(g, p, at[q]) = [y \in DOMAIN at |-> IF y = p THEN at[q] ELSE at[y]]
        BY <1>1, <1>3 DEF With
    <2> QED
        BY <2>1, <2>2
<1>5. /\ Counted(g, less)
      /\ \A x \in DOMAIN at \ {p} : ContentAt(less, at[x].data) = ContentAt(heap, at[x].data)
    BY <1>1, HandleGone DEF Inv
<1>6. Counted(at', heap') /\ \A b : ContentAt(heap', b) = ContentAt(less, b)
    <2>1. p \notin DOMAIN g /\ at[q].data \in DOMAIN less \cup {Null}
        BY <1>1, <1>3, <1>5 DEF Counted
    <2>2. Counted(g, less)
        BY <1>5
    <2>3. /\ Counted(With(g, p, at[q]), Increase(less, at[q].data))
          /\ \A b : ContentAt(Increase(less, at[q].data), b) = ContentAt(less, b)
        BY <2>1, <2>2, HandleAdded
    <2> QED
        BY <1>1, <1>4, <2>3
<1>7. \A x \in DOMAIN at \ {p} : ContentAt(heap', at[x].data) = ContentAt(heap, at[x].data)
    BY <1>5, <1>6
<1>8. Keeps
    <2>1. ASSUME at'[p] = at[p]
          PROVE  ContentAt(heap', at[p].data) = ContentAt(heap, at[p].data)
        BY <1>1, <1>2, <1>7, <2>1
    <2> QED
        BY <1>7, <2>1 DEF Keeps
<1>9. HandlesRight'
    BY <1>1, <1>2, <1>7, <1>8, HandlesKept, CopyRight
<1>10. TableRight' /\ IndexFaithful'
    BY <1>1, <1>2, <1>8, TableKept
<1> QED
    BY <1>6, <1>8, <1>9, <1>10 DEF Inv

LEMMA LookupKnownStep ==
    ASSUME Inv, NEW q \in Local, NEW n \in 0 .. MaxEntries, LookupKnown(q, n)
    PROVE  Inv' /\ Keeps
<1>1. /\ n \in 0 .. entry_count - 1 /\ Equals(Slot("m", n), q)
      /\ answers' = answers \cup {<<Content(q), n>>} /\ UNCHANGED <<at, heap, entry_count>>
    BY DEF LookupKnown, Found
<1>2. Content(Slot("s", n)) = Content(q)
    <2>1. Content(Slot("m", n)) = Content(q)
        BY <1>1 DEF Equals, Content
    <2>2. at[Slot("s", n)] = at[Slot("m", n)]
        BY <1>1 DEF Inv, TableRight
    <2> QED
        BY <2>1, <2>2 DEF Content
<1>3. \A p : Content(p)' = Content(p)
    BY <1>1 DEF Content
<1>4. IndexFaithful'
    <2>1. \A r \in answers' :
            r[2] \in 0 .. entry_count - 1 /\ Content(Slot("s", r[2])) = r[1]
        BY <1>1, <1>2 DEF Inv, IndexFaithful
    <2> QED
        BY <1>1, <1>3, <2>1 DEF Inv, IndexFaithful
<1>5. Counted(at', heap') /\ TableRight' /\ HandlesRight'
    BY <1>1 DEF Inv, TableRight, HandlesRight, Content
<1> QED
    BY <1>1, <1>4, <1>5 DEF Inv, Keeps

LEMMA LookupNewStep ==
    ASSUME Inv, NEW q \in Local, LookupNew(q)
    PROVE  Inv' /\ Keeps
<1>0. PICK n : n = entry_count
    OBVIOUS
<1> DEFINE sn == Slot("s", n)
           mn == Slot("m", n)
           h == at[q]
           one == With(at, sn, h)
           two == Increase(heap, h.data)
<1>1. /\ q \in DOMAIN at /\ h.size >= 0 /\ Found(q) = {} /\ n < MaxEntries
      /\ at' = With(one, mn, h) /\ heap' = Increase(two, h.data)
      /\ n = entry_count /\ entry_count' = n + 1
      /\ answers' = answers \cup {<<Content(q), n>>}
    BY <1>0 DEF LookupNew, Usable
<1>2. n \in Nat /\ MaxEntries \in Nat
    BY <1>0, EntriesAssumption DEF EntriesAssumption, Inv, TableRight
<1>3. sn \notin DOMAIN at /\ mn \notin DOMAIN at /\ sn # mn
    <2>1. sn \notin Local /\ mn \notin Local
        BY <1>1, <1>2, SlotsApart
    <2>2. \A k \in 0 .. n - 1 : /\ sn # Slot("s", k) /\ sn # Slot("m", k)
                              /\ mn # Slot("s", k) /\ mn # Slot("m", k)
        BY <1>2, SlotsApart
    <2> QED
        BY <1>0, <2>1, <2>2, SlotsApart DEF Inv, TableRight
<1>4. /\ DOMAIN at' = DOMAIN at \cup {sn, mn}
      /\ at'[sn] = h /\ at'[mn] = h
      /\ \A x \in DOMAIN at : at'[x] = at[x]
    BY <1>1, <1>3 DEF With
<1>5. h.data \in DOMAIN heap \cup {Null}
    BY <1>1 DEF Inv, Counted
<1>6. Counted(one, two) /\ \A b : ContentAt(two, b) = ContentAt(heap, b)
    BY <1>3, <1>5, HandleAdded DEF Inv
<1>7. Counted(at', heap') /\ \A b : ContentAt(heap', b) = ContentAt(heap, b)
    <2>1. DOMAIN one = DOMAIN at \cup {sn} /\ one[sn] = h
        BY DEF With
    <2>2. mn \notin DOMAIN one /\ h.data \in DOMAIN two \cup {Null}
        BY <2>1, <1>3, <1>6 DEF Counted
    <2>3. PICK f, blocks, x, r : f = one /\ blocks = two /\ x = mn /\ r = h
        OBVIOUS
    <2>4. Counted(f, blocks) /\ x \notin DOMAIN f /\ r.data \in DOMAIN blocks \cup {Null}
        BY <1>6, <2>2, <2>3
    <2>5. Counted(With(f, x, r), Increase(blocks, r.data))
        BY <2>4, HandleAdded
    <2>6. \A b : ContentAt(Increase(blocks, r.data), b) = ContentAt(blocks, b)
        BY <2>4, <2>5, HandleAdded
    <2> QED
        BY <1>1, <1>6, <2>3, <2>5, <2>6
<1>8. Keeps
    BY <1>7 DEF Keeps
<1>9. HandlesRight'
    BY <1>1, <1>4, <1>7, <1>8, HandlesKept, CopyRight
<1>10. TableRight'
    <2>1. \A k \in 0 .. n - 1 :
            /\ Slot("s", k) \in DOMAIN at /\ Slot("m", k) \in DOMAIN at
            /\ at[Slot("s", k)] = at[Slot("m", k)] /\ at[Slot("s", k)].size >= 0
        BY <1>0 DEF Inv, TableRight
    <2>2. \A k \in 0 .. n : k = n \/ k \in 0 .. n - 1
        BY <1>2
    <2>3. \A k \in 0 .. n :
            /\ Slot("s", k) \in DOMAIN at' /\ Slot("m", k) \in DOMAIN at'
            /\ at'[Slot("s", k)] = at'[Slot("m", k)] /\ at'[Slot("s", k)].size >= 0
        BY <1>1, <1>4, <2>1, <2>2
    <2>4. \A p \in DOMAIN at' :
            p \in Local \/ \E k \in 0 .. n : p = Slot("s", k) \/ p = Slot("m", k)
        BY <1>0, <1>2, <1>4 DEF Inv, TableRight
    <2>5. entry_count' - 1 = n /\ entry_count' \in Nat /\ entry_count' <= MaxEntries
        BY <1>1, <1>2
    <2> QED
        BY <2>3, <2>4, <2>5 DEF TableRight
<1>11. \A p \in DOMAIN at : Content(p)' = Content(p)
    BY <1>4, <1>7 DEF Content, ContentAt
<1>12. Content(Slot("s", n))' = Content(q)
    <2>1. Content(sn)' = ContentAt(heap', at'[sn].data)
        BY <1>1 DEF Content, ContentAt
    <2>2. Content(q) = ContentAt(heap, h.data)
        BY DEF Content, ContentAt
    <2> QED
        BY <1>4, <1>7, <2>1, <2>2
<1>13. ASSUME NEW k \in 0 .. n - 1
       PROVE  Content(Slot("s", k))' = Content(Slot("s", k)) /\ Content(Slot("s", k)) # Content(q)
    <2>1. /\ Slot("s", k) \in DOMAIN at /\ Slot("m", k) \in DOMAIN at
          /\ at[Slot("s", k)] = at[Slot("m", k)] /\ at[Slot("s", k)].size >= 0
        BY <1>0 DEF Inv, TableRight
    <2>2. ASSUME Content(Slot("s", k)) = Content(q)
          PROVE  FALSE
        <3>1. Content(Slot("m", k)) = Content(q)
            BY <2>1, <2>2 DEF Content
        <3>2. at[Slot("m", k)].hash = at[q].hash /\ at[Slot("m", k)].size = at[q].size
            BY <1>1, <2>1, <3>1 DEF Inv, HandlesRight
        <3>3. k \in Found(q)
            BY <1>0, <3>1, <3>2 DEF Found, Equals
        <3> QED
            BY <1>1, <3>3
    <2> QED
        BY <1>11, <2>1, <2>2
<1>14. IndexFaithful'
    <2>1. entry_count' - 1 = n
        BY <1>1, <1>2
    <2>2. \A r \in answers' : r[2] \in 0 .. n /\ Content(Slot("s", r[2]))' = r[1]
        <3>1. \A r \in answers : r[2] \in 0 .. n - 1 /\ Content(Slot("s", r[2])) = r[1]
            BY <1>0 DEF Inv, IndexFaithful
        <3>2. ASSUME NEW r \in answers
              PROVE  r[2] \in 0 .. n /\ Content(Slot("s", r[2]))' = r[1]
            <4>1. r[2] \in 0 .. n - 1 /\ Content(Slot("s", r[2])) = r[1]
                BY <3>1
            <4>2. r[2] \in 0 .. n
                BY <1>2, <4>1
            <4> QED
                BY <1>13, <4>1, <4>2
        <3>3. n \in 0 .. n
            BY <1>2
        <3> QED
            BY <1>1, <1>12, <3>2, <3>3
    <2>3. \A j, k \in 0 .. n : Content(Slot("s", j))' = Content(Slot("s", k))' => j = k
        <3>1. \A j, k \in 0 .. n - 1 : Content(Slot("s", j)) = Content(Slot("s", k)) => j = k
            BY <1>0 DEF Inv, IndexFaithful
        <3>2. \A k \in 0 .. n : k = n \/ k \in 0 .. n - 1
            BY <1>2
        <3>3. ASSUME NEW j \in 0 .. n, NEW k \in 0 .. n,
                     Content(Slot("s", j))' = Content(Slot("s", k))'
              PROVE  j = k
            <4>1. CASE j \in 0 .. n - 1 /\ k \in 0 .. n - 1
                BY <1>13, <3>1, <3>3, <4>1
            <4>2. CASE j = n /\ k \in 0 .. n - 1
                BY <1>12, <1>13, <3>3, <4>2
            <4>3. CASE k = n /\ j \in 0 .. n - 1
                BY <1>12, <1>13, <3>3, <4>3
            <4> QED
                BY <3>2, <4>1, <4>2, <4>3
        <3> QED
            BY <3>3
    <2> QED
        BY <2>1, <2>2, <2>3 DEF IndexFaithful
<1> QED
    BY <1>7, <1>8, <1>9, <1>10, <1>14 DEF Inv

-----------------------------------------------------------------------------
LEMMA InvInit == Init => Inv
<1> SUFFICES ASSUME Init PROVE Inv
    OBVIOUS
<1>1. DOMAIN at = {} /\ DOMAIN heap = {} /\ entry_count = 0 /\ answers = {}
    BY DEF Init
<1>2. Counted(at, heap)
    BY <1>1, FS_EmptySet DEF Counted
<1>3. HandlesRight
    BY <1>1 DEF HandlesRight
<1>4. TableRight
    BY <1>1, EntriesAssumption DEF TableRight, EntriesAssumption
<1>5. IndexFaithful
    BY <1>1 DEF IndexFaithful
<1> QED
    BY <1>2, <1>3, <1>4, <1>5 DEF Inv

LEMMA InvStep == Inv /\ [Next]_vars => Inv' /\ Keeps
<1> SUFFICES ASSUME Inv, [Next]_vars PROVE Inv' /\ Keeps
    OBVIOUS
<1>1. CASE UNCHANGED vars
    BY <1>1 DEF vars, Inv, Keeps, Counted, SharersIn, HandlesRight, TableRight, IndexFaithful, Content
<1>2. CASE \E p \in Local : ConstructEmpty(p) \/ Destroy(p)
    BY <1>2, ConstructEmptyStep, DestroyStep
<1>3. CASE \E p \in Local, es \in SUBSET Element \ {{}}, a \in Address : Construct(p, es, a)
    BY <1>3, ConstructStep
<1>4. CASE \E p \in Local, q \in DOMAIN at : Copy(p, q)
    BY <1>4, CopyStep
<1>5. CASE \E p, q \in Local : Move(p, q) \/ Assign(p, q)
    BY <1>5, MoveStep, AssignStep
<1>6. CASE \E q \in Local, n \in 0 .. MaxEntries : LookupKnown(q, n)
    BY <1>6, LookupKnownStep
<1>7. CASE \E q \in Local : LookupNew(q)
    BY <1>7, LookupNewStep
<1> QED
    BY <1>1, <1>2, <1>3, <1>4, <1>5, <1>6, <1>7 DEF Next

LEMMA InvAlways == Spec => []Inv
<1>1. Inv /\ [Next]_vars => Inv'
    BY InvStep
<1> QED
    BY InvInit, <1>1, PTL DEF Spec

(* Every block has exactly as many handles as it counts and no handle      *)
(* points to freed memory (immutable_vector.h:93-104).                     *)
THEOREM BlocksCounted == Spec => []CountsRight
<1>1. ASSUME Inv
      PROVE  CountsRight
    <2>1. \A a \in DOMAIN heap : SharersIn(at, a) = Sharers(a)
        BY DEF Sharers, SharersIn
    <2>2. ASSUME NEW a \in DOMAIN heap
          PROVE  heap[a].count > 0 /\ heap[a].count = Cardinality(Sharers(a))
        <3>1. heap[a] \in [count : Nat \ {0}, elements : SUBSET Element]
            BY <1>1 DEF Inv, Counted
        <3>2. heap[a].count \in Nat \ {0}
            BY <3>1
        <3>3. heap[a].count = Cardinality(Sharers(a))
            BY <1>1, <2>1 DEF Inv, Counted
        <3> QED
            BY <3>2, <3>3
    <2> QED
        BY <1>1, <2>2 DEF Inv, Counted, CountsRight
<1> QED
    BY InvAlways, <1>1, PTL

(* Vectors are immutable, whatever happens to the vectors they share with. *)
THEOREM VectorsImmutable == Spec => ContentKept
<1>1. Inv /\ [Next]_vars =>
        [\A p \in DOMAIN at : p \in DOMAIN at' /\ at'[p] = at[p] => Content(p)' = Content(p)]_vars
    BY InvStep DEF Keeps, Content, ContentAt
<1> QED
    BY InvAlways, <1>1, PTL DEF Spec, ContentKept

(* Indices mean what they were given for, and equal contents have one      *)
(* index, also when hash codes collide (table.h:15-28).                    *)
THEOREM TableFaithful == Spec => []IndexFaithful
<1>1. Inv => IndexFaithful
    BY DEF Inv
<1> QED
    BY InvAlways, <1>1, PTL

(* The size and hash code a vector carries are those of its content.       *)
THEOREM VectorsRight == Spec => []HandlesRight
<1>1. Inv => HandlesRight
    BY DEF Inv
<1> QED
    BY InvAlways, <1>1, PTL
=============================================================================
