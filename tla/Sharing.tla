------------------------------- MODULE Sharing -------------------------------
(***************************************************************************)
(* Where the operands of the gates live: ImmutableVector                   *)
(* (immutable_vector.h), a handle on a block of the heap that all copies   *)
(* share and count, and Table (table.h), which gives equal vectors one     *)
(* index for ever.                                                         *)
(*                                                                         *)
(* A vector is sorted and free of duplicates, so its content is a set.     *)
(* The count is kept by hand: the blocks are as safe as every constructor, *)
(* assignment and destructor of a handle.                                  *)
(***************************************************************************)
EXTENDS Integers, FiniteSets

CONSTANTS
    Local,       \* the variables of the program that can hold a handle
    Address,     \* the blocks of the heap
    Null,        \* the null pointer
    Element,     \* what vectors are made of
    Hash,        \* the hash code of a content: it may collide
    MaxEntries   \* bound on the entries of the table

Slot(kind, n) == <<kind, n>>     \* in the table: s[n], or the key of entry n in m

ASSUME NullAssumption == Null \notin Address
ASSUME HashAssumption == Hash \in [SUBSET Element -> Int]
ASSUME EntriesAssumption == MaxEntries \in Nat
ASSUME LocalAssumption ==
    \A p \in Local : \A kind \in {"s", "m"} : \A n \in 0 .. MaxEntries : p # Slot(kind, n)

VARIABLES
    at,           \* the handles that exist: [data, size, hash] for some places
    heap,         \* the blocks in use: [count, elements] for some addresses
    entry_count,  \* Table: its entries
    answers       \* what lookup ever answered: pairs of a content and its index

vars == <<at, heap, entry_count, answers>>

-----------------------------------------------------------------------------
Place == Local \cup {Slot(kind, n) : kind \in {"s", "m"}, n \in 0 .. MaxEntries}
Content(p) == IF at[p].data \in DOMAIN heap THEN heap[at[p].data].elements ELSE {}

(* A vector that was moved from is fit for its destructor only; nothing    *)
(* else happens to one in this program, where moves come from temporaries. *)
Usable(p) == p \in DOMAIN at /\ at[p].size >= 0

With(f, x, v) == [y \in DOMAIN f \cup {x} |-> IF y = x THEN v ELSE f[y]]
Without(f, x) == [y \in DOMAIN f \ {x} |-> f[y]]

(* One more handle on a block, and decrease(): one handle less.            *)
\* plausible mistake: a copy is not counted
IncreaseNot(blocks, a) == blocks
Increase(blocks, a) ==
    IF a = Null THEN blocks ELSE [blocks EXCEPT ![a].count = @ + 1]
\* plausible mistake: the block goes with any of its handles
DecreaseAtOnce(blocks, a) == IF a = Null THEN blocks ELSE Without(blocks, a)
Decrease(blocks, a) ==
    IF a = Null THEN blocks
    ELSE IF blocks[a].count = 1 THEN Without(blocks, a)
    ELSE [blocks EXCEPT ![a].count = @ - 1]

Init ==
    /\ at = [p \in {} |-> Null]
    /\ heap = [a \in {} |-> Null]
    /\ entry_count = 0
    /\ answers = {}

-----------------------------------------------------------------------------
(* The constructor from a std::vector sorts its elements and drops         *)
(* duplicates; new returns any address that is not in use.                 *)
ConstructEmpty(p) ==
    /\ p \notin DOMAIN at
    /\ at' = With(at, p, [data |-> Null, size |-> 0, hash |-> Hash[{}]])
    /\ UNCHANGED <<heap, entry_count, answers>>
Construct(p, es, a) ==
    /\ p \notin DOMAIN at
    /\ a \notin DOMAIN heap
    /\ heap' = With(heap, a, [count |-> 1, elements |-> es])
    /\ at' = With(at, p, [data |-> a, size |-> Cardinality(es), hash |-> Hash[es]])
    /\ UNCHANGED <<entry_count, answers>>

(* The copy constructor; also what open_and and open_or return of an entry.*)
Copy(p, q) ==
    /\ p \notin DOMAIN at /\ Usable(q)
    /\ at' = With(at, p, at[q])
    /\ heap' = Increase(heap, at[q].data)
    /\ UNCHANGED <<entry_count, answers>>

(* The move constructor. *)
Move(p, q) ==
    /\ p \notin DOMAIN at /\ Usable(q)
    /\ at' = With(With(at, p, at[q]), q, [data |-> Null, size |-> -1, hash |-> -1])
    /\ UNCHANGED <<heap, entry_count, answers>>

(* operator=.  A vector assigned to itself would lose its block: the       *)
(* program assigns temporaries only, which may share the block, as in      *)
(* block = VarVector::conc(formula.free, block) without free variables.    *)
Assign(p, q) ==
    /\ p # q /\ Usable(p) /\ Usable(q)
    /\ at' = [at EXCEPT ![p] = at[q]]
    /\ heap' = Increase(Decrease(heap, at[p].data), at[q].data)
    /\ UNCHANGED <<entry_count, answers>>

(* The destructor. *)
Destroy(p) ==
    /\ p \in DOMAIN at
    /\ at' = Without(at, p)
    /\ heap' = Decrease(heap, at[p].data)
    /\ UNCHANGED <<entry_count, answers>>

(* equals compares the elements of blocks that are not the same.           *)
Equals(p, q) ==
    /\ at[p].size = at[q].size
    /\ at[p].data = at[q].data \/ Content(p) = Content(q)
\* plausible mistake: the hash code decides
FoundByHash(q) == {n \in 0 .. entry_count - 1 : at[Slot("m", n)].hash = at[q].hash}
Found(q) ==
    {n \in 0 .. entry_count - 1 : at[Slot("m", n)].hash = at[q].hash /\ Equals(Slot("m", n), q)}

(* Table::lookup.  A new entry is one handle in s and one in the key of m. *)
(* (That s grows copies its handles before it destroys the old ones.)      *)
LookupKnown(q, n) ==
    /\ Usable(q) /\ at[q].data # Null
    /\ n \in Found(q)
    /\ answers' = answers \cup {<<Content(q), n>>}
    /\ UNCHANGED <<at, heap, entry_count>>
LookupNew(q) ==
    /\ Usable(q) /\ at[q].data # Null
    /\ Found(q) = {} /\ entry_count < MaxEntries
    /\ at' = With(With(at, Slot("s", entry_count), at[q]), Slot("m", entry_count), at[q])
    /\ heap' = Increase(Increase(heap, at[q].data), at[q].data)
    /\ entry_count' = entry_count + 1
    /\ answers' = answers \cup {<<Content(q), entry_count>>}

Next ==
    \/ \E p \in Local : ConstructEmpty(p) \/ Destroy(p)
    \/ \E p \in Local, es \in SUBSET Element \ {{}}, a \in Address : Construct(p, es, a)
    \/ \E p \in Local, q \in DOMAIN at : Copy(p, q)
    \/ \E p, q \in Local : Move(p, q) \/ Assign(p, q)
    \/ \E q \in Local, n \in 0 .. MaxEntries : LookupKnown(q, n)
    \/ \E q \in Local : LookupNew(q)

Spec == Init /\ [][Next]_vars

-----------------------------------------------------------------------------
Sharers(a) == {p \in DOMAIN at : at[p].data = a}

(* A block is counted right: it has as many handles as its count says, so  *)
(* that it is freed with its last handle, not before and not after         *)
(* (immutable_vector.h:93-104), and no handle points to freed memory.      *)
CountsRight ==
    /\ \A a \in DOMAIN heap : heap[a].count > 0 /\ heap[a].count = Cardinality(Sharers(a))
    /\ \A p \in DOMAIN at : at[p].data \in DOMAIN heap \cup {Null}

(* Vectors are immutable: what happens to other handles, and to the heap,  *)
(* never changes the content of a handle, also when addresses are reused.  *)
ContentKept ==
    [][\A p \in DOMAIN at : p \in DOMAIN at' /\ at'[p] = at[p] => Content(p)' = Content(p)]_vars

(* What a handle says of its block is so: size and hash code are those of  *)
(* the content.                                                            *)
HandlesRight ==
    \A p \in DOMAIN at : at[p].size >= 0 =>
        /\ at[p].hash = Hash[Content(p)]
        /\ at[p].size = Cardinality(Content(p))

(* An index means for ever what it was first given for, and a content has  *)
(* one index only: gates are equal exactly when their IDs are.             *)
IndexFaithful ==
    /\ \A r \in answers : r[2] \in 0 .. entry_count - 1 /\ Content(Slot("s", r[2])) = r[1]
    /\ \A m, n \in 0 .. entry_count - 1 :
        Content(Slot("s", m)) = Content(Slot("s", n)) => m = n
=============================================================================
