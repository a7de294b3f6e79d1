---------------------------- MODULE EvalUpProofs ----------------------------
(***************************************************************************)
(* EvalUp answers correctly, for every circuit and every sequence of       *)
(* constraints added and runs made.                                        *)
(***************************************************************************)
EXTENDS EvalUpCircuit, TLAPS

Pairs == Node \X BOOLEAN

(* Inside init everything the graph lacks is still to be looked at. *)
GraphInv ==
    /\ \A n \in seen : \A o \in Ops[n] : o \in Gate \cup Neg => o \in seen \cup pending
    /\ stage # "init" => pending = {}

(* Pending values are right, too. *)
RightInv ==
    \A e \in [Node -> BOOLEAN] :
        Respects(e) =>
            /\ \A n \in DOMAIN vals : vals[n] = e[n]
            /\ \A p \in todo : p[2] = e[p[1]]

(* What a value of an operand means for a gate or negation of the graph    *)
(* is known or pending, from the start of a run until init is called.      *)
Noticed(n) == n \in DOMAIN vals \/ \E v \in BOOLEAN : <<n, v>> \in todo
Live == stage = "run" \/ (stage = "idle" /\ was_run)
NoticedInv ==
    /\ stage # "run" => todo = {}
    /\ stage = "init" => ~ was_run
    /\ Live =>
        /\ \A m \in seen \cap Neg : \A o \in Ops[m] : o \in DOMAIN vals => Noticed(m)
        /\ \A g \in seen \cap Gate : \A o \in Ops[g] :
            /\ o \in DOMAIN vals /\ vals[o] = Deciding(g) => Noticed(g)
            /\ o \in DOMAIN vals /\ vals[o] = AllOf(g) /\ g \in may[AllOf(g)][o] => Noticed(g)

-----------------------------------------------------------------------------
(* The parts of a step that propagates the value v of a node n. *)
Propagates(n, v, to) ==
    /\ stage = "run" /\ <<n, v>> \in todo /\ n \notin DOMAIN vals
    /\ vals' = [k \in DOMAIN vals \cup {n} |-> IF k = n THEN v ELSE vals[k]]
    /\ todo' = (todo \ {<<n, v>>}) \cup PushAll(n, v) \cup PushMay(n, v)
    /\ to \in [Moving(n, v) -> Node]
    /\ \A g \in Moving(n, v) : to[g] \in Witnesses(g, n, v)
    /\ may' = Watch(n, v, to)
    /\ UNCHANGED <<stage, seen, pending, was_run, assumptions>>

(* A node popped a second time. *)
Drops(p) ==
    /\ stage = "run" /\ p \in todo /\ p[1] \in DOMAIN vals
    /\ todo' = todo \ {p}
    /\ UNCHANGED <<stage, seen, pending, may, was_run, assumptions, vals>>

(* Every step of Propagate is one of the two. *)
LEMMA PropagateCases ==
    ASSUME TypeOK, Propagate
    PROVE  \/ \E p \in todo : Drops(p)
           \/ \E n \in Node, v \in BOOLEAN : \E to \in [Moving(n, v) -> Node] : Propagates(n, v, to)
<1>1. PICK p \in todo :
        \/ /\ p[1] \in DOMAIN vals
           /\ todo' = todo \ {p}
           /\ UNCHANGED <<vals, may>>
        \/ /\ p[1] \notin DOMAIN vals
           /\ vals' = [n \in DOMAIN vals \cup {p[1]} |-> IF n = p[1] THEN p[2] ELSE vals[n]]
           /\ todo' = (todo \ {p}) \cup PushAll(p[1], p[2]) \cup PushMay(p[1], p[2])
           /\ \E to \in [Moving(p[1], p[2]) -> Node] :
                /\ \A g \in Moving(p[1], p[2]) : to[g] \in Witnesses(g, p[1], p[2])
                /\ may' = Watch(p[1], p[2], to)
    BY DEF Propagate
<1>2. p[1] \in Node /\ p[2] \in BOOLEAN /\ p = <<p[1], p[2]>>
    BY DEF TypeOK
<1>3. stage = "run" /\ UNCHANGED <<stage, seen, pending, was_run, assumptions>>
    BY DEF Propagate
<1>4. CASE p[1] \in DOMAIN vals
    BY <1>1, <1>3, <1>4 DEF Drops
<1>5. CASE p[1] \notin DOMAIN vals
    <2> DEFINE n == p[1]
               v == p[2]
    <2>1. PICK to \in [Moving(n, v) -> Node] :
            /\ \A g \in Moving(n, v) : to[g] \in Witnesses(g, n, v)
            /\ may' = Watch(n, v, to)
        BY <1>1, <1>5
    <2>2. Propagates(n, v, to)
        BY <1>1, <1>2, <1>3, <1>5, <2>1 DEF Propagates
    <2> QED
        BY <1>2, <2>1, <2>2
<1> QED
    BY <1>4, <1>5

(* What joins the stack are gates and negations of the graph.              *)
LEMMA PushesTyped ==
    ASSUME TypeOK, NEW n \in Node, NEW v \in BOOLEAN
    PROVE  /\ PushAll(n, v) \subseteq Pairs
           /\ PushMay(n, v) \subseteq Pairs
<1>1. seen \subseteq Node /\ may[v][n] \subseteq Node
    BY DEF TypeOK, Gate, Neg
<1>2. PushMay(n, v) \subseteq Pairs
    BY <1>1 DEF PushMay, Pairs
<1>3. {g \in seen \cap Gate : n \in Ops[g] /\ Deciding(g) = v} \X {v} \subseteq Pairs
    BY <1>1 DEF Pairs
<1>4. {m \in seen \cap Neg : n \in Ops[m]} \X {~ v} \subseteq Pairs
    <2>1. CASE v = TRUE
        BY <1>1, <2>1 DEF Pairs
    <2>2. CASE v = FALSE
        BY <1>1, <2>2 DEF Pairs
    <2> QED
        BY <2>1, <2>2
<1> QED
    BY <1>2, <1>3, <1>4 DEF PushAll

(* Moving a witness keeps the type of may.                                 *)
LEMMA WatchTyped ==
    ASSUME TypeOK, NEW n \in Node, NEW v \in BOOLEAN, NEW to
    PROVE  Watch(n, v, to) \in [BOOLEAN -> [Node -> SUBSET Gate]]
BY DEF TypeOK, Watch, Moving

(* The type invariant is inductive.                                        *)
LEMMA TypeStep ==
    ASSUME TypeOK, [Next]_vars
    PROVE  TypeOK'
<1>1. CASE StartInit
    BY <1>1 DEF TypeOK, StartInit, Consistent
<1>2. CASE InitNode
    <2>1. PICK n \in pending :
            \/ /\ n \in seen \/ n \notin Gate \cup Neg
               /\ pending' = pending \ {n}
               /\ UNCHANGED <<seen, may>>
            \/ /\ n \in Neg \ seen
               /\ pending' = (pending \ {n}) \cup Ops[n]
               /\ seen' = seen \cup {n}
               /\ UNCHANGED may
            \/ /\ n \in Gate \ seen
               /\ pending' = (pending \ {n}) \cup Ops[n]
               /\ seen' = seen \cup {n}
               /\ \E o \in Ops[n] : may' = [may EXCEPT ![AllOf(n)][o] = @ \cup {n}]
        BY <1>2 DEF InitNode
    <2>2. n \in Node /\ Ops[n] \subseteq Node
        BY OpsAssumption DEF TypeOK
    <2>3. UNCHANGED <<stage, was_run, assumptions, vals, todo>>
        BY <1>2 DEF InitNode
    <2>4. seen' \subseteq Gate \cup Neg /\ pending' \subseteq Node
        BY <2>1, <2>2 DEF TypeOK
    <2>5. may' \in [BOOLEAN -> [Node -> SUBSET Gate]]
        <3>1. CASE UNCHANGED may
            BY <3>1 DEF TypeOK
        <3>2. CASE n \in Gate /\ \E o \in Ops[n] : may' = [may EXCEPT ![AllOf(n)][o] = @ \cup {n}]
            <4>1. PICK o \in Ops[n] : may' = [may EXCEPT ![AllOf(n)][o] = @ \cup {n}]
                BY <3>2
            <4>2. o \in Node /\ AllOf(n) \in BOOLEAN
                BY <2>2 DEF AllOf
            <4>3. may[AllOf(n)] \in [Node -> SUBSET Gate]
                BY <4>2 DEF TypeOK
            <4>4. [may[AllOf(n)] EXCEPT ![o] = @ \cup {n}] \in [Node -> SUBSET Gate]
                BY <3>2, <4>2, <4>3
            <4> QED
                BY <4>1, <4>2, <4>4 DEF TypeOK
        <3> QED
            BY <2>1, <3>1, <3>2
    <2> QED
        BY <2>3, <2>4, <2>5 DEF TypeOK, Consistent
<1>3. CASE EndInit
    BY <1>3 DEF TypeOK, EndInit, Consistent
<1>4. CASE StartRun
    <2>1. PICK a \in Consistent :
            /\ assumptions' = a
            /\ todo' = (a \X {TRUE}) \cup ({Compl[l] : l \in a} \X {FALSE})
        BY <1>4 DEF StartRun
    <2>2. todo' \subseteq Node \X BOOLEAN
        BY <2>1, ComplAssumption DEF Consistent, Lit
    <2>3. DOMAIN vals' \subseteq Node /\ vals' \in [DOMAIN vals' -> BOOLEAN]
        BY <1>4 DEF StartRun, NoValues
    <2> QED
        BY <1>4, <2>1, <2>2, <2>3 DEF TypeOK, StartRun, Consistent
<1>5. CASE Propagate
    <2>1. CASE \E p \in todo : Drops(p)
        BY <2>1 DEF TypeOK, Drops, Consistent
    <2>2. ASSUME NEW n \in Node, NEW v \in BOOLEAN, NEW to \in [Moving(n, v) -> Node],
                 Propagates(n, v, to)
          PROVE  TypeOK'
        <3>1. DOMAIN vals' \subseteq Node /\ vals' \in [DOMAIN vals' -> BOOLEAN]
            BY <2>2 DEF Propagates, TypeOK
        <3>2. todo' \subseteq Node \X BOOLEAN
            BY <2>2, PushesTyped DEF Propagates, TypeOK, Pairs
        <3>3. may' \in [BOOLEAN -> [Node -> SUBSET Gate]]
            BY <2>2, WatchTyped DEF Propagates
        <3> QED
            BY <2>2, <3>1, <3>2, <3>3 DEF Propagates, TypeOK, Consistent
    <2> QED
        BY <1>5, <2>1, <2>2, PropagateCases
<1>6. CASE EndRun
    BY <1>6 DEF TypeOK, EndRun, Consistent
<1>7. CASE UNCHANGED vars
    BY <1>7 DEF TypeOK, vars, Consistent
<1> QED
    BY <1>1, <1>2, <1>3, <1>4, <1>5, <1>6, <1>7 DEF Next

-----------------------------------------------------------------------------
(* The graph is closed under operands but for what is still to be visited. *)
LEMMA GraphStep ==
    ASSUME TypeOK, GraphInv, [Next]_vars
    PROVE  GraphInv'
<1>1. CASE StartInit
    BY <1>1 DEF GraphInv, StartInit
<1>2. CASE InitNode
    <2>1. PICK n \in pending :
            \/ /\ n \in seen \/ n \notin Gate \cup Neg
               /\ pending' = pending \ {n}
               /\ seen' = seen
            \/ /\ n \notin seen
               /\ pending' = (pending \ {n}) \cup Ops[n]
               /\ seen' = seen \cup {n}
        BY <1>2 DEF InitNode
    <2>2. stage = "init" /\ stage' = stage
        BY <1>2 DEF InitNode
    <2> QED
        BY <2>1, <2>2 DEF GraphInv
<1>3. CASE EndInit
    BY <1>3 DEF GraphInv, EndInit
<1>4. CASE StartRun
    BY <1>4 DEF GraphInv, StartRun
<1>5. CASE Propagate
    BY <1>5 DEF GraphInv, Propagate
<1>6. CASE EndRun
    BY <1>6 DEF GraphInv, EndRun
<1>7. CASE UNCHANGED vars
    BY <1>7 DEF GraphInv, vars
<1> QED
    BY <1>1, <1>2, <1>3, <1>4, <1>5, <1>6, <1>7 DEF Next

-----------------------------------------------------------------------------
(* Where Watch leaves a gate: it was there and did not move, or it moved   *)
(* there.                                                                  *)
LEMMA WatchedThere ==
    ASSUME TypeOK, NEW n \in Node, NEW v \in BOOLEAN, NEW to \in [Moving(n, v) -> Node],
           NEW u \in BOOLEAN, NEW o \in Node, NEW g
    PROVE  g \in Watch(n, v, to)[u][o] <=>
              \/ g \in may[u][o] /\ ~ (u = v /\ o = n /\ g \in Moving(n, v))
              \/ u = v /\ o # n /\ g \in Moving(n, v) /\ to[g] = o
<1>1. CASE u = v
    BY <1>1 DEF Watch, TypeOK
<1>2. CASE u # v
    BY <1>2 DEF Watch, TypeOK
<1> QED
    BY <1>1, <1>2

(* Every gate keeps exactly one witness.                                   *)
LEMMA WatchStep ==
    ASSUME TypeOK, WatchedOnce, Watched, [Next]_vars
    PROVE  WatchedOnce' /\ Watched'
<1>1. CASE InitNode
    <2>1. PICK n \in pending :
            \/ UNCHANGED <<seen, may>>
            \/ n \in Neg \ seen /\ seen' = seen \cup {n} /\ UNCHANGED may
            \/ /\ n \in Gate \ seen
               /\ seen' = seen \cup {n}
               /\ \E o \in Ops[n] : may' = [may EXCEPT ![AllOf(n)][o] = @ \cup {n}]
        BY <1>1 DEF InitNode
    <2>2. n \in Node /\ Ops[n] \subseteq Node /\ AllOf(n) \in BOOLEAN
        BY OpsAssumption DEF TypeOK, AllOf
    <2>3. CASE UNCHANGED <<seen, may>>
        BY <2>3 DEF WatchedOnce, Watched
    <2>4. CASE n \in Neg \ seen /\ seen' = seen \cup {n} /\ UNCHANGED may
        BY <2>4 DEF WatchedOnce, Watched, Gate, Neg
    <2>5. CASE /\ n \in Gate \ seen
               /\ seen' = seen \cup {n}
               /\ \E o \in Ops[n] : may' = [may EXCEPT ![AllOf(n)][o] = @ \cup {n}]
        <3>1. PICK o \in Ops[n] : may' = [may EXCEPT ![AllOf(n)][o] = @ \cup {n}]
            BY <2>5
        <3>2. \A g \in Gate, v \in BOOLEAN, q \in Node :
                g \in may'[v][q] <=> g \in may[v][q] \/ (g = n /\ v = AllOf(n) /\ q = o)
            BY <2>2, <3>1 DEF TypeOK
        <3>3. \A v \in BOOLEAN, q \in Node : n \notin may[v][q]
            BY <2>5 DEF WatchedOnce
        <3>4. WatchedOnce'
            BY <2>2, <2>5, <3>1, <3>2, <3>3 DEF WatchedOnce
        <3>5. Watched'
            <4> SUFFICES ASSUME NEW g \in seen' \cap Gate
                         PROVE  \E q \in Ops[g] : g \in may'[AllOf(g)][q]
                BY DEF Watched, AllOf
            <4>1. g \in Node /\ Ops[g] \subseteq Node /\ AllOf(g) \in BOOLEAN
                BY OpsAssumption DEF Gate, AllOf
            <4>2. CASE g = n
                BY <2>2, <2>5, <3>1, <3>2, <4>1, <4>2
            <4>3. CASE g # n
                <5>1. PICK q \in Ops[g] : g \in may[AllOf(g)][q]
                    BY <2>5, <4>3 DEF Watched
                <5> QED
                    BY <3>2, <4>1, <5>1
            <4> QED
                BY <4>2, <4>3
        <3> QED
            BY <3>4, <3>5
    <2> QED
        BY <2>1, <2>3, <2>4, <2>5
<1>2. CASE Propagate
    <2>1. CASE \E p \in todo : Drops(p)
        BY <2>1 DEF Drops, WatchedOnce, Watched
    <2>2. ASSUME NEW n \in Node, NEW v \in BOOLEAN, NEW to \in [Moving(n, v) -> Node],
                 Propagates(n, v, to)
          PROVE  WatchedOnce' /\ Watched'
        <3>1. may' = Watch(n, v, to) /\ seen' = seen
            BY <2>2 DEF Propagates
        <3>2. \A g \in Moving(n, v) : g \in may[v][n] /\ g \in Gate
            BY DEF Moving, TypeOK
        <3>3. \A g \in Moving(n, v) :
                /\ to[g] \in Ops[g] /\ to[g] # n /\ to[g] \in Node
                /\ g \in seen /\ v = AllOf(g)
                /\ \A u \in BOOLEAN, q \in Node : g \in may[u][q] => u = v /\ q = n
            <4> SUFFICES ASSUME NEW g \in Moving(n, v)
                         PROVE  /\ to[g] \in Ops[g] /\ to[g] # n /\ to[g] \in Node
                                /\ g \in seen /\ v = AllOf(g)
                                /\ \A u \in BOOLEAN, q \in Node :
                                        g \in may[u][q] => u = v /\ q = n
                OBVIOUS
            <4>1. g \in may[v][n] /\ g \in Gate
                BY <3>2
            <4>2. g \in seen /\ v = AllOf(g) /\ \A q \in Node : g \in may[v][q] => q = n
                BY <4>1 DEF WatchedOnce
            <4>3. \A u \in BOOLEAN, q \in Node : g \in may[u][q] => u = v
                BY <4>1, <4>2 DEF WatchedOnce
            <4>4. to[g] \in Witnesses(g, n, v) /\ to[g] \in Node
                BY <2>2 DEF Propagates
            <4> QED
                BY <4>2, <4>3, <4>4 DEF Witnesses
        <3>4. WatchedOnce'
            <4> SUFFICES ASSUME NEW g \in Gate, NEW u \in BOOLEAN, NEW o \in Node,
                                g \in may'[u][o]
                         PROVE  /\ g \in seen /\ u = AllOf(g) /\ o \in Ops[g]
                                /\ \A q \in Node : g \in may'[u][q] => q = o
                BY <3>1 DEF WatchedOnce, AllOf
            <4>1. CASE g \in Moving(n, v)
                BY <3>1, <3>3, <4>1, WatchedThere
            <4>2. CASE g \notin Moving(n, v)
                <5>1. \A q \in Node : g \in may'[u][q] <=> g \in may[u][q]
                    BY <3>1, <4>2, WatchedThere
                <5> QED
                    BY <5>1 DEF WatchedOnce
            <4> QED
                BY <4>1, <4>2
        <3>5. Watched'
            <4> SUFFICES ASSUME NEW g \in seen \cap Gate
                         PROVE  \E q \in Ops[g] : g \in may'[AllOf(g)][q]
                BY <3>1 DEF Watched, AllOf
            <4>1. g \in Node /\ Ops[g] \subseteq Node /\ AllOf(g) \in BOOLEAN
                BY OpsAssumption DEF Gate, AllOf
            <4>2. CASE g \in Moving(n, v)
                BY <3>1, <3>3, <4>1, <4>2, WatchedThere
            <4>3. CASE g \notin Moving(n, v)
                <5>1. PICK q \in Ops[g] : g \in may[AllOf(g)][q]
                    BY DEF Watched
                <5> QED
                    BY <3>1, <4>1, <4>3, <5>1, WatchedThere
            <4> QED
                BY <4>2, <4>3
        <3> QED
            BY <3>4, <3>5
    <2> QED
        BY <1>2, <2>1, <2>2, PropagateCases
<1>3. CASE StartInit \/ EndInit \/ StartRun \/ EndRun \/ UNCHANGED vars
    BY <1>3 DEF WatchedOnce, Watched, StartInit, EndInit, StartRun, EndRun, vars
<1> QED
    BY <1>1, <1>2, <1>3 DEF Next

-----------------------------------------------------------------------------
(* What a right value passes on is right: a deciding operand, a negated    *)
(* operand, and, for a gate whose witness found no successor, all of them. *)
LEMMA PushesRight ==
    ASSUME TypeOK, WatchedOnce,
           NEW e \in [Node -> BOOLEAN], Respects(e),
           \A k \in DOMAIN vals : vals[k] = e[k],
           NEW n \in Node, NEW v \in BOOLEAN, e[n] = v
    PROVE  \A p \in PushAll(n, v) \cup PushMay(n, v) : p[2] = e[p[1]]
<1>1. ASSUME NEW g \in Gate, n \in Ops[g], Deciding(g) = v
      PROVE  e[g] = v
    <2>1. g \in Node /\ Kind[g] \in {"AND", "OR"}
        BY DEF Gate
    <2>2. CASE Kind[g] = "AND"
        <3>1. v = FALSE
            BY <1>1, <2>2 DEF Deciding
        <3>2. e[g] = (\A o \in Ops[g] : e[o])
            BY <2>2 DEF Respects
        <3>3. e[n] = FALSE
            BY <3>1
        <3> QED
            BY <1>1, <3>1, <3>2, <3>3
    <2>3. CASE Kind[g] = "OR"
        <3>1. v = TRUE
            BY <1>1, <2>3 DEF Deciding
        <3>2. e[g] = (\E o \in Ops[g] : e[o])
            BY <2>3 DEF Respects
        <3>3. e[n] = TRUE
            BY <3>1
        <3> QED
            BY <1>1, <3>1, <3>2, <3>3
    <2> QED
        BY <2>1, <2>2, <2>3
<1>2. ASSUME NEW m \in Neg, n \in Ops[m]
      PROVE  e[m] = ~ v
    <2>1. e[m] = ~ e[n]
        BY <1>2 DEF Respects
    <2> QED
        BY <2>1
<1>3. ASSUME NEW g \in may[v][n] \ Moving(n, v)
      PROVE  e[g] = v
    <2>1. g \in Gate
        BY DEF TypeOK
    <2>2. v = AllOf(g) /\ n \in Ops[g]
        BY <2>1 DEF WatchedOnce
    <2>3. \A o \in Ops[g] : e[o] = v
        BY <1>3 DEF Moving, Witnesses
    <2>4. g \in Node /\ Kind[g] \in {"AND", "OR"}
        BY <2>1 DEF Gate
    <2>5. CASE Kind[g] = "AND"
        <3>1. v = TRUE
            BY <2>2, <2>5 DEF AllOf
        <3>2. e[g] = (\A o \in Ops[g] : e[o])
            BY <2>1, <2>5 DEF Respects
        <3>3. \A o \in Ops[g] : e[o]
            BY <2>3, <3>1
        <3> QED
            BY <3>1, <3>2, <3>3
    <2>6. CASE Kind[g] = "OR"
        <3>1. v = FALSE
            BY <2>2, <2>6 DEF AllOf
        <3>2. e[g] = (\E o \in Ops[g] : e[o])
            BY <2>1, <2>6 DEF Respects
        <3>3. ~ \E o \in Ops[g] : e[o]
            BY <2>3, <3>1
        <3> QED
            BY <2>4, <3>1, <3>2, <3>3
    <2> QED
        BY <2>4, <2>5, <2>6
<1>4. ASSUME NEW p \in PushAll(n, v)
      PROVE  p[2] = e[p[1]]
    <2>1. CASE \E g \in seen \cap Gate : n \in Ops[g] /\ Deciding(g) = v /\ p = <<g, v>>
        BY <1>1, <2>1
    <2>2. CASE \E m \in seen \cap Neg : n \in Ops[m] /\ p = <<m, ~ v>>
        <3>1. PICK m \in seen \cap Neg : n \in Ops[m] /\ p = <<m, ~ v>>
            BY <2>2
        <3>2. p[1] = m /\ p[2] = ~ v
            BY <3>1
        <3>3. e[m] = ~ v
            BY <1>2, <3>1
        <3> QED
            BY <3>2, <3>3
    <2> QED
        BY <1>4, <2>1, <2>2 DEF PushAll
<1>5. ASSUME NEW p \in PushMay(n, v)
      PROVE  p[2] = e[p[1]]
    BY <1>3, <1>5 DEF PushMay
<1> QED
    BY <1>4, <1>5

(* Values and pending values stay right.                                   *)
LEMMA RightStep ==
    ASSUME TypeOK, WatchedOnce, RightInv, [Next]_vars
    PROVE  RightInv'
<1>1. CASE StartRun
    <2>1. PICK a \in Consistent :
            /\ assumptions' = a
            /\ todo' = (a \X {TRUE}) \cup ({Compl[l] : l \in a} \X {FALSE})
        BY <1>1 DEF StartRun
    <2>2. vals' = NoValues
        BY <1>1 DEF StartRun
    <2>3. SUFFICES ASSUME NEW e \in [Node -> BOOLEAN], Respects(e)'
                   PROVE  \A p \in todo' : p[2] = e[p[1]]
        BY <2>2 DEF RightInv, NoValues
    <2>4. \A l \in a : l \in Lit /\ e[l] /\ e[Compl[l]] = ~ e[l]
        BY <2>1, <2>3 DEF Respects, Consistent
    <2>5. \A l \in a : e[l] = TRUE /\ e[Compl[l]] = FALSE
        <3>1. \A l \in Lit : l \in Node /\ Compl[l] \in Node
            BY ComplAssumption DEF Lit
        <3> QED
            BY <2>4, <3>1
    <2> QED
        BY <2>1, <2>5
<1>2. CASE Propagate
    <2>1. CASE \E p \in todo : Drops(p)
        <3>1. UNCHANGED <<assumptions, vals>> /\ todo' \subseteq todo
            BY <2>1 DEF Drops
        <3>2. \A e : Respects(e)' <=> Respects(e)
            BY <3>1 DEF Respects
        <3> QED
            BY <3>1, <3>2 DEF RightInv
    <2>2. ASSUME NEW n \in Node, NEW v \in BOOLEAN, NEW to \in [Moving(n, v) -> Node],
                 Propagates(n, v, to)
          PROVE  RightInv'
        <3>1. SUFFICES ASSUME NEW e \in [Node -> BOOLEAN], Respects(e)
                       PROVE  /\ \A k \in DOMAIN vals' : vals'[k] = e[k]
                              /\ \A p \in todo' : p[2] = e[p[1]]
            BY <2>2 DEF RightInv, Propagates, Respects
        <3>2. /\ \A k \in DOMAIN vals : vals[k] = e[k]
              /\ \A p \in todo : p[2] = e[p[1]]
            BY <3>1 DEF RightInv
        <3>3. e[n] = v
            BY <2>2, <3>2 DEF Propagates
        <3>4. \A p \in PushAll(n, v) \cup PushMay(n, v) : p[2] = e[p[1]]
            BY <3>1, <3>2, <3>3, PushesRight
        <3>5. \A k \in DOMAIN vals' : vals'[k] = e[k]
            BY <2>2, <3>2, <3>3 DEF Propagates
        <3> QED
            BY <2>2, <3>2, <3>4, <3>5 DEF Propagates
    <2> QED
        BY <1>2, <2>1, <2>2, PropagateCases
<1>3. CASE StartInit \/ InitNode \/ EndInit \/ EndRun \/ UNCHANGED vars
    <2>1. UNCHANGED <<assumptions, vals, todo>>
        BY <1>3 DEF StartInit, InitNode, EndInit, EndRun, vars
    <2>2. \A e : Respects(e)' <=> Respects(e)
        BY <2>1 DEF Respects
    <2> QED
        BY <2>1, <2>2 DEF RightInv
<1> QED
    BY <1>1, <1>2, <1>3 DEF Next

-----------------------------------------------------------------------------
(* Nothing a value means for its readers is forgotten.                     *)
LEMMA NoticedStep ==
    ASSUME TypeOK, NoticedInv, [Next]_vars
    PROVE  NoticedInv'
<1>1. CASE StartInit
    BY <1>1 DEF NoticedInv, Live, StartInit
<1>2. CASE InitNode
    BY <1>2 DEF NoticedInv, Live, InitNode
<1>3. CASE EndInit
    BY <1>3 DEF NoticedInv, Live, EndInit
<1>4. CASE StartRun
    BY <1>4 DEF NoticedInv, StartRun, NoValues
<1>5. CASE Propagate
    <2>1. CASE \E p \in todo : Drops(p)
        <3>1. PICK p \in todo : Drops(p)
            BY <2>1
        <3>2. ASSUME NEW k, Noticed(k)
              PROVE  Noticed(k)'
            BY <3>1, <3>2 DEF Drops, Noticed
        <3>3. stage = "run" /\ UNCHANGED <<stage, seen, may, was_run, vals>>
            BY <3>1 DEF Drops
        <3>4. Live
            BY <3>3 DEF Live
        <3> QED
            BY <3>2, <3>3, <3>4 DEF NoticedInv, Live, Deciding, AllOf
    <2>2. ASSUME NEW n \in Node, NEW v \in BOOLEAN, NEW to \in [Moving(n, v) -> Node],
                 Propagates(n, v, to)
          PROVE  NoticedInv'
        <3>1. /\ stage = "run" /\ UNCHANGED <<stage, seen, was_run>>
              /\ n \notin DOMAIN vals
              /\ vals' = [k \in DOMAIN vals \cup {n} |-> IF k = n THEN v ELSE vals[k]]
              /\ todo' = (todo \ {<<n, v>>}) \cup PushAll(n, v) \cup PushMay(n, v)
              /\ may' = Watch(n, v, to)
            BY <2>2 DEF Propagates
        <3>2. ASSUME NEW k, Noticed(k)
              PROVE  Noticed(k)'
            BY <3>1, <3>2 DEF Noticed
        <3>3. ASSUME NEW k, NEW u \in BOOLEAN, <<k, u>> \in PushAll(n, v) \cup PushMay(n, v)
              PROVE  Noticed(k)'
            BY <3>1, <3>3 DEF Noticed
        <3>4. Live
            BY <3>1 DEF Live
        <3>5. ASSUME NEW m \in seen \cap Neg, NEW o \in Ops[m], o \in DOMAIN vals'
              PROVE  Noticed(m)'
            <4>1. CASE o = n
                <5>1. <<m, ~ v>> \in PushAll(n, v)
                    BY <3>5, <4>1 DEF PushAll
                <5>2. (~ v) \in BOOLEAN
                    BY v = TRUE \/ v = FALSE
                <5> QED
                    BY <3>3, <5>1, <5>2
            <4>2. CASE o # n
                BY <3>1, <3>2, <3>4, <3>5, <4>2 DEF NoticedInv
            <4> QED
                BY <4>1, <4>2
        <3>6. ASSUME NEW g \in seen \cap Gate, NEW o \in Ops[g],
                     o \in DOMAIN vals', vals'[o] = Deciding(g)
              PROVE  Noticed(g)'
            <4>1. CASE o = n
                <5>1. v = Deciding(g)
                    BY <3>1, <3>6, <4>1
                <5>2. <<g, v>> \in PushAll(n, v)
                    BY <3>6, <4>1, <5>1 DEF PushAll
                <5> QED
                    BY <3>3, <5>2
            <4>2. CASE o # n
                BY <3>1, <3>2, <3>4, <3>6, <4>2 DEF NoticedInv
            <4> QED
                BY <4>1, <4>2
        <3>7. ASSUME NEW g \in seen \cap Gate, NEW o \in Ops[g],
                     o \in DOMAIN vals', vals'[o] = AllOf(g), g \in may'[AllOf(g)][o]
              PROVE  Noticed(g)'
            <4>1. o \in Node /\ AllOf(g) \in BOOLEAN
                BY OpsAssumption DEF Gate, AllOf
            <4>2. \/ g \in may[AllOf(g)][o] /\ ~ (AllOf(g) = v /\ o = n /\ g \in Moving(n, v))
                  \/ AllOf(g) = v /\ o # n /\ g \in Moving(n, v) /\ to[g] = o
                BY <3>1, <3>7, <4>1, WatchedThere
            <4>3. CASE o = n
                <5>1. v = AllOf(g)
                    BY <3>1, <3>7, <4>3
                <5>2. g \in may[v][n] \ Moving(n, v)
                    BY <4>2, <4>3, <5>1
                <5>3. <<g, v>> \in PushMay(n, v)
                    BY <5>2 DEF PushMay
                <5> QED
                    BY <3>3, <5>3
            <4>4. CASE o # n /\ g \in may[AllOf(g)][o]
                BY <3>1, <3>2, <3>4, <3>7, <4>4 DEF NoticedInv
            <4>5. CASE o # n /\ AllOf(g) = v /\ g \in Moving(n, v) /\ to[g] = o
                \* a new witness does not have the value
                <5>1. o \in Witnesses(g, n, v)
                    BY <2>2, <4>5 DEF Propagates
                <5>2. o \in DOMAIN vals /\ vals[o] = v
                    BY <3>1, <3>7, <4>5
                <5> QED
                    BY <5>1, <5>2 DEF Witnesses
            <4> QED
                BY <4>2, <4>3, <4>4, <4>5
        <3> QED
            BY <3>1, <3>5, <3>6, <3>7 DEF NoticedInv, Live, Deciding, AllOf
    <2> QED
        BY <1>5, <2>1, <2>2, PropagateCases
<1>6. CASE EndRun
    BY <1>6 DEF NoticedInv, Live, EndRun, Noticed, Deciding, AllOf
<1>7. CASE UNCHANGED vars
    BY <1>7 DEF NoticedInv, Live, Noticed, Deciding, AllOf, vars
<1> QED
    BY <1>1, <1>2, <1>3, <1>4, <1>5, <1>6, <1>7 DEF Next

-----------------------------------------------------------------------------
(* The inductive invariant. *)
IInv == TypeOK /\ GraphInv /\ WatchedOnce /\ Watched /\ RightInv /\ NoticedInv

LEMMA InitHolds == Init => IInv
<1> SUFFICES ASSUME Init PROVE IInv
    OBVIOUS
<1>1. TypeOK
    BY DEF Init, TypeOK, NoValues, Consistent
<1>2. GraphInv /\ WatchedOnce /\ Watched /\ NoticedInv
    BY DEF Init, GraphInv, WatchedOnce, Watched, NoticedInv, Live
<1>3. RightInv
    BY DEF Init, RightInv, NoValues
<1> QED
    BY <1>1, <1>2, <1>3 DEF IInv

LEMMA StepHolds == IInv /\ [Next]_vars => IInv'
BY TypeStep, GraphStep, WatchStep, RightStep, NoticedStep DEF IInv

LEMMA Invariance == Spec => []IInv
BY InitHolds, StepHolds, PTL DEF Spec

(* EvalUp keeps to its types: only gates and negations enter the graph,    *)
(* only gates are watched.                                                 *)
THEOREM TypeCorrect == Spec => []TypeOK
BY Invariance, PTL DEF IInv

(* However often constraints are added and evaluated, every gate in the    *)
(* graph is watched at exactly one operand, for the right value.           *)
THEOREM WitnessesKept == Spec => [](WatchedOnce /\ Watched)
BY Invariance, PTL DEF IInv

(* A node that has a value has it in every valuation of the inputs that    *)
(* respects the circuit and the assumptions of the run.                    *)
THEOREM ValuesAreRight == Spec => []ValuesRight
<1>1. IInv => ValuesRight
    BY DEF IInv, RightInv, ValuesRight
<1> QED
    BY <1>1, Invariance, PTL

(* A run misses nothing.                                                   *)
LEMMA NoneMissed ==
    ASSUME IInv
    PROVE  NothingMissed
<1>1. SUFFICES ASSUME was_run, stage = "idle", NEW n \in seen, Determined(n)
               PROVE  n \in DOMAIN vals
    BY DEF NothingMissed
<1>2. todo = {} /\ Live
    BY <1>1 DEF IInv, NoticedInv, Live
<1>3. Noticed(n) => n \in DOMAIN vals
    BY <1>2 DEF Noticed
<1>4. CASE n \in Neg /\ Ops[n] \subseteq DOMAIN vals
    <2>1. PICK m \in Node : Ops[n] = {m}
        BY <1>4, OpsAssumption
    <2> QED
        BY <1>2, <1>3, <1>4, <2>1 DEF IInv, NoticedInv
<1>5. CASE n \in Gate /\ \E o \in Ops[n] : o \in DOMAIN vals /\ vals[o] = Deciding(n)
    BY <1>2, <1>3, <1>5 DEF IInv, NoticedInv
<1>6. CASE n \in Gate /\ \A o \in Ops[n] : o \in DOMAIN vals /\ vals[o] = AllOf(n)
    <2>1. PICK o \in Ops[n] : n \in may[AllOf(n)][o]
        BY <1>6 DEF IInv, Watched
    <2> QED
        BY <1>2, <1>3, <1>6, <2>1 DEF IInv, NoticedInv
<1> QED
    BY <1>1, <1>4, <1>5, <1>6 DEF Determined

(* When a run has ended, every gate and negation of the graph that the     *)
(* values of its operands determine has a value, although only one         *)
(* operand of a gate is watched and although witnesses stay from run to    *)
(* run.                                                                    *)
THEOREM NothingIsMissed == Spec => []NothingMissed
<1>1. IInv => NothingMissed
    BY NoneMissed
<1> QED
    BY <1>1, Invariance, PTL

(* When init returns, the graph holds everything below what it holds.      *)
THEOREM GraphIsClosed == Spec => []GraphClosed
<1>1. IInv => GraphClosed
    BY DEF IInv, GraphInv, GraphClosed
<1> QED
    BY <1>1, Invariance, PTL

-----------------------------------------------------------------------------
(* No value comes from nowhere: a literal has it by the assumptions, a     *)
(* negation by its operand, a gate by the operands it took.                *)
Justified(n, v) ==
    \/ n \in Lit /\ v = TRUE /\ n \in assumptions
    \/ n \in Lit /\ v = FALSE /\ Compl[n] \in assumptions
    \/ n \in Neg /\ \A o \in Ops[n] : o \in DOMAIN vals /\ vals[o] = ~ v
    \/ n \in Gate /\ v = Deciding(n) /\ \E o \in Ops[n] : o \in DOMAIN vals /\ vals[o] = v
    \/ n \in Gate /\ v = AllOf(n) /\ \A o \in Ops[n] : o \in DOMAIN vals /\ vals[o] = v
ReasonInv ==
    /\ \A n \in DOMAIN vals : Justified(n, vals[n])
    /\ \A p \in todo : Justified(p[1], p[2])
    /\ Live => \A l \in assumptions : Noticed(l) /\ Noticed(Compl[l])

LEMMA PushesJustified ==
    ASSUME TypeOK, WatchedOnce, NEW n \in Node, NEW v \in BOOLEAN,
           NEW to \in [Moving(n, v) -> Node], Propagates(n, v, to),
           NEW p \in PushAll(n, v) \cup PushMay(n, v)
    PROVE  Justified(p[1], p[2])'
<1>1. /\ \A k \in DOMAIN vals : k \in DOMAIN vals' /\ vals'[k] = vals[k]
      /\ n \in DOMAIN vals' /\ vals'[n] = v
    BY DEF Propagates
<1>2. CASE p \in {g \in seen \cap Gate : n \in Ops[g] /\ Deciding(g) = v} \X {v}
    <2>1. p[2] = v /\ p[1] \in Gate /\ n \in Ops[p[1]] /\ Deciding(p[1]) = v
        BY <1>2
    <2>2. \E o \in Ops[p[1]] : o \in DOMAIN vals' /\ vals'[o] = p[2]
        BY <1>1, <2>1
    <2> QED
        BY <2>1, <2>2 DEF Justified, Deciding
<1>3. CASE p \in {m \in seen \cap Neg : n \in Ops[m]} \X {~ v}
    <2>1. p[2] = (~ v) /\ p[1] \in Neg /\ n \in Ops[p[1]]
        BY <1>3
    <2>2. PICK m \in Node : Ops[p[1]] = {m}
        BY <2>1, OpsAssumption
    <2>3. v = ~ p[2]
        BY <2>1
    <2>4. \A o \in Ops[p[1]] : o \in DOMAIN vals' /\ vals'[o] = ~ p[2]
        BY <1>1, <2>1, <2>2, <2>3
    <2> QED
        BY <2>1, <2>4 DEF Justified
<1>4. CASE p \in PushMay(n, v)
    <2>1. p[2] = v /\ p[1] \in may[v][n] /\ Witnesses(p[1], n, v) = {}
        BY <1>4 DEF PushMay, Moving
    <2>2. p[1] \in Gate
        BY <2>1 DEF TypeOK
    <2>3. v = AllOf(p[1]) /\ n \in Ops[p[1]]
        BY <2>1, <2>2 DEF WatchedOnce
    <2>4. \A o \in Ops[p[1]] : o \in DOMAIN vals' /\ vals'[o] = p[2]
        BY <1>1, <2>1 DEF Witnesses
    <2> QED
        BY <2>1, <2>2, <2>3, <2>4 DEF Justified, AllOf
<1> QED
    BY <1>2, <1>3, <1>4 DEF PushAll

LEMMA ReasonStep ==
    ASSUME TypeOK, WatchedOnce, NoticedInv, ReasonInv, [Next]_vars
    PROVE  ReasonInv'
<1>1. ASSUME UNCHANGED <<vals, assumptions>>
      PROVE  \A n, v : Justified(n, v)' <=> Justified(n, v)
    BY <1>1 DEF Justified, Deciding, AllOf
<1>2. CASE StartInit
    <2>1. ~ Live' /\ UNCHANGED <<vals, assumptions, todo>>
        BY <1>2 DEF StartInit, Live
    <2> QED
        BY <1>1, <2>1 DEF ReasonInv
<1>3. CASE InitNode \/ EndInit
    <2>1. UNCHANGED <<vals, assumptions, todo>> /\ ~ Live'
        BY <1>3 DEF InitNode, EndInit, Live, NoticedInv
    <2> QED
        BY <1>1, <2>1 DEF ReasonInv
<1>4. CASE StartRun
    <2>1. PICK a \in Consistent :
            /\ assumptions' = a
            /\ todo' = (a \X {TRUE}) \cup ({Compl[l] : l \in a} \X {FALSE})
        BY <1>4 DEF StartRun
    <2>2. DOMAIN vals' = {}
        BY <1>4 DEF StartRun, NoValues
    <2>3. ASSUME NEW p \in todo'
          PROVE  Justified(p[1], p[2])'
        <3>1. CASE p \in a \X {TRUE}
            <4>1. p[1] \in Lit /\ p[1] \in assumptions' /\ p[2] = TRUE
                BY <2>1, <3>1 DEF Consistent
            <4> QED
                BY <4>1 DEF Justified
        <3>2. CASE p \in {Compl[l] : l \in a} \X {FALSE}
            <4>1. PICK l \in a : p[1] = Compl[l] /\ p[2] = FALSE
                BY <3>2
            <4>2. l \in Lit
                BY DEF Consistent
            <4>3. p[1] \in Lit /\ Compl[p[1]] \in assumptions'
                BY <2>1, <4>1, <4>2, ComplAssumption
            <4> QED
                BY <4>1, <4>3 DEF Justified
        <3> QED
            BY <2>1, <3>1, <3>2
    <2>4. \A l \in assumptions' : Noticed(l)' /\ Noticed(Compl[l])'
        <3> SUFFICES ASSUME NEW l \in a PROVE Noticed(l)' /\ Noticed(Compl[l])'
            BY <2>1
        <3>1. <<l, TRUE>> \in todo' /\ <<Compl[l], FALSE>> \in todo'
            BY <2>1
        <3> QED
            BY <3>1 DEF Noticed
    <2> QED
        BY <2>2, <2>3, <2>4 DEF ReasonInv
<1>5. CASE Propagate
    <2>1. CASE \E p \in todo : Drops(p)
        <3>1. PICK p \in todo : Drops(p)
            BY <2>1
        <3>2. ASSUME NEW k, Noticed(k)
              PROVE  Noticed(k)'
            BY <3>1, <3>2 DEF Drops, Noticed
        <3>3. UNCHANGED <<vals, assumptions, stage, was_run>> /\ todo' \subseteq todo
            BY <3>1 DEF Drops
        <3> QED
            BY <1>1, <3>2, <3>3 DEF ReasonInv, Live
    <2>2. ASSUME NEW n \in Node, NEW v \in BOOLEAN, NEW to \in [Moving(n, v) -> Node],
                 Propagates(n, v, to)
          PROVE  ReasonInv'
        <3>1. /\ stage = "run" /\ UNCHANGED <<stage, was_run, assumptions>>
              /\ n \notin DOMAIN vals /\ <<n, v>> \in todo
              /\ vals' = [k \in DOMAIN vals \cup {n} |-> IF k = n THEN v ELSE vals[k]]
              /\ todo' = (todo \ {<<n, v>>}) \cup PushAll(n, v) \cup PushMay(n, v)
            BY <2>2 DEF Propagates
        <3>2. ASSUME NEW k, NEW u, Justified(k, u)
              PROVE  Justified(k, u)'
            <4>1. \A o \in DOMAIN vals : o \in DOMAIN vals' /\ vals'[o] = vals[o]
                BY <3>1
            <4> QED
                BY <3>1, <3>2, <4>1 DEF Justified, Deciding, AllOf
        <3>3. ASSUME NEW k, Noticed(k)
              PROVE  Noticed(k)'
            BY <3>1, <3>3 DEF Noticed
        <3>4. Justified(n, v)
            <4>1. <<n, v>>[1] = n /\ <<n, v>>[2] = v
                OBVIOUS
            <4> QED
                BY <3>1, <4>1 DEF ReasonInv
        <3>5. ASSUME NEW k \in DOMAIN vals'
              PROVE  Justified(k, vals[k])'
            <4>0. PICK u : u = vals'[k]
                OBVIOUS
            <4>1. CASE k = n
                <5>1. u = v
                    BY <3>1, <4>0, <4>1
                <5>2. Justified(n, v)'
                    BY <3>2, <3>4
                <5>3. Justified(k, u)'
                    BY <4>1, <5>1, <5>2
                <5> QED
                    BY <4>0, <5>3 DEF Justified, Deciding, AllOf
            <4>2. CASE k # n
                <5>1. k \in DOMAIN vals /\ u = vals[k]
                    BY <3>1, <3>5, <4>0, <4>2
                <5>2. Justified(k, u)
                    BY <5>1 DEF ReasonInv
                <5>3. Justified(k, u)'
                    BY <3>2, <5>2
                <5> QED
                    BY <4>0, <5>3 DEF Justified, Deciding, AllOf
            <4> QED
                BY <4>1, <4>2
        <3>6. ASSUME NEW p \in todo'
              PROVE  Justified(p[1], p[2])'
            BY <2>2, <3>1, <3>2, PushesJustified DEF ReasonInv
        <3>7. \A l \in assumptions' : Noticed(l)' /\ Noticed(Compl[l])'
            <4>1. Live /\ assumptions' = assumptions
                BY <3>1 DEF Live
            <4> QED
                BY <3>3, <4>1 DEF ReasonInv
        <3> QED
            BY <3>5, <3>6, <3>7 DEF ReasonInv
    <2> QED
        BY <1>5, <2>1, <2>2, PropagateCases
<1>6. CASE EndRun
    <2>1. UNCHANGED <<vals, assumptions, todo>> /\ Live
        BY <1>6 DEF EndRun, Live
    <2> QED
        BY <1>1, <2>1 DEF ReasonInv, Noticed
<1>7. CASE UNCHANGED vars
    BY <1>1, <1>7 DEF ReasonInv, Live, Noticed, vars
<1> QED
    BY <1>2, <1>3, <1>4, <1>5, <1>6, <1>7 DEF Next

-----------------------------------------------------------------------------
(* The circuits of CircuitProofs.                                          *)
On == INSTANCE CircuitProofs WITH Node <- Circuits, Aig <- FALSE, Flatten <- FALSE, Unit <- TRUE

LEMMA SameWords ==
    /\ \A n, sub : C!EvalUp(n, sub) = On!EvalUp(n, sub)
    /\ \A n : /\ C!IsConst(n) <=> On!IsConst(n)
              /\ C!Type(n) = On!Type(n) /\ C!Children(n) = On!Children(n)
              /\ C!Complement(n) = On!Complement(n)
    /\ \A b : C!ValueOf(b) = On!ValueOf(b)
    /\ C!Undefined = On!Undefined
<1>1. \A n, sub : C!Propagated(n, sub) = On!Propagated(n, sub)
    BY DEF C!Propagated, On!Propagated, C!IsConst, On!IsConst, C!FalseNode, On!FalseNode,
        C!TrueNode, On!TrueNode, C!Type, On!Type, C!Assigns, On!Assigns, C!Complement, On!Complement,
        C!Literal, On!Literal, C!LitVar, On!LitVar, C!Positive, On!Positive, C!ValueOf, On!ValueOf,
        C!Negated, On!Negated, C!Undefined, On!Undefined, C!Operand, On!Operand,
        C!Operands, On!Operands
<1>2. \A n : C!IsConst(n) <=> On!IsConst(n)
    BY DEF C!IsConst, On!IsConst, C!FalseNode, On!FalseNode, C!TrueNode, On!TrueNode
<1>3. \A n : C!Type(n) = On!Type(n) /\ C!Children(n) = On!Children(n)
    BY DEF C!Type, On!Type, C!Children, On!Children, C!IsConst, On!IsConst, C!FalseNode, On!FalseNode,
        C!TrueNode, On!TrueNode, C!Operand, On!Operand, C!Operands, On!Operands
<1>4. \A n : C!Complement(n) = On!Complement(n)
    BY DEF C!Complement, On!Complement, C!Literal, On!Literal, C!LitVar, On!LitVar, C!Positive, On!Positive
<1>5. (\A b : C!ValueOf(b) = On!ValueOf(b)) /\ C!Undefined = On!Undefined
    BY DEF C!ValueOf, On!ValueOf, C!Undefined, On!Undefined
<1>6. \A n, sub : C!EvalUp(n, sub) = On!EvalUp(n, sub)
    BY <1>1, <1>2, <1>5 DEF C!EvalUp, On!EvalUp, C!TrueNode, On!TrueNode
<1> QED
    BY <1>2, <1>3, <1>4, <1>5, <1>6

(* What a node of the graph answers after a run, when its operands answer  *)
(* what they should.                                                       *)
LEMMA AnswersGiven ==
    ASSUME On!IsNodeSet, IInv, ReasonInv, was_run, stage = "idle",
           NEW n \in Node, n \in seen \/ n \notin Gate \cup Neg,
           \A o \in Ops[n] : o \in seen \/ o \notin Gate \cup Neg => Answer(o) = On!Propagated(o, assumptions)
    PROVE  Answer(n) = On!Propagated(n, assumptions)
<1> DEFINE value(m) == On!Propagated(m, assumptions)
           has(m, v) == m \in DOMAIN vals /\ vals[m] = v
<1>0. /\ n \in Circuits /\ TypeOK
      /\ Kind[n] = IF On!IsConst(n) THEN "CONST" ELSE On!Type(n)
      /\ Ops[n] = On!Children(n)
    BY CircuitsAssumption, SameWords DEF IInv
<1>1. todo = {} /\ Live /\ NothingMissed
    BY NoneMissed DEF IInv, NoticedInv, Live
<1>2. \A o \in Ops[n] : Answer(o) = value(o)
    <2>1. CASE n \in seen
        BY <2>1 DEF IInv, GraphInv
    <2>2. CASE n \notin Gate \cup Neg
        <3>1. On!IsConst(n) \/ On!Type(n) = "LITERAL"
            BY <1>0, <2>2, On!Shape DEF Gate, Neg
        <3>2. Ops[n] = {}
            BY <1>0, <3>1, On!ChildrenOf
        <3> QED
            BY <3>2
    <2> QED
        BY <2>1, <2>2
<1>3. \A m : /\ m \notin DOMAIN vals => Answer(m) = "UNDEF"
             /\ has(m, TRUE) => Answer(m) = "TRUE"
             /\ has(m, FALSE) => Answer(m) = "FALSE"
    BY DEF Answer, C!ValueOf, C!Undefined
<1>4. \A m \in DOMAIN vals : m \in Node /\ (has(m, TRUE) \/ has(m, FALSE))
    BY <1>0 DEF TypeOK
<1>5. \A m : /\ Answer(m) = "TRUE" <=> has(m, TRUE)
             /\ Answer(m) = "FALSE" <=> has(m, FALSE)
             /\ Answer(m) = "UNDEF" <=> m \notin DOMAIN vals
    <2> HIDE DEF has
    <2> QED
        BY <1>3, <1>4 DEF has
<1>6. /\ value(n) \in {"TRUE", "FALSE", "UNDEF"}
      /\ On!IsConst(n) => value(n) = "UNDEF"
      /\ On!Type(n) = "LITERAL" =>
            value(n) = IF n \in assumptions THEN "TRUE"
                       ELSE IF On!Complement(n) \in assumptions THEN "FALSE" ELSE "UNDEF"
      /\ On!Type(n) = "NEGATION" => value(n) = On!Negated(value(On!Operand(n)))
      /\ On!Type(n) = "AND" =>
            /\ value(n) = "FALSE" <=> \E o \in On!Operands(n) : value(o) = "FALSE"
            /\ value(n) = "TRUE" <=> \A o \in On!Operands(n) : value(o) = "TRUE"
      /\ On!Type(n) = "OR" =>
            /\ value(n) = "TRUE" <=> \E o \in On!Operands(n) : value(o) = "TRUE"
            /\ value(n) = "FALSE" <=> \A o \in On!Operands(n) : value(o) = "FALSE"
    BY <1>0, On!PropagatedCases, On!EvalCases DEF On!Values, On!Undefined
<1>7. /\ On!Type(n) \in {"FALSE", "TRUE", "LITERAL", "NEGATION", "AND", "OR"}
      /\ On!IsConst(n) <=> On!Type(n) \in {"FALSE", "TRUE"}
    BY <1>0, On!Shape
<1>8. n \in DOMAIN vals => Justified(n, vals[n])
    BY DEF ReasonInv
<1>9. n \in seen /\ Determined(n) => n \in DOMAIN vals
    BY <1>1 DEF NothingMissed
<1>. HIDE DEF value, has
<1>10. CASE On!IsConst(n)
    <2>1. Kind[n] = "CONST"
        BY <1>0, <1>10
    <2>2. n \notin DOMAIN vals
        BY <1>8, <2>1 DEF Justified, Lit, Neg, Gate
    <2> QED
        BY <1>5, <1>6, <1>10, <2>2 DEF value
<1>11. CASE On!Type(n) = "LITERAL"
    <2>1. n \in Lit /\ n \notin Neg /\ n \notin Gate
        BY <1>0, <1>7, <1>11 DEF Lit, Neg, Gate
    <2>2. Compl[n] = On!Complement(n) /\ Compl[n] \in Lit /\ Compl[Compl[n]] = n
        BY <2>1, CircuitsAssumption, ComplAssumption, SameWords
    <2>3. n \in assumptions \/ Compl[n] \in assumptions => n \in DOMAIN vals
        BY <1>1, <2>2 DEF ReasonInv, Noticed
    <2>4. n \in assumptions => Compl[n] \notin assumptions
        BY <1>0 DEF TypeOK, Consistent
    <2>5. n \in DOMAIN vals =>
            \/ vals[n] = TRUE /\ n \in assumptions
            \/ vals[n] = FALSE /\ Compl[n] \in assumptions
        BY <1>8, <2>1 DEF Justified
    <2>6. Answer(n) = value(n)
        BY <1>5, <1>6, <1>11, <2>2, <2>3, <2>4, <2>5 DEF has
    <2> QED
        BY <2>6 DEF value
<1>12. CASE On!Type(n) = "NEGATION"
    <2> DEFINE o == On!Operand(n)
    <2>1. n \in Neg /\ n \notin Lit /\ n \notin Gate /\ n \in seen
        BY <1>0, <1>7, <1>12 DEF Lit, Neg, Gate
    <2>2. Ops[n] = {o}
        BY <1>0, <1>12, On!ChildrenOf
    <2>3. n \in DOMAIN vals => o \in DOMAIN vals /\ vals[o] = ~ vals[n]
        BY <1>8, <2>1, <2>2 DEF Justified
    <2>4. o \in DOMAIN vals => n \in DOMAIN vals
        BY <1>9, <2>1, <2>2 DEF Determined
    <2>5. Answer(o) = value(o)
        BY <1>2, <2>2
    <2>. HIDE DEF o
    <2>6. value(n) = On!Negated(value(o))
        BY <1>6, <1>12 DEF o
    <2>7. value(n) = IF Answer(o) = "UNDEF" THEN "UNDEF"
                     ELSE IF Answer(o) = "FALSE" THEN "TRUE" ELSE "FALSE"
        BY <2>5, <2>6 DEF On!Negated, On!Undefined, On!ValueOf
    <2>8. CASE n \notin DOMAIN vals
        BY <1>5, <2>4, <2>7, <2>8 DEF value
    <2>9. CASE n \in DOMAIN vals
        <3>1. CASE has(n, TRUE)
            <4>1. has(o, FALSE)
                BY <2>3, <3>1 DEF has
            <4> QED
                BY <1>5, <2>7, <3>1, <4>1 DEF value
        <3>2. CASE has(n, FALSE)
            <4>1. has(o, TRUE)
                BY <2>3, <3>2 DEF has
            <4> QED
                BY <1>5, <2>7, <3>2, <4>1 DEF value
        <3> QED
            BY <1>4, <2>9, <3>1, <3>2
    <2> QED
        BY <2>8, <2>9
<1>13. CASE On!Type(n) \in {"AND", "OR"}
    <2> DEFINE d == Deciding(n)
               a == AllOf(n)
    <2>1. n \in Gate /\ n \notin Lit /\ n \notin Neg /\ n \in seen /\ Kind[n] = On!Type(n)
        BY <1>0, <1>7, <1>13 DEF Lit, Neg, Gate
    <2>2. Ops[n] = On!Operands(n)
        BY <1>0, <1>13, On!ChildrenOf DEF On!Gates
    <2>3. d \in BOOLEAN /\ a \in BOOLEAN /\ a # d
        BY <1>13, <2>1 DEF Deciding, AllOf
    <2>4. n \in DOMAIN vals =>
            \/ has(n, d) /\ \E o \in Ops[n] : has(o, d)
            \/ has(n, a) /\ \A o \in Ops[n] : has(o, a)
        BY <1>8, <2>1 DEF Justified, has
    <2>5. (\E o \in Ops[n] : has(o, d)) \/ (\A o \in Ops[n] : has(o, a)) => n \in DOMAIN vals
        BY <1>9, <2>1 DEF Determined, has
    <2>6. Ops[n] # {}
        BY <2>1, OpsAssumption
    <2>7. \A m, v, u : has(m, v) /\ has(m, u) => v = u
        BY DEF has
    <2>8. /\ has(n, d) <=> \E o \in Ops[n] : has(o, d)
          /\ has(n, a) <=> \A o \in Ops[n] : has(o, a)
        <3>. HIDE DEF d, a
        <3>1. \A m, v : has(m, v) => m \in DOMAIN vals
            BY DEF has
        <3> QED
            BY <2>3, <2>4, <2>5, <2>6, <2>7, <3>1
    <2>9. CASE On!Type(n) = "AND"
        <3>1. d = FALSE /\ a = TRUE
            BY <2>1, <2>9 DEF Deciding, AllOf
        <3>2. /\ value(n) = "FALSE" <=> has(n, FALSE)
              /\ value(n) = "TRUE" <=> has(n, TRUE)
            BY <1>2, <1>5, <1>6, <2>2, <2>8, <2>9, <3>1
        <3> QED
            BY <1>4, <1>5, <1>6, <3>2 DEF value
    <2>10. CASE On!Type(n) = "OR"
        <3>1. d = TRUE /\ a = FALSE
            BY <2>1, <2>10 DEF Deciding, AllOf
        <3>2. /\ value(n) = "FALSE" <=> has(n, FALSE)
              /\ value(n) = "TRUE" <=> has(n, TRUE)
            BY <1>2, <1>5, <1>6, <2>2, <2>8, <2>10, <3>1
        <3> QED
            BY <1>4, <1>5, <1>6, <3>2 DEF value
    <2> QED
        BY <1>13, <2>9, <2>10
<1> QED
    BY <1>7, <1>10, <1>11, <1>12, <1>13

(* The answers of the graph's nodes are those of Circuit, from the inputs  *)
(* up.                                                                     *)
LEMMA Agreement ==
    ASSUME On!IsNodeSet, IInv, ReasonInv
    PROVE  AgreesWithCircuit
<1>1. SUFFICES ASSUME was_run, stage = "idle", NEW n \in seen, ~ On!IsConst(n)
               PROVE  Answer(n) = On!Propagated(n, assumptions)
    BY SameWords DEF AgreesWithCircuit, On!EvalUp
<1> DEFINE S == {m \in Circuits : m \in Node /\ (m \in seen \/ m \notin Gate \cup Neg) =>
                                    Answer(m) = On!Propagated(m, assumptions)}
<1>2. ASSUME NEW m \in Circuits, \A o \in On!Children(m) : o \in S
      PROVE  m \in S
    <2>1. SUFFICES ASSUME m \in Node, m \in seen \/ m \notin Gate \cup Neg
                   PROVE  Answer(m) = On!Propagated(m, assumptions)
        OBVIOUS
    <2>2. Ops[m] = On!Children(m) /\ Ops[m] \subseteq Node
        BY <2>1, CircuitsAssumption, OpsAssumption, SameWords
    <2>3. \A o \in Ops[m] : o \in seen \/ o \notin Gate \cup Neg =>
                Answer(o) = On!Propagated(o, assumptions)
        BY <1>2, <2>2
    <2> HIDE DEF S
    <2> QED
        BY <1>1, <2>1, <2>3, AnswersGiven
<1>3. n \in Circuits /\ n \in Node
    BY CircuitsAssumption DEF IInv, TypeOK, Gate, Neg
<1>4. n \in S
    <2> HIDE DEF S
    <2>1. \A m \in Circuits : m \in S
        BY <1>2, On!NodeInduction
    <2> QED
        BY <1>3, <2>1
<1> QED
    BY <1>3, <1>4

LEMMA ReasonAtStart == Init => ReasonInv
BY DEF Init, ReasonInv, NoValues, Live

(* What EvalUp keeps from run to run never shows: its answers are those of *)
(* the function Circuit defines by recursion, for every set of circuits    *)
(* and every order of additions and runs.                                  *)
THEOREM AgreesAlways == On!IsNodeSet => (Spec => []AgreesWithCircuit)
<1> SUFFICES ASSUME On!IsNodeSet PROVE Spec => []AgreesWithCircuit
    OBVIOUS
<1>1. IInv /\ ReasonInv => AgreesWithCircuit
    BY Agreement
<1>2. IInv /\ ReasonInv /\ [Next]_vars => ReasonInv'
    BY ReasonStep DEF IInv
<1>3. Spec => []ReasonInv
    BY <1>2, ReasonAtStart, Invariance, PTL DEF Spec
<1> QED
    BY <1>1, <1>3, Invariance, PTL
=============================================================================
