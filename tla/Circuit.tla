------------------------------ MODULE Circuit ------------------------------
(***************************************************************************)
(* The expressions of cqesto and the passes the solver runs over them.     *)
(*                                                                         *)
(* A node is a tuple that starts with its NodeType; hash-consing makes two *)
(* nodes equal exactly when their tuples are.  An IDVector is sorted and   *)
(* free of duplicates, so the operands of a gate are a set.                *)
(***************************************************************************)
EXTENDS Integers, FiniteSets, FiniteSetsExt

CONSTANTS
    Node,       \* the circuits; nothing here enumerates them
    Aig,        \* options.aig: only AND gates
    Flatten,    \* options.flatten: merge a gate into a parent of its type
    Unit        \* options.unit: unit propagation in Simplify

ASSUME CircuitOptionsAssumption == {Aig, Flatten, Unit} \subseteq BOOLEAN

-----------------------------------------------------------------------------
(* Nodes *)
FalseNode == <<"FALSE">>
TrueNode  == <<"TRUE">>
Literal(v, positive) == <<"LITERAL", v, positive>>

Type(n)     == n[1]
Operands(n) == n[2]         \* of a gate
Operand(n)  == n[2]         \* of a negation
LitVar(n)   == n[2]
Positive(n) == n[3]
ConstNode(b) == IF b THEN TrueNode ELSE FalseNode

IsConst(n) == n \in {FalseNode, TrueNode}
Complement(n) == Literal(LitVar(n), ~ Positive(n))

(* A Substitution: the literals it makes true.                             *)
Assigns(sub, n) == n \in sub \/ Complement(n) \in sub

(* Expressions::make_not *)
MakeNot(n) ==
    CASE IsConst(n)           -> ConstNode(n = FalseNode)
      [] Type(n) = "LITERAL"  -> Complement(n)
      [] Type(n) = "NEGATION" -> Operand(n)
      [] Type(n) \in {"AND", "OR"} -> <<"NEGATION", n>>

(* IDVector::contains_compl *)
ContainsCompl(ops) == \E n \in ops : Type(n) = "LITERAL" /\ Complement(n) \in ops

(* Expressions::make_and *)
MakeAnd(ops) ==
    CASE ops = {} -> TrueNode
      [] Cardinality(ops) = 1 -> CHOOSE n \in ops : TRUE
      [] Cardinality(ops) > 1 ->
            IF ContainsCompl(ops) \/ FalseNode \in ops THEN FalseNode ELSE <<"AND", ops>>

(* Expressions::make_or: with options.aig an OR is the negation of an AND. *)
MakeOr(ops) ==
    CASE ops = {} -> FalseNode
      [] Cardinality(ops) = 1 -> CHOOSE n \in ops : TRUE
      [] Cardinality(ops) > 1 ->
            IF ContainsCompl(ops) \/ TrueNode \in ops THEN TrueNode
            ELSE IF ~ Aig THEN <<"OR", ops>>
            ELSE MakeNot(<<"AND", {MakeNot(n) : n \in ops \ {FalseNode}}>>)

Make(type, ops) == IF type = "AND" THEN MakeAnd(ops) ELSE MakeOr(ops)
DualOfNothing(type) == type     \* plausible mistake: the gate is kept
Dual(type) == IF type = "AND" THEN "OR" ELSE "AND"

(* The constant an operation ignores and the one that decides it. *)
Neutral(type) == ConstNode(type = "AND")
Absorb(type)  == ConstNode(type = "OR")

(* Expressions::add_operand: the operands it pushes for o, and whether it  *)
(* did anything but push o itself.                                         *)
Melts(o, type) == o = Neutral(type) \/ (Flatten /\ Type(o) = type)
Spliced(o, type) ==
    LET pushed[n \in Node] ==
            IF n = Neutral(type) THEN {}
            ELSE IF Melts(n, type) THEN UNION {pushed[c] : c \in Operands(n)}
            ELSE {n}
    IN  pushed[o]

-----------------------------------------------------------------------------
(* What is below a node. *)
Children(n) ==
    CASE IsConst(n) \/ Type(n) = "LITERAL" -> {}
      [] Type(n) = "NEGATION" -> {Operand(n)}
      [] Type(n) \in {"AND", "OR"} -> Operands(n)

SubNodes(n) ==
    LET below[m \in Node] == {m} \cup UNION {below[o] : o \in Children(m)}
    IN  below[n]

VarsOf(n) ==
    LET occurring[m \in Node] ==
            IF Type(m) = "LITERAL" THEN {LitVar(m)}
            ELSE UNION {occurring[o] : o \in Children(m)}
    IN  occurring[n]

(* What a node means: its value under an assignment of all variables.      *)
(* (Here and below the last case of a recursion is that of the gates; in   *)
(* Holds that of an OR.)                                                   *)
Holds(n, e) ==
    LET value[m \in Node] ==
            CASE IsConst(m)           -> m = TrueNode
              [] Type(m) = "LITERAL"  -> e[LitVar(m)] = Positive(m)
              [] Type(m) = "NEGATION" -> ~ value[Operand(m)]
              [] Type(m) = "AND"      -> \A o \in Operands(m) : value[o]
              [] OTHER                -> \E o \in Operands(m) : value[o]
    IN  value[n]

-----------------------------------------------------------------------------
(* The visitors below visit the operands of a gate first: pairs of an      *)
(* operand and what became of it.                                          *)
Results(visited) == {p[2] : p \in visited}
Changed(visited, type) == \E p \in visited : p[2] # p[1] \/ Melts(p[2], type)
SplicedAll(results, type) == UNION {Spliced(r, type) : r \in results}

(* Plausible mistake: the wrong constant absorbs.                          *)
RebuildAbsorbsNeutral(n, visited) ==
    IF Neutral(Type(n)) \in Results(visited) THEN Neutral(Type(n))
    ELSE IF ~ Changed(visited, Type(n)) THEN n
    ELSE Make(Type(n), SplicedAll(Results(visited), Type(n)))

(* Transform::visit_lin *)
Rebuild(n, visited) ==
    LET type == Type(n) IN
    IF Absorb(type) \in Results(visited) THEN Absorb(type)
    ELSE IF ~ Changed(visited, type) THEN n
    ELSE Make(type, SplicedAll(Results(visited), type))

(* Transform::visit_not *)
RebuildNot(n, r) == IF r # Operand(n) THEN MakeNot(r) ELSE n

(* Reduce: a substitution put into a circuit. *)
Reduce(n, sub) ==
    LET reduced[m \in Node] ==
            CASE IsConst(m) -> m
              [] Type(m) = "LITERAL" ->
                    IF Assigns(sub, m) THEN ConstNode(m \in sub) ELSE m
              [] Type(m) = "NEGATION" -> RebuildNot(m, reduced[Operand(m)])
              [] OTHER ->
                    Rebuild(m, {<<o, reduced[o]>> : o \in Operands(m)})
    IN  reduced[n]

(* Simplify::has_neg *)
HasNeg(ops) ==
    ContainsCompl(ops) \/ \E n \in ops : Type(n) = "NEGATION" /\ Operand(n) \in ops

(* Simplify::make_substitution: in an AND its literals are true, in an OR   *)
(* they are false.  Plausible mistake: they are true in both.               *)
UnitSubstitutionSameSign(type, lits) == lits
UnitSubstitution(type, lits) == IF type = "AND" THEN lits ELSE {Complement(n) : n \in lits}

(* Simplify::visit_and_or: in a gate with literals and other operands the  *)
(* literals are put into the others.  (The code looks for complements only *)
(* among fewer than 20 operands; when a variable has both its literals in  *)
(* the gate the substitution has one of them, and the gate is constant.)   *)
PropagateUnits(n, visited) ==
    LET type == Type(n)
        mixed == \E r, s \in Results(visited) : Type(r) = "LITERAL" /\ Type(s) # "LITERAL"
        recursed == SplicedAll(Results(visited), type)
        lits == {r \in recursed : Type(r) = "LITERAL"}
        sub == UnitSubstitution(type, lits)
        others == {<<o, Reduce(o, sub)>> : o \in recursed \ lits}
        reduced == lits \cup SplicedAll(Results(others), type)
    IN  IF ~ mixed THEN (IF Changed(visited, type) THEN Make(type, recursed) ELSE n)
        ELSE IF ~ Changed(visited, type) /\ ~ Changed(others, type) THEN n
        ELSE IF HasNeg(reduced) THEN Absorb(type)
        ELSE Make(type, reduced)

(* Simplify, given nodes known to be true (the ones the SAT solver of the  *)
(* MiniSat build has fixed, EncoderToSAT::get_val).                        *)
Simplify(n, known) ==
    LET simplified[m \in Node] ==
            IF m \in known THEN TrueNode
            ELSE IF MakeNot(m) \in known THEN FalseNode
            ELSE IF IsConst(m) \/ Type(m) = "LITERAL" THEN m
            ELSE IF Type(m) = "NEGATION" THEN RebuildNot(m, simplified[Operand(m)])
            ELSE IF Unit THEN PropagateUnits(m, {<<o, simplified[o]>> : o \in Operands(m)})
            ELSE Rebuild(m, {<<o, simplified[o]>> : o \in Operands(m)})
    IN  simplified[n]

-----------------------------------------------------------------------------
(* EvalUp: the value the propagation from the inputs gives a node, "TRUE", *)
(* "FALSE" or "UNDEF".  A constant that is an operand never enters m_vals, *)
(* so it does not count as true or false there.                            *)
Undefined == "UNDEF"
ValueOf(b) == IF b THEN "TRUE" ELSE "FALSE"

Negated(value) ==
    IF value = Undefined THEN Undefined ELSE ValueOf(value = "FALSE")

Propagated(n, vals) ==
    LET value[m \in Node] ==
            CASE IsConst(m) -> Undefined
              [] Type(m) = "LITERAL" ->
                    IF Assigns(vals, m) THEN ValueOf(m \in vals) ELSE Undefined
              [] Type(m) = "NEGATION" -> Negated(value[Operand(m)])
              [] OTHER ->
                    LET values == {value[o] : o \in Operands(m)}
                        decides == ValueOf(Type(m) = "OR")     \* m_push: one operand is enough
                        otherwise == ValueOf(Type(m) = "AND")  \* m_may: it takes all of them
                    IN  IF decides \in values THEN decides
                        ELSE IF values = {otherwise} THEN otherwise ELSE Undefined
    IN  value[n]

\* plausible mistake: a negation passes on its operand's value
EvalUpKeepsSign(n, vals) ==
    IF Type(n) = "NEGATION" THEN Propagated(Operand(n), vals) ELSE Propagated(n, vals)
EvalUp(n, vals) == IF IsConst(n) THEN ValueOf(n = TrueNode) ELSE Propagated(n, vals)

(* Eval: three-valued evaluation from the top.                             *)
Eval(n, vals) ==
    LET value[m \in Node] ==
            CASE IsConst(m) -> ValueOf(m = TrueNode)
              [] Type(m) = "LITERAL" ->
                    IF Assigns(vals, m) THEN ValueOf(m \in vals) ELSE Undefined
              [] Type(m) = "NEGATION" -> Negated(value[Operand(m)])
              [] OTHER ->
                    LET values == {value[o] : o \in Operands(m)}
                        decides == ValueOf(Type(m) = "OR")
                    IN  IF decides \in values THEN decides
                        ELSE IF Undefined \in values THEN Undefined
                        ELSE ValueOf(Type(m) = "AND")
    IN  value[n]

(* Plausible mistake: the cut is not looked for below an unknown gate.     *)
FindCutTop(n, vals) ==
    IF EvalUp(n, vals) = Undefined THEN {}
    ELSE {IF EvalUp(n, vals) = "TRUE" THEN n ELSE MakeNot(n)}

(* FindCut: the topmost nodes whose value is known, each as the literal    *)
(* (the node or its negation) that is true.                                *)
FindCut(n, vals) ==
    LET cut[m \in Node] ==
            IF IsConst(m) THEN {m} \ {FalseNode}
            ELSE IF EvalUp(m, vals) # Undefined
            THEN {IF EvalUp(m, vals) = "TRUE" THEN m ELSE MakeNot(m)}
            ELSE UNION {cut[o] : o \in Children(m)}
    IN  cut[n]

(* MaxQLev: the highest level among those of the given variables that      *)
(* occur in a node, -1 if none does.                                       *)
MaxQLev(n, vs, level) ==
    LET highest[m \in Node] ==
            IF Type(m) = "LITERAL"
            THEN IF LitVar(m) \in vs THEN level[LitVar(m)] ELSE -1
            ELSE Max({-1} \cup {highest[o] : o \in Children(m)})
    IN  highest[n]

(* MakePossible: a circuit over the variables dom that is true wherever    *)
(* node n can have the value wanted: a variable of opp has its value, any  *)
(* other variable outside dom has at every occurrence the value that suits.*)
MakePossible(n, wanted, dom, opp) ==
    LET possible[m \in Node] ==
          [w \in BOOLEAN |->
            CASE IsConst(m) -> ConstNode((m = TrueNode) = w)
              [] Type(m) = "LITERAL" ->
                    IF LitVar(m) \in dom THEN (IF w THEN m ELSE Complement(m))
                    ELSE IF Assigns(opp, m) THEN ConstNode((m \in opp) = w)
                    ELSE TrueNode
              [] Type(m) = "NEGATION" -> possible[Operand(m)][~ w]
              [] OTHER ->
                    LET type == IF w THEN Type(m) ELSE Dual(Type(m))
                        visited == {<<o, possible[o][w]>> : o \in Operands(m)}
                    IN  IF Absorb(type) \in Results(visited) THEN Absorb(type)
                        ELSE IF Type(m) = type /\ ~ Changed(visited, type) THEN m
                        ELSE Make(type, SplicedAll(Results(visited), type))]
    IN  possible[n][wanted]
=============================================================================
