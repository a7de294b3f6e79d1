------------------------------- MODULE Parser -------------------------------
(***************************************************************************)
(* Reading a formula: QCIRParser (qcir_parser.cpp), whose callbacks        *)
(* QestoQCIRParser (qesto_qcir_parser.h) turns into a prefix and circuits. *)
(*                                                                         *)
(* The input is read statement by statement: quantifier blocks, the        *)
(* output, gates, the end of the file.  Every statement that can be read   *)
(* at a point is tried there.  Names are model values; variables are       *)
(* numbered in the order they are declared.                                *)
(***************************************************************************)
EXTENDS Circuit, Sequences, SequencesExt, Functions

CONSTANTS
    VarNames,     \* the names that occur in quantifier blocks
    GateNames,    \* the names that occur as gates; may overlap VarNames
    GateTypes,    \* the gates that occur: "and", "or", "xor", "ite"
    Enumerate,    \* options.enumerate
    MaxBlocks, MaxBlockSize, MaxGates, MaxArgs     \* bounds on the input

ASSUME ParserAssumption ==
    /\ Enumerate \in BOOLEAN
    /\ GateTypes \subseteq {"and", "or", "xor", "ite"}
    /\ {MaxBlocks, MaxBlockSize, MaxGates, MaxArgs} \subseteq Nat

VARIABLES
    stage,       \* "prefix", "gates", "closed" (read to the end), "error"
    counter,     \* qblock_prefix: blocks read
    free,        \* m_qfla.free
    has_free,    \* m_has_free
    pref,        \* m_qfla.pref: a sequence of [type, vars]
    name2var,    \* m_name2var
    output_lit,  \* m_output_lit: [sign, name]
    name2id,     \* m_name2id
    output,      \* m_qfla.output, once the file is closed
    last_id,     \* the node of the gate defined last
    meaning      \* what the gates read so far mean: for every gate name the
                 \* assignments of the declared variables that make it true

vars == <<stage, counter, free, has_free, pref, name2var, output_lit, name2id, output,
          last_id, meaning>>
prefix_vars == <<counter, free, has_free, pref, name2var>>

-----------------------------------------------------------------------------
Names == VarNames \cup GateNames
Lits == [sign : BOOLEAN, name : Names]
Declared == Range(name2var)
Assignments == [Declared -> BOOLEAN]

EmptyFunction == [x \in {} |-> x]
With(f, x, v) == [y \in DOMAIN f \cup {x} |-> IF y = x THEN v ELSE f[y]]

Init ==
    /\ stage = "prefix"
    /\ counter = 0
    /\ free = {} /\ has_free = FALSE /\ pref = <<>>
    /\ name2var = EmptyFunction
    /\ output_lit = [sign |-> FALSE, name |-> CHOOSE n \in Names : TRUE]
    /\ name2id = EmptyFunction
    /\ output = FalseNode
    /\ last_id = FalseNode
    /\ meaning = EmptyFunction

(* err() and semantic_error end the program. *)
Error ==
    /\ stage' = "error"
    /\ UNCHANGED <<counter, free, has_free, pref, name2var, output_lit, name2id, output,
                   last_id, meaning>>

-----------------------------------------------------------------------------
(* make_varid: variables are numbered from one, in the order of their      *)
(* declarations, and a name is declared once.                              *)
VarsDeclared == Cardinality(DOMAIN name2var)
Redefined(names) == ~ IsInjective(names) \/ Range(names) \cap DOMAIN name2var # {}
\* plausible mistake: numbers start again with every block
BlockVarsFromOne(names) == DOMAIN names
BlockVars(names) == {VarsDeclared + i : i \in DOMAIN names}
NamesVars(names) ==
    [n \in DOMAIN name2var \cup Range(names) |->
        IF n \in DOMAIN name2var THEN name2var[n]
        ELSE VarsDeclared + CHOOSE i \in DOMAIN names : names[i] = n]

(* cb_quant_closed *)
QuantClosed(quant, vs) ==
    CASE quant = "free" -> free' = vs /\ has_free' = TRUE /\ UNCHANGED pref
      [] quant = "exists" ->
            pref' = Append(pref, [type |-> "EXISTENTIAL", vars |-> vs]) /\ UNCHANGED <<free, has_free>>
      [] quant = "forall" ->
            pref' = Append(pref, [type |-> "UNIVERSAL", vars |-> vs]) /\ UNCHANGED <<free, has_free>>

(* qblock_quant and var_list: free variables may come first only.          *)
QBlock ==
    /\ stage = "prefix"
    /\ counter < MaxBlocks
    /\ \E quant \in {"free", "exists", "forall"}, names \in SeqOf(VarNames, MaxBlockSize) :
        \/ /\ (quant = "free" /\ counter > 0) \/ Redefined(names)
           /\ Error
        \/ /\ quant = "free" => counter = 0
           /\ ~ Redefined(names)
           /\ counter' = counter + 1
           /\ name2var' = NamesVars(names)
           /\ QuantClosed(quant, BlockVars(names))
           /\ UNCHANGED <<stage, output_lit, name2id, output, last_id, meaning>>

(* output_stmt ends the prefix. *)
OutputStmt ==
    /\ stage = "prefix"
    /\ \E l \in Lits : output_lit' = l
    /\ stage' = "gates"
    /\ UNCHANGED <<prefix_vars, name2id, output, last_id, meaning>>

-----------------------------------------------------------------------------
(* get_ID: a name is a gate if there is one of that name, else a variable. *)
Known(name) == name \in DOMAIN name2id \cup DOMAIN name2var
GetID(l) ==
    IF l.name \in DOMAIN name2id
    THEN IF l.sign THEN MakeNot(name2id[l.name]) ELSE name2id[l.name]
    ELSE Literal(name2var[l.name], ~ l.sign)

(* make_gate; xor and ite use the factory's functions of two operands,     *)
(* which drop constants at once.                                           *)
And2(m, n) ==
    CASE m = TrueNode -> n
      [] m # TrueNode /\ n = TrueNode -> m
      [] FalseNode \in {m, n} /\ TrueNode \notin {m, n} -> FalseNode
      [] ~ IsConst(m) /\ ~ IsConst(n) -> MakeAnd({m, n})
Or2(m, n) ==
    CASE m = FalseNode -> n
      [] m # FalseNode /\ n = FalseNode -> m
      [] TrueNode \in {m, n} /\ FalseNode \notin {m, n} -> TrueNode
      [] ~ IsConst(m) /\ ~ IsConst(n) -> MakeOr({m, n})

\* plausible mistake: the last operand of an ite is not guarded
MakeIteUnguarded(c, t, e) == Or2(And2(c, t), e)
MakeXor(m, n) == And2(Or2(m, n), Or2(MakeNot(m), MakeNot(n)))
MakeIte(c, t, e) == Or2(And2(c, t), And2(MakeNot(c), e))

Arity(gate, args) ==
    /\ gate = "xor" => Len(args) = 2
    /\ gate = "ite" => Len(args) = 3
MakeGate(gate, ids) ==
    CASE gate = "and" -> MakeAnd(Range(ids))
      [] gate = "or"  -> MakeOr(Range(ids))
      [] gate = "xor" -> MakeXor(ids[1], ids[2])
      [] gate = "ite" -> MakeIte(ids[1], ids[2], ids[3])

(* What the statement says, name by name. *)
TrueIn(l, e) ==
    l.sign # (IF l.name \in DOMAIN name2id THEN e \in meaning[l.name] ELSE e[name2var[l.name]])
GateTrue(gate, args, e) ==
    CASE gate = "and" -> \A i \in DOMAIN args : TrueIn(args[i], e)
      [] gate = "or"  -> \E i \in DOMAIN args : TrueIn(args[i], e)
      [] gate = "xor" -> TrueIn(args[1], e) # TrueIn(args[2], e)
      [] gate = "ite" -> IF TrueIn(args[1], e) THEN TrueIn(args[2], e) ELSE TrueIn(args[3], e)

(* define_gate: a gate is defined once.                                    *)
DefineGate(name, id) == name2id' = With(name2id, name, id)

(* gate_stmt and cb_gate_closed: the operands are looked up as they are    *)
(* read.                                                                   *)
GateStmt ==
    /\ stage = "gates"
    /\ Cardinality(DOMAIN name2id) < MaxGates
    /\ \E name \in GateNames, gate \in GateTypes, args \in SeqOf(Lits, MaxArgs) :
        IF \/ \E i \in DOMAIN args : ~ Known(args[i].name)
           \/ ~ Arity(gate, args)
           \/ name \in DOMAIN name2id
        THEN Error
        ELSE /\ last_id' = MakeGate(gate, [i \in DOMAIN args |-> GetID(args[i])])
             /\ DefineGate(name, last_id')
             /\ meaning' = With(meaning, name, {e \in Assignments : GateTrue(gate, args, e)})
             /\ UNCHANGED <<stage, prefix_vars, output_lit, output>>

(* cb_file_closed, and what main checks before it solves: the output is a  *)
(* gate, and free variables are for enumeration only.                      *)
FileClosed ==
    /\ stage = "gates"
    /\ IF output_lit.name \notin DOMAIN name2id \/ (free # {} /\ ~ Enumerate)
       THEN Error
       ELSE /\ stage' = "closed"
            /\ LET id == name2id[output_lit.name]
               IN  output' = IF output_lit.sign THEN MakeNot(id) ELSE id
            /\ UNCHANGED <<prefix_vars, output_lit, name2id, last_id, meaning>>

Next == QBlock \/ OutputStmt \/ GateStmt \/ FileClosed
Spec == Init /\ [][Next]_vars

-----------------------------------------------------------------------------
(* The prefix is a partition: every declared variable is in one block or   *)
(* free, under one number, in the order of the declarations.  LevelInfo    *)
(* and the vector it indexes by variable (level_info.cpp) rely on it.      *)
PrefixPartition ==
    LET blocks == <<free>> \o [i \in DOMAIN pref |-> pref[i].vars]
    IN  /\ IsInjective(name2var)
        /\ UNION Range(blocks) = Declared
        /\ \A i, j \in DOMAIN blocks : i < j =>
            \A v \in blocks[i], w \in blocks[j] : v < w

(* Every circuit the parser makes computes what its gates say, whatever    *)
(* the factory does to operands that repeat, are complementary or constant *)
(* (expressions.cpp), and every variable in it is a declared one; and what *)
(* is solved is what the file's output statement says.                     *)
FileMeans ==
    /\ \A g \in DOMAIN name2id :
        /\ VarsOf(name2id[g]) \subseteq Declared
        /\ \A e \in Assignments : Holds(name2id[g], e) = (e \in meaning[g])
    /\ stage = "closed" =>
        \A e \in Assignments :
            Holds(output, e) = (output_lit.sign # (e \in meaning[output_lit.name]))
=============================================================================
