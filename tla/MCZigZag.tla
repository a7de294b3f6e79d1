------------------------------ MODULE MCZigZag ------------------------------
(***************************************************************************)
(* Small prefixes and families of matrices for ZigZag.                     *)
(***************************************************************************)
EXTENDS ZigZag, TLC

Block(type, vs) == [type |-> type, vars |-> vs]
E(vs) == Block("EXISTENTIAL", vs)
A(vs) == Block("UNIVERSAL", vs)

PrefixEAE  == <<E({1}), A({2}), E({3})>>
PrefixEAEA == <<E({1}), A({2}), E({3}), A({4})>>
PrefixAE   == <<A({1}), E({2})>>
\* neighbours of the same quantifier, and blocks without variables
PrefixGaps == <<A({}), E({1}), A({2}), A({}), E({3})>>

Vars == UNION {Prefix[i].vars : i \in DOMAIN Prefix} \cup FreeVars
Lits == {Literal(v, b) : v \in Vars, b \in BOOLEAN}
Inputs == {Literal(v, TRUE) : v \in Vars}

Gates(type) == {Make(type, {a, b}) : a, b \in Lits}
Ite(c, g, h) == MakeAnd({MakeOr({MakeNot(c), g}), MakeOr({c, h})})
Xor(a, b) == MakeOr({MakeAnd({a, MakeNot(b)}), MakeAnd({MakeNot(a), b})})

\* two gates under a third
TwoGates ==
    {MakeAnd({g, h}) : g, h \in Gates("OR")} \cup {MakeOr({g, h}) : g, h \in Gates("AND")}
\* one input decides between two gates
Muxes == {Ite(c, g, h) : c \in Inputs, g, h \in Gates("AND") \cup Gates("OR")}
\* the last variable or the free one decides between a parity and a gate
DeepMuxes ==
    {Ite(c, Xor(a, b), MakeOr({MakeNot(a), d})) :
        c \in {Literal(4, TRUE), Literal(5, TRUE)}, a, b, d \in Inputs}
\* everything is true
Tautology == {TrueNode}
=============================================================================
