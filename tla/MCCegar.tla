------------------------------ MODULE MCCegar ------------------------------
(* A small prefix for Cegar; the matrix ranges over all of its matrices.   *)
EXTENDS Cegar

\* E f  A u  E x
VarEAE == {"f", "u", "x"}
QLevEAE == [v \in VarEAE |-> CASE v = "f" -> 0 [] v = "u" -> 1 [] v = "x" -> 2]
TypesEAE == [l \in 0 .. 2 |-> IF l = 1 THEN "UNIVERSAL" ELSE "EXISTENTIAL"]
=============================================================================
