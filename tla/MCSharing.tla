------------------------------ MODULE MCSharing ------------------------------
(* Sharing with two elements and a hash code that collides.                *)
EXTENDS Sharing

MCHash == [es \in SUBSET Element |-> Cardinality(es)]
=============================================================================
