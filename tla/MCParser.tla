------------------------------ MODULE MCParser ------------------------------
(* All prefixes are read; gates are read after one of them, a block of all *)
(* variables: gates do not depend on the blocks.                           *)
EXTENDS Parser, TLC

GatesAfterOneBlock ==
    DOMAIN name2id # {} =>
        /\ DOMAIN name2var = VarNames
        /\ Len(pref) = 1 /\ counter = 1
        /\ \A i \in DOMAIN pref : pref[i].type = "EXISTENTIAL"
=============================================================================
