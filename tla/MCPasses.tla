------------------------------ MODULE MCPasses ------------------------------
(* One kind of file is enough for the passes: a block of existential       *)
(* variables, the output chosen beforehand, the gates named in order.      *)
EXTENDS Passes, TLC

CONSTANTS FirstGate, SecondGate
OneFile ==
    /\ counter > 0 =>
        /\ VarsDeclared = MaxBlockSize
        /\ \A i \in DOMAIN pref : pref[i].type = "EXISTENTIAL"
    /\ free = {}
    /\ stage = "gates" => output_lit = [sign |-> FALSE, name |-> FirstGate]
    /\ FirstGate \notin DOMAIN name2id => DOMAIN name2id = {}
    /\ SecondGate \notin DOMAIN name2id => DOMAIN name2id \subseteq {FirstGate}
=============================================================================
