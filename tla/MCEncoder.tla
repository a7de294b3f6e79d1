------------------------------ MODULE MCEncoder ------------------------------
(* Encoder for two variables whose numbers leave a gap, and constraints    *)
(* that share nodes, contradict each other and need each other's facts.    *)
EXTENDS Encoder, TLC

P(v) == Literal(v, TRUE)
N(v) == Literal(v, FALSE)
And(ops) == <<"AND", ops>>
Or(ops)  == <<"OR", ops>>
Not(n)   == <<"NEGATION", n>>

Both == And({P(1), P(3)})
MCConstraints ==
    {P(1), Both, Not(Both), Or({N(3), Not(Both)}), Or({Both, And({N(1), N(3)})})}
MCBuilds == {<<"minisat", "orig">>, <<"ipasir", "last">>, <<"cms", "simple">>}
=============================================================================
