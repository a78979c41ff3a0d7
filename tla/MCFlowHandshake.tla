-------------------------- MODULE MCFlowHandshake --------------------------
(* Instance of FlowHandshake for TLC: control packets both ways, no payload. *)
EXTENDS FlowHandshake

ControlFlags == {{"S"}, {"S", "A"}, {"A"}, {"A", "F"}, {"A", "R"}}
ControlSegments ==
    {[low |-> low, flags |-> flags, seq |-> seq, ack |-> ack, payload |-> FALSE] :
        low \in BOOLEAN, flags \in ControlFlags, seq \in 0..SeqSpace - 1, ack \in 0..SeqSpace - 1}
=============================================================================
