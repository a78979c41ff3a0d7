-------------------------- MODULE MCFlowAggregator --------------------------
(* Instances of FlowAggregator for TLC. *)
EXTENDS FlowAggregator, TLC

Make(key, interface, low, flags, seq, ack) ==
    [key |-> key, interface |-> interface, low |-> low, flags |-> flags, seq |-> seq, ack |-> ack,
     payload |-> FALSE]

\* Two TCP sessions and one UDP session on two interfaces.
ThreeKeys == 1..3
TwoTcp == {1, 2}
TwoInterfaces == (1 :> "i1") @@ (2 :> "i1") @@ (3 :> "i2")
Ack == Make(1, "i1", TRUE, {"A"}, 0, 0)
Syn == Make(1, "i1", TRUE, {"S"}, 0, 0)
Reset == Make(1, "i1", TRUE, {"A", "R"}, 0, 0)
Other == Make(2, "i1", TRUE, {"A"}, 0, 0)
Datagram == Make(3, "i2", TRUE, {}, 0, 0)
NotAFlow == Make(None, "i3", TRUE, {}, 0, 0)
LifeInputs == {Ack, Syn, Reset, Other, Datagram, NotAFlow}
\* Session 1 is refreshed, reused, reset or loses its clock; session 2 is behind it or
\* finds it overdue; session 3 is refreshed, expires, or is stamped too late to expire.
LifeStamps ==
    (Ack :> {0, 1}) @@ (Syn :> {1, NoTime}) @@ (Reset :> {1}) @@ (Other :> {0, 3}) @@ (Datagram :> {0, 1, 3})
    @@ (NotAFlow :> {3})
=============================================================================
