-------------------------- MODULE MCTcpReassembly --------------------------
(* Instances of TcpReassembly for TLC. *)
EXTENDS TcpReassembly, TLC

\* A connection (ab, ba), and a socket connected to itself (cc), on one interface.
ThreeKeys == {"ab", "ba", "cc"}
ThreeReverse == ("ab" :> "ba") @@ ("ba" :> "ab") @@ ("cc" :> "cc")
OneInterface == [k \in ThreeKeys |-> "i1"]
TwoInterfaces == ("ab" :> "i1") @@ ("ba" :> "i1") @@ ("cc" :> "i2")

Make(sequence, flags, declared, bytes) ==
    [sequence |-> sequence, syn |-> "S" \in flags, ack |-> "A" \in flags, fin |-> "F" \in flags,
     rst |-> "R" \in flags, declared |-> declared, bytes |-> bytes]

Syn == Make(7, {"S"}, 0, <<>>)
Data == Make(0, {"A"}, 1, <<1>>)
BareReset == Make(0, {"R"}, 0, <<>>)
BareAck == Make(0, {"A"}, 0, <<>>)

\* What the timing run sends: enough to open, feed and reopen directions.
TimedPackets == {Syn, Data}

\* What the buffering run sends: SYNs of two connections, overlapping and rewritten
\* segments, FINs in two places, a segment longer than it declares, one too long for
\* the limits, one cut to nothing, and resets with data.
ContentPackets ==
    {Syn, Make(3, {"S"}, 0, <<>>), Make(3, {"S", "A"}, 0, <<>>), Data, Make(0, {}, 2, <<1, 2>>),
     Make(1, {}, 1, <<3>>), Make(1, {"F"}, 0, <<>>), Make(1, {"F"}, 1, <<2>>),
     Make(0, {}, 1, <<1, 1>>), Make(0, {}, 4, <<1, 1, 1, 1>>), Make(0, {}, 2, <<>>),
     Make(2, {"R"}, 1, <<1>>), BareReset, BareAck}
NoTimes == {}
=============================================================================
