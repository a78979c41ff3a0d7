--------------------------- MODULE FlowHandshake ---------------------------
(***************************************************************************)
(* The handshake of a session against what it should record: a session is  *)
(* fed TCP control packets as FlowAggregator does, and beside it the       *)
(* packets themselves are remembered as far as a handshake needs them.     *)
(***************************************************************************)
EXTENDS FlowSession

CONSTANTS
    Segments,       \* the TCP packets there may be, see SegmentType
    SameNumber      \* whether a host's SYN-ACK always repeats the number of its own SYN

SegmentType == [low : BOOLEAN, flags : SUBSET {"S", "A", "F", "R"}, seq : 0..SeqSpace - 1,
                ack : 0..SeqSpace - 1, payload : BOOLEAN]

ASSUME HandshakeAssumption == Segments \subseteq SegmentType /\ SameNumber \in BOOLEAN

VARIABLES
    st,         \* the session
    open,       \* whether there is one
    syns,       \* <<side, seq>> of its SYNs
    answered,   \* <<side, seq, answer>>: a SYN, and the number of a later SYN-ACK that acknowledges it
    complete    \* whether an ACK has followed that continues a SYN and acknowledges its answer

handshakeVars == <<st, open, syns, answered, complete>>

HandshakeInit ==
    /\ open = FALSE /\ st = [none |-> TRUE]
    /\ syns = {} /\ answered = {} /\ complete = FALSE

Following(n) == (n + 1) % SeqSpace

\* What the packets so far say, after one more from this side.
Remember(side, in, before, pairs, done) ==
    /\ syns' = before \cup (IF InitiatingSyn(in) THEN {<<side, in.seq>>} ELSE {})
    /\ answered' = pairs \cup {<<y[1], y[2], in.seq>> :
                        y \in {x \in before : Flag(in, "S") /\ Flag(in, "A") /\ x[1] # side /\ in.ack = Following(x[2])}}
    /\ complete' = (done \/ \E p \in pairs : /\ Flag(in, "A") /\ ~Flag(in, "S") /\ p[1] = side
                                             /\ in.seq = Following(p[2]) /\ in.ack = Following(p[3]))

\* With SameNumber, a side that opens simultaneously answers under its own SYN's number.
Sent(side, in) ==
    SameNumber /\ Flag(in, "S") /\ Flag(in, "A") => \A x \in syns : x[1] = side => x[2] = in.seq

Start(in) ==
    LET new == Opened(in, 1)
    IN  /\ open => InitiatingSyn(in) /\ Reused(st, in)
        /\ open' = TRUE /\ st' = Evidence(new, in)
        /\ Remember(SideOf(new, in), in, {}, {}, FALSE)

Continue(in) ==
    /\ open /\ ~(InitiatingSyn(in) /\ Reused(st, in)) /\ Sent(SideOf(st, in), in)
    /\ st' = Evidence(st, in) /\ UNCHANGED open
    /\ Remember(SideOf(st, in), in, syns, answered, complete)

\* A reset ends the session.
Close ==
    /\ open /\ st.reset_seen
    /\ open' = FALSE /\ st' = [none |-> TRUE] /\ syns' = {} /\ answered' = {} /\ complete' = FALSE

HandshakeNext == Close \/ (~(open /\ st.reset_seen) /\ \E in \in Segments : Start(in) \/ Continue(in))
HandshakeSpec == HandshakeInit /\ [][HandshakeNext]_handshakeVars

\* handshake_complete "requires observed initiating SYN, opposite SYN-ACK acknowledging
\* SYN+1, then initiating-side non-SYN ACK with matching sequence and acknowledgement".
HandshakeSound == open => (st.handshake_complete => complete)

\* A session of two initiating SYNs, one from each side, is flagged as a simultaneous
\* open, and no session has two from one side with different numbers.
SynsExplained ==
    open => /\ \A x, y \in syns : x[1] = y[1] => x = y
            /\ st.simultaneous_open <=> \E x, y \in syns : x[1] # y[1]

\* What a session says of its handshake is what its packets show (HandshakeSound,
\* SynsExplained).
EvidenceExact == HandshakeSound /\ SynsExplained
=============================================================================
