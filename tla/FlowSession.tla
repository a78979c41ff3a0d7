---------------------------- MODULE FlowSession ----------------------------
(***************************************************************************)
(* One session of read_flows: who opened it, what its TCP packets say of   *)
(* the handshake, and when a SYN on its tuple starts another session.      *)
(* Side 0 is the originator.  Source: src/src/flow_aggregator.cpp.         *)
(***************************************************************************)
EXTENDS Integers

CONSTANTS
    SeqSpace,       \* 2^32
    NoTime

ASSUME SessionAssumption == SeqSpace \in Nat \ {0} /\ NoTime \notin Int

\* A session; of each side, the numbers of the packets counted (Session).
Session ==
    [orig_is_low : BOOLEAN, section : Nat, packets : [{0, 1} -> SUBSET Nat],
     last_timestamp : Int \cup {NoTime}, missing_timestamps : Nat, late_packets : Nat,
     syn : [{0, 1} -> BOOLEAN], syn_ack : [{0, 1} -> BOOLEAN], sequence : [{0, 1} -> 0..SeqSpace - 1],
     handshake_closed : BOOLEAN, handshake_complete : BOOLEAN, simultaneous_open : BOOLEAN,
     fin_seen : BOOLEAN, reset_seen : BOOLEAN, scheduled : BOOLEAN, deadline : Int, queued : Int]

Flag(in, f) == f \in in.flags
SideOf(st, in) == IF in.low = st.orig_is_low THEN 0 ELSE 1
InitiatingSyn(in) == Flag(in, "S") /\ ~Flag(in, "A")

\* Whether a SYN starts a new session on a tuple already in use.
Reused(st, in) ==
    LET side == SideOf(st, in)
        active == ~st.handshake_closed /\ ~st.handshake_complete /\ ~st.fin_seen
        retransmit == active /\ st.syn[side] /\ st.sequence[side] = in.seq
        simultaneous == active /\ ~st.syn[side] /\ st.syn[1 - side] /\ ~st.syn_ack[side]
    IN  ~retransmit /\ ~simultaneous

\* Open: who opened the session.
Opened(in, section) ==
    [orig_is_low |-> IF Flag(in, "S") /\ Flag(in, "A") THEN ~in.low ELSE in.low,
     section |-> section, packets |-> [d \in {0, 1} |-> {}],
     last_timestamp |-> NoTime, missing_timestamps |-> 0, late_packets |-> 0,
     syn |-> [d \in {0, 1} |-> FALSE], syn_ack |-> [d \in {0, 1} |-> FALSE],
     sequence |-> [d \in {0, 1} |-> 0], handshake_closed |-> FALSE, handshake_complete |-> FALSE,
     simultaneous_open |-> FALSE, fin_seen |-> FALSE, reset_seen |-> FALSE,
     scheduled |-> FALSE, deadline |-> 0, queued |-> 0]

\* Mutant of Evidence: a SYN-ACK need not acknowledge the SYN.
EvidenceUnacknowledged(st, in) ==
    LET side == SideOf(st, in)
        other == 1 - side
        seen == [st EXCEPT !.handshake_closed = @ \/ (~Flag(in, "S") /\ (Flag(in, "A") \/ in.payload)),
                           !.fin_seen = @ \/ Flag(in, "F"), !.reset_seen = @ \/ Flag(in, "R")]
    IN  CASE InitiatingSyn(in) ->
               [seen EXCEPT !.simultaneous_open = @ \/ st.syn[other], !.syn[side] = TRUE, !.sequence[side] = in.seq]
          [] Flag(in, "S") /\ Flag(in, "A") ->
               IF st.syn[other] THEN [seen EXCEPT !.syn_ack[side] = TRUE, !.sequence[side] = in.seq] ELSE seen
          [] OTHER ->
               [seen EXCEPT !.handshake_complete = @ \/
                   /\ Flag(in, "A") /\ st.syn[side] /\ st.syn_ack[other]
                   /\ in.ack = (st.sequence[other] + 1) % SeqSpace /\ in.seq = (st.sequence[side] + 1) % SeqSpace]

\* Account: what a TCP record says of the handshake, and the end of the session.
Evidence(st, in) ==
    LET side == SideOf(st, in)
        other == 1 - side
        Acks(n) == in.ack = (n + 1) % SeqSpace
        seen == [st EXCEPT !.handshake_closed = @ \/ (~Flag(in, "S") /\ (Flag(in, "A") \/ in.payload)),
                           !.fin_seen = @ \/ Flag(in, "F"), !.reset_seen = @ \/ Flag(in, "R")]
    IN  CASE InitiatingSyn(in) ->
               [seen EXCEPT !.simultaneous_open = @ \/ st.syn[other], !.syn[side] = TRUE, !.sequence[side] = in.seq]
          [] Flag(in, "S") /\ Flag(in, "A") ->
               IF st.syn[other] /\ Acks(st.sequence[other])
               THEN [seen EXCEPT !.syn_ack[side] = TRUE, !.sequence[side] = in.seq] ELSE seen
          [] OTHER ->
               [seen EXCEPT !.handshake_complete = @ \/
                   /\ Flag(in, "A") /\ st.syn[side] /\ st.syn_ack[other]
                   /\ Acks(st.sequence[other]) /\ in.seq = (st.sequence[side] + 1) % SeqSpace]
=============================================================================
