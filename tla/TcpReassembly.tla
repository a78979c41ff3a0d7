--------------------------- MODULE TcpReassembly ---------------------------
(***************************************************************************)
(* The life of TCP directions in TcpReassembler: Add(), one packet at a    *)
(* time, and FinishNext() at the end of the file.  A call of Add() is a    *)
(* sequence of steps that nothing else interrupts: the packet and the      *)
(* clock (Packet), each pass of Expire's loop, the removals for a reused   *)
(* tuple, the packet itself (Ignore, Refuse or Apply), and the removals    *)
(* for a RST.  `call' holds the packet and where the call has got to.      *)
(*                                                                         *)
(* Abstracted: the key is a model value with a reverse and a scope (its    *)
(* section and interface); ties in the expiry order and the order of       *)
(* flows.begin() are left open; the first and last stamps are only copied  *)
(* to the row and are left out.  `rows' collects what Add returned.        *)
(* Source: src/src/tcp_reassembly.cpp.                                     *)
(***************************************************************************)
EXTENDS StreamAssembly, Functions

CONSTANTS
    Keys, Reverse, Scopes, ScopeOf,    \* [Keys -> Keys], [Keys -> Scopes]
    Packets,            \* the packets that may arrive, without key and timestamp
    Times, NoTime,      \* the timestamps they may carry, or none
    TimeMax,            \* INT64_MAX
    tcp_idle_us, max_flows, max_total_bytes, max_segments, max_total_segments,
    MaxId,              \* UINT64_MAX: no stream identifier left
    MaxPackets,         \* bound: packets in the file
    NoFlow, NoClock

ASSUME ReassemblyAssumption ==
    /\ Reverse \in [Keys -> Keys] /\ \A k \in Keys : Reverse[Reverse[k]] = k
    /\ ScopeOf \in [Keys -> Scopes] /\ \A k \in Keys : ScopeOf[Reverse[k]] = ScopeOf[k]
    /\ Times \subseteq Int /\ TimeMax \in Int /\ \A t \in Times : t <= TimeMax
    /\ NoTime \notin Int /\ NoClock \notin Int
    /\ tcp_idle_us \in Nat /\ max_flows \in Nat /\ max_total_bytes \in Nat
    /\ max_segments \in Nat /\ max_total_segments \in Nat /\ MaxId \in Nat \ {0} /\ MaxPackets \in Nat
    /\ Packets \subseteq [sequence : SeqNums, syn : BOOLEAN, ack : BOOLEAN, fin : BOOLEAN,
                          rst : BOOLEAN, declared : Nat, bytes : Seq(Nat)]

\* A buffered segment, and a tracked direction (Segment, Flow).  `latest' is not in the
\* code: the latest timestamp of the direction's packets, for the properties.
Segment == [sequence : SeqNums, declared : Nat, bytes : Seq(Nat)]
Direction ==
    [id : Nat, syn : SeqNums \cup {NoSeq}, fin : SeqNums \cup {NoSeq}, bytes : Nat,
     failure : {"ok", "limit", "conflict"}, segments : Seq(Segment),
     scheduled : BOOLEAN, untimed : BOOLEAN, deadline : Int, queued : Int, latest : Int \cup {NoTime}]

ASSUME NoFlowAssumption == NoFlow \notin Direction

VARIABLES
    flows,              \* [Keys -> a direction, or NoFlow]
    expiry,             \* [Scopes -> set of <<queued deadline, key>>]
    clock,              \* [Scopes -> Scope::watermark, or NoClock when there is no scope]
    buffered_bytes, buffered_segments, next_id,
    call,               \* the call in progress
    count,              \* packets so far
    rows                \* the streams returned so far

vars == <<flows, expiry, clock, buffered_bytes, buffered_segments, next_id, call, count, rows>>
tableVars == <<flows, expiry, clock, buffered_bytes, buffered_segments>>

Live(k) == flows[k] # NoFlow
Size == Cardinality({k \in Keys : Live(k)})

\* What a new direction looks like (Track, the members' initialisers of Flow).
NewFlow(id) ==
    [id |-> id, syn |-> NoSeq, fin |-> NoSeq, bytes |-> 0, failure |-> "ok", segments |-> <<>>,
     scheduled |-> FALSE, untimed |-> FALSE, deadline |-> 0, queued |-> 0, latest |-> NoTime]

Idle == [pc |-> "idle"]

Init ==
    /\ flows = [k \in Keys |-> NoFlow]
    /\ expiry = [s \in Scopes |-> {}] /\ clock = [s \in Scopes |-> NoClock]
    /\ buffered_bytes = 0 /\ buffered_segments = 0 /\ next_id = 1
    /\ call = Idle /\ count = 0 /\ rows = {}

-----------------------------------------------------------------------------
(* Remove and Unschedule. *)

Row(k, flow, status, reason) == [id |-> flow.id, key |-> k, status |-> status, finalized_by |-> reason]

\* The scope loses this direction's entry, and goes with its last entry.
Unschedule(k, flow) ==
    LET s == ScopeOf[k]
        left == expiry[s] \ {<<flow.queued, k>>}
    IN  IF flow.scheduled
        THEN /\ expiry' = [expiry EXCEPT ![s] = left]
             /\ clock' = [clock EXCEPT ![s] = IF left = {} THEN NoClock ELSE @]
        ELSE UNCHANGED <<expiry, clock>>

Remove(k, reason) ==
    IF Live(k)
    THEN /\ rows' = rows \cup {Row(k, flows[k], status, reason) : status \in Finish(flows[k])}
         /\ Unschedule(k, flows[k])
         /\ buffered_bytes' = buffered_bytes - flows[k].bytes
         /\ buffered_segments' = buffered_segments - Len(flows[k].segments)
         /\ flows' = [flows EXCEPT ![k] = NoFlow]
    ELSE UNCHANGED <<tableVars, rows>>

-----------------------------------------------------------------------------
(* Expire: the clock of the packet's interface, and the loop over its queue. *)

\* Mutant of Ticked: the clock waits for Schedule to move it.
TickedLater(now, t) == now

\* The clock after a packet stamped t: it restarts when it has stepped back further
\* than the timeout.
Ticked(now, t) == IF t < now /\ now - t > tcp_idle_us THEN t ELSE Max({now, t})

\* Add() is called.  A packet without timestamp, or on an interface with nothing
\* scheduled, moves no clock.
Packet(k, p, t) ==
    /\ call.pc = "idle" /\ count < MaxPackets
    /\ count' = count + 1
    /\ call' = [pc |-> "expire", key |-> k, packet |-> p, time |-> t]
    /\ clock' = IF t = NoTime \/ clock[ScopeOf[k]] = NoClock THEN clock
                ELSE [clock EXCEPT ![ScopeOf[k]] = Ticked(@, t)]
    /\ UNCHANGED <<flows, expiry, buffered_bytes, buffered_segments, next_id, rows>>

\* The loop's condition, and an earliest entry of the queue.
Expiring ==
    /\ call.pc = "expire" /\ call.time # NoTime
    /\ \E e \in expiry[ScopeOf[call.key]] : e[1] < clock[ScopeOf[call.key]]
Front(e) ==
    /\ Expiring
    /\ e \in expiry[ScopeOf[call.key]] /\ \A d \in expiry[ScopeOf[call.key]] : e[1] <= d[1]

\* Mutant of RequeueStale: the entry stays where it is.
RequeueInPlace(e) ==
    /\ Front(e) /\ flows[e[2]].deadline > e[1]
    /\ UNCHANGED vars

\* The direction has seen packets since it was queued: queue it at its real deadline.
RequeueStale(e) ==
    /\ Front(e) /\ flows[e[2]].deadline > e[1]
    /\ expiry' = [expiry EXCEPT ![ScopeOf[call.key]] = (@ \ {e}) \cup {<<flows[e[2]].deadline, e[2]>>}]
    /\ flows' = [flows EXCEPT ![e[2]].queued = flows[e[2]].deadline]
    /\ UNCHANGED <<clock, buffered_bytes, buffered_segments, next_id, call, count, rows>>

\* Mutant of ExpireIdle: the entry's own deadline decides, stale or not.
ExpireQueued(e) ==
    /\ Front(e)
    /\ Remove(e[2], "idle_timeout")
    /\ UNCHANGED <<next_id, call, count>>

ExpireIdle(e) ==
    /\ Front(e) /\ flows[e[2]].deadline <= e[1]
    /\ Remove(e[2], "idle_timeout")
    /\ UNCHANGED <<next_id, call, count>>

-----------------------------------------------------------------------------
(* The packet itself. *)

\* Mutant of NewSyn: only an untracked direction is opened anew.
NewSynUntracked == call.packet.syn /\ ~Live(call.key)

\* A SYN that opens the tuple anew: nothing tracked, or another SYN was.
NewSyn ==
    /\ call.packet.syn
    /\ Live(call.key) => HasSyn(flows[call.key]) /\ flows[call.key].syn # call.packet.sequence

Expired == call.pc = "expire" /\ ~Expiring
Goto(pc) == call' = [call EXCEPT !.pc = pc]

\* "tuple_reuse": this direction, then the other one unless this is a SYN-ACK.
Reuse ==
    /\ Expired /\ NewSyn
    /\ Remove(call.key, "tuple_reuse")
    /\ Goto(IF call.packet.ack THEN "deliver" ELSE "reuse_reverse")
    /\ UNCHANGED <<next_id, count>>
ReuseReverse ==
    /\ call.pc = "reuse_reverse"
    /\ Remove(Reverse[call.key], "tuple_reuse")
    /\ Goto("deliver")
    /\ UNCHANGED <<next_id, count>>

Deliver == call.pc = "deliver" \/ (Expired /\ ~NewSyn)

\* A bare ACK or RST of an untracked direction starts nothing.
Ignore ==
    /\ Deliver /\ ~Live(call.key)
    /\ ~call.packet.syn /\ call.packet.declared = 0 /\ call.packet.bytes = <<>>
    /\ IF call.packet.rst THEN Remove(Reverse[call.key], "reset") ELSE UNCHANGED <<tableVars, rows>>
    /\ call' = Idle
    /\ UNCHANGED <<next_id, count>>

Opens ==
    /\ Deliver /\ ~Live(call.key)
    /\ call.packet.syn \/ call.packet.declared > 0 \/ call.packet.bytes # <<>>

\* Track: no identifier left; overflow_error ends the scan.
Exhaust ==
    /\ Opens /\ next_id = MaxId
    /\ Goto("thrown")
    /\ UNCHANGED <<tableVars, next_id, count, rows>>

\* Track: the table is full, and the packet is reported with an identifier of its own.
Refuse ==
    /\ Opens /\ next_id # MaxId /\ Size >= max_flows
    /\ rows' = rows \cup {Row(call.key, NewFlow(next_id), "limit", "limit")}
    /\ next_id' = next_id + 1
    /\ call' = Idle
    /\ UNCHANGED <<tableVars, count>>

\* A deadline only moves later while the direction stays scheduled.
DeadlineAfter(flow, t) == IF flow.scheduled THEN Max({flow.deadline, t + tcp_idle_us}) ELSE t + tcp_idle_us

\* Schedule: whether this direction can expire at all after a packet stamped t.
Timed(flow, t) == t # NoTime /\ ~flow.untimed /\ tcp_idle_us > 0 /\ t <= TimeMax - tcp_idle_us

Latest(flow, t) == IF t = NoTime THEN flow.latest
                   ELSE IF flow.latest = NoTime THEN t ELSE Max({flow.latest, t})

\* The direction after Schedule.  An entry already queued stays where it is.
Scheduled(flow, t) ==
    LET seen == [flow EXCEPT !.untimed = @ \/ t = NoTime, !.latest = Latest(flow, t)]
    IN  IF ~Timed(flow, t) THEN [seen EXCEPT !.scheduled = FALSE]
        ELSE [seen EXCEPT !.scheduled = TRUE, !.deadline = DeadlineAfter(flow, t),
                          !.queued = IF flow.scheduled THEN @ ELSE DeadlineAfter(flow, t)]

\* The queue and the clock after Schedule.
Queue(k, flow, t) ==
    LET s == ScopeOf[k]
        entry == IF flow.scheduled THEN {} ELSE {<<t + tcp_idle_us, k>>}
    IN  \/ ~Timed(flow, t) /\ Unschedule(k, flow)
        \/ /\ Timed(flow, t) /\ flow.scheduled /\ flow.deadline >= t + tcp_idle_us
           /\ UNCHANGED <<expiry, clock>>
        \/ /\ Timed(flow, t) /\ ~(flow.scheduled /\ flow.deadline >= t + tcp_idle_us)
           /\ expiry' = [expiry EXCEPT ![s] = @ \cup entry]
           /\ clock' = [clock EXCEPT ![s] = IF @ = NoClock THEN t ELSE Max({@, t})]

\* Fail: the direction gives up what it buffered.
Fail(flow, status) == [flow EXCEPT !.bytes = 0, !.segments = <<>>, !.failure = status]

WithSyn(flow, p) == IF p.syn THEN [flow EXCEPT !.syn = p.sequence] ELSE flow
DataSequence(p) == IF p.syn THEN Wrap(p.sequence + 1) ELSE p.sequence

WithFin(flow, p) ==
    LET fin == Wrap(DataSequence(p) + p.declared)
    IN  IF ~p.fin THEN flow
        ELSE [(IF HasFin(flow) /\ flow.fin # fin THEN Fail(flow, "conflict") ELSE flow) EXCEPT !.fin = fin]

\* Mutant of FitsLimits: the totals over all directions are not looked at.
FitsStreamLimits(flow, size) ==
    size <= max_stream_bytes - flow.bytes /\ Len(flow.segments) < max_segments

\* Whether the limits admit one more segment of this size.
FitsLimits(flow, size) ==
    /\ size <= max_stream_bytes - flow.bytes /\ size <= max_total_bytes - buffered_bytes
    /\ Len(flow.segments) < max_segments /\ buffered_segments < max_total_segments

\* Buffer, for a direction that has not failed.
Buffer(flow, p) ==
    LET segment == [sequence |-> DataSequence(p), declared |-> p.declared, bytes |-> p.bytes]
        size == Len(p.bytes)
    IN  CASE size > max_stream_bytes \/ size > max_total_bytes -> Fail(flow, "limit")
          [] size <= max_stream_bytes /\ size <= max_total_bytes /\ segment \in Range(flow.segments) -> flow
          [] OTHER -> IF FitsLimits(flow, size)
                      THEN [flow EXCEPT !.segments = Append(@, segment), !.bytes = @ + size]
                      ELSE Fail(flow, "limit")

WithData(flow, p) ==
    CASE flow.failure # "ok" -> flow
      [] flow.failure = "ok" /\ Len(p.bytes) > p.declared -> Fail(flow, "conflict")
      [] flow.failure = "ok" /\ Len(p.bytes) <= p.declared /\ p.declared > 0 -> Buffer(flow, p)
      [] OTHER -> flow

\* Add() from Track on: schedule the direction, take SYN, FIN and data.
Apply ==
    LET k == call.key
        p == call.packet
        old == IF Live(k) THEN flows[k] ELSE NewFlow(next_id)
        new == WithData(WithFin(WithSyn(Scheduled(old, call.time), p), p), p)
    IN  /\ Deliver
        /\ Live(k) \/ (Opens /\ next_id # MaxId /\ Size < max_flows)
        /\ next_id' = IF Live(k) THEN next_id ELSE next_id + 1
        /\ Queue(k, old, call.time)
        /\ flows' = [flows EXCEPT ![k] = new]
        /\ buffered_bytes' = buffered_bytes - old.bytes + new.bytes
        /\ buffered_segments' = buffered_segments - Len(old.segments) + Len(new.segments)
        /\ IF p.rst THEN Goto("reset") ELSE call' = Idle
        /\ UNCHANGED <<count, rows>>

Reset ==
    /\ call.pc = "reset"
    /\ Remove(call.key, "reset")
    /\ Goto("reset_reverse")
    /\ UNCHANGED <<next_id, count>>
ResetReverse ==
    /\ call.pc = "reset_reverse"
    /\ Remove(Reverse[call.key], "reset")
    /\ call' = Idle
    /\ UNCHANGED <<next_id, count>>

-----------------------------------------------------------------------------
\* FinishNext, called between packets only at the end of the file.
FinishNext(k) ==
    /\ call.pc = "idle" \/ call.pc = "eof"
    /\ Live(k)
    /\ Remove(k, "eof")
    /\ call' = [pc |-> "eof"]
    /\ UNCHANGED <<next_id, count>>

\* The file is drained, or the scan threw.
Finished ==
    /\ call.pc = "thrown" \/ (call.pc \in {"idle", "eof"} /\ Size = 0)
    /\ UNCHANGED vars

Step ==
    \/ Reuse \/ ReuseReverse \/ Ignore \/ Exhaust \/ Refuse \/ Apply \/ Reset \/ ResetReverse
    \/ \E s \in Scopes : \E e \in expiry[s] : RequeueStale(e) \/ ExpireIdle(e)

Next ==
    \/ \E k \in Keys, p \in Packets, t \in Times \cup {NoTime} : Packet(k, p, t)
    \/ Step
    \/ \E k \in Keys : FinishNext(k)
    \/ Finished

Spec == Init /\ [][Next]_vars
\* A call runs to its end.
FairSpec == Spec /\ WF_vars(Step)

-----------------------------------------------------------------------------
(* Properties. *)

LiveKeys == {k \in Keys : Live(k)}

\* Directions, queues, clocks and accounts keep their types: no removal takes the buffered
\* bytes or segments below zero, and identifiers come from next_id (Track, Buffer, Remove).
TypeOK ==
    /\ flows \in [Keys -> Direction \cup {NoFlow}]
    /\ \A k \in LiveKeys : flows[k].id \in 1..next_id - 1
    /\ expiry \in [Scopes -> SUBSET (Int \X Keys)] /\ clock \in [Scopes -> Int \cup {NoClock}]
    /\ buffered_bytes \in Nat /\ buffered_segments \in Nat
    /\ next_id \in 1..MaxId

\* What the assertions of Schedule, Unschedule and Expire rely on: a scope's queue
\* holds exactly its scheduled directions, each once, no later than its real
\* deadline; a scope exists exactly while something is queued on it; a direction
\* that ever lacked a timestamp is not queued.
ExpiryConsistent ==
    /\ \A s \in Scopes :
        /\ expiry[s] = {<<flows[k].queued, k>> : k \in {j \in LiveKeys : ScopeOf[j] = s /\ flows[j].scheduled}}
        /\ clock[s] = NoClock <=> expiry[s] = {}
    /\ \A k \in LiveKeys :
        flows[k].scheduled => flows[k].queued <= flows[k].deadline /\ ~flows[k].untimed

\* What each direction counts for in the two accounts, and each segment in its direction.
HeldBytes == [k \in Keys |-> IF Live(k) THEN flows[k].bytes ELSE 0]
HeldSegments == [k \in Keys |-> IF Live(k) THEN Len(flows[k].segments) ELSE 0]
Sizes(segments) == [i \in DOMAIN segments |-> Len(segments[i].bytes)]

\* The global counters equal the sums over the directions and respect the limits; a
\* failed direction holds nothing (Fail, Remove, Buffer).
BuffersExact ==
    /\ TypeOK
    /\ buffered_bytes = SumFunctionOnSet(HeldBytes, LiveKeys)
    /\ buffered_segments = SumFunctionOnSet(HeldSegments, LiveKeys)
    /\ buffered_bytes <= max_total_bytes /\ buffered_segments <= max_total_segments
    /\ Size <= max_flows
    /\ \A k \in LiveKeys :
        /\ flows[k].bytes <= max_stream_bytes /\ Len(flows[k].segments) <= max_segments
        /\ flows[k].bytes = SumFunction(Sizes(flows[k].segments))
        /\ flows[k].failure # "ok" => flows[k].segments = <<>>

\* When a timestamped packet is delivered, no direction of its interface is overdue by
\* the interface's clock, which is not behind the packet: so no stream ever spans a
\* silence longer than the timeout.
NothingOverdue ==
    Deliver /\ call.time # NoTime =>
        \A k \in LiveKeys : ScopeOf[k] = ScopeOf[call.key] /\ flows[k].scheduled =>
            flows[k].deadline >= clock[ScopeOf[k]] /\ clock[ScopeOf[k]] >= call.time

\* The queue of deadlines agrees with the directions, and whoever is overdue is gone
\* before a packet is delivered (ExpiryConsistent, NothingOverdue).
ExpiryExact == ExpiryConsistent /\ NothingOverdue

\* A direction is finalised as idle only if none of its packets is within the timeout
\* of its interface's clock: stale queue entries and packets out of timestamp order
\* never end it early.  (A direction with a packet stamped so late that its deadline
\* overflows is out of this: Schedule drops the deadline it had.)
IdleOnlyWhenQuiet ==
    [][\A r \in rows' \ rows : r.finalized_by = "idle_timeout" =>
           LET latest == flows[r.key].latest
           IN  latest <= TimeMax - tcp_idle_us => latest + tcp_idle_us < clock[ScopeOf[r.key]]]_vars

\* Two SYNs never share a direction: while a direction is tracked, the SYN it was
\* anchored by stays its SYN, and a SYN without ACK that opens a direction finds nothing
\* of an earlier connection in the other direction either.  This leaves open what the
\* code leaves open: a direction tracked without a SYN takes the first SYN that comes as
\* its own, as one that arrives late, and keeps what it buffered before (new_syn asks for
\* has_syn); if that SYN opens a new connection, the data of the two meet.
ConnectionsSeparate ==
    [][/\ \A k \in Keys : Live(k) /\ flows[k].syn # NoSeq /\ flows'[k] # NoFlow => flows'[k].syn = flows[k].syn
       /\ Apply /\ call.packet.syn /\ ~Live(call.key) /\ ~call.packet.ack => ~Live(Reverse[call.key])]_vars

\* Add() always returns (or throws): Expire's loop does not spin on stale entries.
CallReturns == call.pc = "expire" ~> call.pc \in {"idle", "thrown"}

=============================================================================
