------------------------ MODULE TcpReassemblyProofs ------------------------
(***************************************************************************)
(* Proofs about TcpReassembly, for every set of keys, packets, timestamps  *)
(* and limits: the accounts of what is buffered are exact, the queues of   *)
(* deadlines agree with the directions, nobody overdue meets a packet, and *)
(* nobody is expired early.                                                *)
(***************************************************************************)
EXTENDS TcpReassembly, FiniteSums

\* What the provers may take for a step.
USE SMTT(30), ZenonT(60)

-----------------------------------------------------------------------------
(* The inductive invariant. *)

\* The call in progress: the packet while there is one.
CallOK ==
    \/ call = [pc |-> "idle"] \/ call = [pc |-> "eof"]
    \/ call \in [pc : {"expire", "reuse_reverse", "deliver", "reset", "reset_reverse", "thrown"},
                 key : Keys, packet : Packets, time : Times \cup {NoTime}]

\* The deadline of a scheduled direction covers its latest packet, unless that packet's
\* own deadline would overflow; a direction whose packets all had timestamps is
\* unscheduled only for that reason, or because nothing expires at all.
DeadlinesCover ==
    \A k \in LiveKeys :
        /\ flows[k].scheduled =>
            /\ flows[k].latest \in Int
            /\ flows[k].latest <= TimeMax - tcp_idle_us => flows[k].latest + tcp_idle_us <= flows[k].deadline
        /\ ~flows[k].scheduled /\ ~flows[k].untimed /\ flows[k].latest # NoTime /\ tcp_idle_us > 0 =>
            flows[k].latest > TimeMax - tcp_idle_us

\* What Add() has established when it gets to a step: the clock is not behind the packet;
\* once the loop of Expire is over nobody is overdue; and a SYN that opens the tuple
\* anew meets no earlier direction.
CallProgress ==
    /\ call.pc \in {"expire", "reuse_reverse", "deliver"} /\ call.time # NoTime /\ clock[ScopeOf[call.key]] # NoClock =>
        clock[ScopeOf[call.key]] >= call.time
    /\ call.pc \in {"reuse_reverse", "deliver"} /\ call.time # NoTime =>
        \A e \in expiry[ScopeOf[call.key]] : e[1] >= clock[ScopeOf[call.key]]
    /\ call.pc \in {"reuse_reverse", "deliver"} => call.packet.syn /\ ~Live(call.key)
    /\ call.pc = "reuse_reverse" => ~call.packet.ack
    /\ call.pc = "deliver" /\ ~call.packet.ack => ~Live(Reverse[call.key])

\* What holds of the table of directions at every step.
TableOK == BuffersExact /\ IsFiniteSet(LiveKeys) /\ ExpiryConsistent /\ DeadlinesCover

Inv == TableOK /\ CallOK /\ CallProgress

-----------------------------------------------------------------------------
(* One direction and one packet. *)

Stamps == Times \cup {NoTime}
PacketType == [sequence : SeqNums, syn : BOOLEAN, ack : BOOLEAN, fin : BOOLEAN,
               rst : BOOLEAN, declared : Nat, bytes : Seq(Nat)]

\* What a direction buffers is what its segments hold, within its own limits.
FlowExact(f) ==
    /\ f.bytes <= max_stream_bytes /\ Len(f.segments) <= max_segments
    /\ f.bytes = SumFunction(Sizes(f.segments))
    /\ f.failure # "ok" => f.segments = <<>>

\* A packet's SYN, FIN and data leave the identity and the timing of a direction alone.
SameTiming(f, g) ==
    /\ g.id = f.id /\ g.scheduled = f.scheduled /\ g.untimed = f.untimed
    /\ g.deadline = f.deadline /\ g.queued = f.queued /\ g.latest = f.latest

\* The accounts have room for f becoming g.
Fits(f, g) ==
    \/ g.bytes = f.bytes /\ Len(g.segments) = Len(f.segments)
    \/ g.bytes = 0 /\ Len(g.segments) = 0
    \/ /\ g.bytes >= f.bytes /\ g.bytes - f.bytes <= max_total_bytes - buffered_bytes
       /\ Len(g.segments) = Len(f.segments) + 1 /\ buffered_segments < max_total_segments

LEMMA NewFlowExact ==
    ASSUME NEW id \in Nat PROVE NewFlow(id) \in Direction /\ FlowExact(NewFlow(id))
<1>1. NewFlow(id) \in Direction
  <2>1. <<>> \in Seq(Segment)
    OBVIOUS
  <2>2. QED
    BY <2>1, AssemblyAssumption DEF NewFlow, Direction
<1>2. SumFunction(Sizes(<<>>)) = 0
  <2>1. DOMAIN Sizes(<<>>) = {}
    BY DEF Sizes
  <2>2. QED
    BY <2>1, SumEmpty DEF SumFunction
<1>3. QED
  BY <1>1, <1>2, AssemblyAssumption, ReassemblyAssumption DEF NewFlow, FlowExact

LEMMA ScheduledKeeps ==
    ASSUME NEW f \in Direction, FlowExact(f), NEW t \in Stamps
    PROVE  LET g == Scheduled(f, t)
           IN  /\ g \in Direction /\ FlowExact(g) /\ g.id = f.id
               /\ g.bytes = f.bytes /\ g.segments = f.segments /\ g.failure = f.failure
               /\ g.scheduled = Timed(f, t)
               /\ g.untimed = (f.untimed \/ t = NoTime)
               /\ g.latest = Latest(f, t)
               /\ Timed(f, t) => /\ g.deadline = DeadlineAfter(f, t)
                                 /\ g.queued = IF f.scheduled THEN f.queued ELSE DeadlineAfter(f, t)
<1>1. Latest(f, t) \in Int \cup {NoTime}
  BY MaxPair, ReassemblyAssumption, Zenon DEF Latest, Stamps, Direction
<1>2. Timed(f, t) \in BOOLEAN
  BY DEF Timed
<1>3. Timed(f, t) => DeadlineAfter(f, t) \in Int
  <2>1. Timed(f, t) => t \in Int /\ t + tcp_idle_us \in Int
    BY ReassemblyAssumption DEF Timed, Stamps
  <2>2. QED
    BY <2>1, MaxPair, Zenon DEF DeadlineAfter, Direction
<1> DEFINE g == Scheduled(f, t)
<1>4. g \in Direction
  BY <1>1, <1>2, <1>3, ZenonT(60) DEF Scheduled, Direction
<1>5. /\ g.id = f.id /\ g.bytes = f.bytes /\ g.segments = f.segments /\ g.failure = f.failure
      /\ g.scheduled = Timed(f, t)
      /\ g.untimed = (f.untimed \/ t = NoTime)
      /\ g.latest = Latest(f, t)
      /\ Timed(f, t) => /\ g.deadline = DeadlineAfter(f, t)
                        /\ g.queued = IF f.scheduled THEN f.queued ELSE DeadlineAfter(f, t)
  BY <1>2, Zenon DEF Scheduled, Direction
<1>6. FlowExact(g)
  BY <1>5, Zenon DEF FlowExact
<1>7. QED
  BY <1>4, <1>5, <1>6, Zenon

LEMMA FailKeeps ==
    ASSUME NEW f \in Direction, NEW status \in {"limit", "conflict"}
    PROVE  LET g == Fail(f, status)
           IN  /\ g \in Direction /\ FlowExact(g) /\ SameTiming(f, g) /\ Fits(f, g)
               /\ g.syn = f.syn /\ g.fin = f.fin /\ g.failure # "ok"
<1> DEFINE g == Fail(f, status)
<1>1. /\ SameTiming(f, g) /\ g.syn = f.syn /\ g.fin = f.fin /\ g.failure = status
      /\ g.bytes = 0 /\ g.segments = <<>>
  BY DEF Fail, SameTiming, Direction
<1>2. g \in Direction
  <2>1. <<>> \in Seq(Segment)
    OBVIOUS
  <2>2. QED
    BY <2>1, Zenon DEF Fail, Direction
<1>3. SumFunction(Sizes(<<>>)) = 0 /\ Len(<<>>) = 0
  <2>1. DOMAIN Sizes(<<>>) = {}
    BY DEF Sizes
  <2>2. QED
    BY <2>1, SumEmpty DEF SumFunction
<1>4. FlowExact(g) /\ Fits(f, g)
  BY <1>1, <1>3, AssemblyAssumption, ReassemblyAssumption DEF FlowExact, Fits
<1>5. QED
  BY <1>1, <1>2, <1>4, Zenon

LEMMA WithSynKeeps ==
    ASSUME NEW f \in Direction, FlowExact(f), NEW p \in PacketType
    PROVE  LET g == WithSyn(f, p)
           IN  /\ g \in Direction /\ FlowExact(g) /\ SameTiming(f, g)
               /\ g.bytes = f.bytes /\ g.segments = f.segments /\ g.failure = f.failure
<1> DEFINE g == WithSyn(f, p)
<1>1. g \in Direction
  BY Zenon DEF WithSyn, Direction, PacketType
<1>2. SameTiming(f, g) /\ g.bytes = f.bytes /\ g.segments = f.segments /\ g.failure = f.failure
  BY DEF WithSyn, Direction, SameTiming
<1>3. FlowExact(g)
  BY <1>2, Zenon DEF FlowExact
<1>4. QED
  BY <1>1, <1>2, <1>3, Zenon

LEMMA WrapType == ASSUME NEW n \in Int PROVE Wrap(n) \in SeqNums
BY AssemblyAssumption DEF Wrap, SeqNums

\* A direction keeps what it buffered, or gives it up and has failed.
LEMMA WithFinKeeps ==
    ASSUME NEW f \in Direction, FlowExact(f), NEW p \in PacketType
    PROVE  LET g == WithFin(f, p)
           IN  /\ g \in Direction /\ FlowExact(g) /\ SameTiming(f, g)
               /\ \/ g.bytes = f.bytes /\ g.segments = f.segments /\ g.failure = f.failure
                  \/ g.bytes = 0 /\ g.segments = <<>> /\ g.failure # "ok"
<1> DEFINE fin == Wrap(DataSequence(p) + p.declared)
           base == IF HasFin(f) /\ f.fin # fin THEN Fail(f, "conflict") ELSE f
           h == [base EXCEPT !.fin = fin]
<1>1. fin \in SeqNums
  <2>1. p.sequence \in SeqNums /\ p.declared \in Nat
    BY DEF PacketType
  <2>2. p.sequence \in Int /\ p.sequence + 1 \in Int
    BY <2>1, AssemblyAssumption DEF SeqNums
  <2>3. DataSequence(p) \in SeqNums
    BY <2>1, <2>2, WrapType, Zenon DEF DataSequence
  <2>4. DataSequence(p) + p.declared \in Int
    BY <2>1, <2>3, AssemblyAssumption DEF SeqNums
  <2>5. QED
    BY <2>4, WrapType
<1>2. /\ base \in Direction /\ FlowExact(base) /\ SameTiming(f, base)
      /\ \/ base.bytes = f.bytes /\ base.segments = f.segments /\ base.failure = f.failure
         \/ base.bytes = 0 /\ base.segments = <<>> /\ base.failure # "ok"
  <2>1. CASE HasFin(f) /\ f.fin # fin
    <3>1. base = Fail(f, "conflict")
      BY <2>1
    <3>2. base.bytes = 0 /\ base.segments = <<>>
      BY <3>1, Zenon DEF Fail, Direction
    <3>3. QED
      BY <3>1, <3>2, FailKeeps, Zenon
  <2>2. CASE ~(HasFin(f) /\ f.fin # fin)
    <3>1. base = f
      BY <2>2
    <3>2. QED
      BY <3>1, Zenon DEF SameTiming
  <2>3. QED
    BY <2>1, <2>2, Zenon
<1> HIDE DEF fin, base
<1>3. h \in Direction /\ h.bytes = base.bytes /\ h.segments = base.segments /\ h.failure = base.failure
  BY <1>1, <1>2, Zenon DEF Direction
<1>4. SameTiming(base, h)
  BY <1>2 DEF Direction, SameTiming
<1>5. FlowExact(h)
  BY <1>2, <1>3, Zenon DEF FlowExact
<1>6. CASE p.fin
  <2>1. WithFin(f, p) = h
    BY <1>6 DEF WithFin, fin, base
  <2> HIDE DEF h
  <2>2. SameTiming(f, h)
    BY <1>2, <1>4, Zenon DEF SameTiming
  <2>3. QED
    BY <1>2, <1>3, <1>5, <2>1, <2>2, Zenon
<1>7. CASE ~p.fin
  <2>1. WithFin(f, p) = f
    BY <1>7 DEF WithFin
  <2>2. QED
    BY <2>1, Zenon DEF SameTiming
<1>8. QED
  BY <1>6, <1>7, Zenon

\* One more segment adds its size to the sum.
LEMMA SizesAppend ==
    ASSUME NEW segments \in Seq(Segment), NEW x \in Segment
    PROVE  SumFunction(Sizes(Append(segments, x))) = SumFunction(Sizes(segments)) + Len(x.bytes)
<1> DEFINE n == Len(segments)
           f == Sizes(segments)
           g == Sizes(Append(segments, x))
<1>1. n \in Nat /\ DOMAIN segments = 1..n /\ \A i \in 1..n : segments[i] \in Segment
  OBVIOUS
<1>2. /\ DOMAIN Append(segments, x) = 1..n + 1 /\ Append(segments, x)[n + 1] = x
      /\ \A i \in 1..n : Append(segments, x)[i] = segments[i]
  OBVIOUS
<1>3. \A y \in Segment : Len(y.bytes) \in Int
  BY DEF Segment
<1>4. DOMAIN f = 1..n /\ \A i \in 1..n : f[i] = Len(segments[i].bytes)
  BY <1>1 DEF Sizes
<1>5. DOMAIN g = 1..n + 1 /\ g[n + 1] = Len(x.bytes) /\ \A i \in 1..n : g[i] = Len(segments[i].bytes)
  BY <1>1, <1>2 DEF Sizes
<1>6. \A i \in 1..n : f[i] \in Int /\ g[i] = f[i]
  BY <1>1, <1>3, <1>4, <1>5, Zenon
<1>7. IsFiniteSet(1..n) /\ n + 1 \notin 1..n
  BY <1>1, FS_Interval
<1>8. 1..n + 1 = (1..n) \cup {n + 1}
  <2>1. \A i : i \in 1..n + 1 <=> i \in (1..n) \cup {n + 1}
    BY <1>1
  <2>2. QED
    BY <2>1
<1> DEFINE added == Len(x.bytes)
<1>9. g[n + 1] \in Int /\ g[n + 1] = added
  BY <1>3, <1>5, Zenon
<1> HIDE DEF f, g, n, added
<1>10. SumFunctionOnSet(g, 1..n + 1) = SumFunctionOnSet(f, 1..n) + g[n + 1]
  <2>1. Joins(f, 1..n, g, 1..n + 1, n + 1)
    BY <1>6, <1>7, <1>8, <1>9, Zenon DEF Joins
  <2>2. QED
    BY <1>9, <2>1, SumJoins
<1>11. SumFunction(g) = SumFunctionOnSet(g, 1..n + 1) /\ SumFunction(f) = SumFunctionOnSet(f, 1..n)
  BY <1>4, <1>5, Zenon DEF SumFunction
<1>12. QED
  BY <1>9, <1>10, <1>11, Zenon DEF f, g, added

\* The data of a packet keeps a direction exact, and fits the accounts.
LEMMA WithDataKeeps ==
    ASSUME NEW f \in Direction, FlowExact(f), NEW p \in PacketType, buffered_bytes \in Nat
    PROVE  LET g == WithData(f, p)
           IN  g \in Direction /\ FlowExact(g) /\ SameTiming(f, g) /\ Fits(f, g)
<1> DEFINE segment == [sequence |-> DataSequence(p), declared |-> p.declared, bytes |-> p.bytes]
           size == Len(p.bytes)
           more == [f EXCEPT !.segments = Append(@, segment), !.bytes = @ + size]
           Good(g) == g \in Direction /\ FlowExact(g) /\ SameTiming(f, g) /\ Fits(f, g)
<1>1. Good(f)
  BY DEF SameTiming, Fits
<1>2. Good(Fail(f, "limit")) /\ Good(Fail(f, "conflict"))
  BY FailKeeps, Zenon
<1>3. ASSUME FitsLimits(f, size), f.failure = "ok" PROVE Good(more)
  <2>1. segment \in Segment /\ size \in Nat
    <3>1. p.sequence \in SeqNums /\ p.declared \in Nat /\ p.bytes \in Seq(Nat)
      BY DEF PacketType
    <3>2. p.sequence + 1 \in Int
      BY <3>1, AssemblyAssumption DEF SeqNums
    <3>3. DataSequence(p) \in SeqNums
      BY <3>1, <3>2, WrapType, Zenon DEF DataSequence
    <3>4. QED
      BY <3>1, <3>3 DEF Segment
  <2>2. f.segments \in Seq(Segment) /\ f.bytes \in Nat
    BY DEF Direction
  <2>3. SumFunction(Sizes(Append(f.segments, segment))) = SumFunction(Sizes(f.segments)) + size
    <3>1. segment.bytes = p.bytes
      OBVIOUS
    <3> HIDE DEF segment
    <3>2. QED
      BY <2>1, <2>2, <3>1, SizesAppend, Zenon
  <2>4. Append(f.segments, segment) \in Seq(Segment) /\ Len(Append(f.segments, segment)) = Len(f.segments) + 1
    BY <2>1, <2>2
  <2> HIDE DEF segment, size
  <2>5. /\ more.segments = Append(f.segments, segment) /\ more.bytes = f.bytes + size
        /\ more.failure = f.failure /\ SameTiming(f, more)
    BY DEF Direction, SameTiming
  <2>6. more \in Direction
    <3>1. \A s \in Seq(Segment), n \in Nat : [f EXCEPT !.segments = s, !.bytes = n] \in Direction
      BY Zenon DEF Direction
    <3>2. f.bytes + size \in Nat
      BY <2>1, <2>2
    <3>3. more = [f EXCEPT !.segments = Append(f.segments, segment), !.bytes = f.bytes + size]
      BY DEF Direction
    <3> HIDE DEF more
    <3>4. QED
      BY <2>4, <3>1, <3>2, <3>3, Zenon
  <2> HIDE DEF more
  <2>7. Len(f.segments) \in Nat
    BY <2>2
  <2>8. FlowExact(more)
    BY <1>3, <2>1, <2>2, <2>3, <2>4, <2>5, <2>7, AssemblyAssumption, ReassemblyAssumption DEF FlowExact, FitsLimits
  <2>9. Fits(f, more)
    BY <1>3, <2>1, <2>2, <2>4, <2>5, ReassemblyAssumption DEF Fits, FitsLimits
  <2>10. QED
    BY <2>5, <2>6, <2>8, <2>9, Zenon
<1>4. \/ WithData(f, p) \in {f, Fail(f, "limit"), Fail(f, "conflict")}
      \/ f.failure = "ok" /\ FitsLimits(f, size) /\ WithData(f, p) = more
  <2> HIDE DEF size
  <2>0. size \in Nat /\ p.declared \in Nat
    BY DEF size, PacketType
  <2>1. CASE f.failure # "ok"
    BY <2>1 DEF WithData
  <2>2. CASE f.failure = "ok" /\ size > p.declared
    BY <2>0, <2>2 DEF WithData, size
  <2>3. CASE f.failure = "ok" /\ ~(size > p.declared)
    <3>2. WithData(f, p) \in {f, Buffer(f, p)}
      BY <2>0, <2>3, Zenon DEF WithData, size
    <3>3. Buffer(f, p) \in {f, Fail(f, "limit")} \/ (FitsLimits(f, size) /\ Buffer(f, p) = more)
      BY Zenon DEF Buffer, size
    <3> HIDE DEF more
    <3>4. QED
      BY <2>3, <3>2, <3>3, Zenon
  <2>4. QED
    BY <2>1, <2>2, <2>3, Zenon
<1> HIDE DEF more, size
<1>5. QED
  BY <1>1, <1>2, <1>3, <1>4, Zenon

\* A direction after a packet: Schedule, then SYN, FIN and data.
Applied(f, p, t) == WithData(WithFin(WithSyn(Scheduled(f, t), p), p), p)

LEMMA AppliedKeeps ==
    ASSUME NEW f \in Direction, FlowExact(f), NEW p \in PacketType, NEW t \in Stamps,
           buffered_bytes \in Nat
    PROVE  /\ Applied(f, p, t) \in Direction /\ FlowExact(Applied(f, p, t))
           /\ SameTiming(Scheduled(f, t), Applied(f, p, t)) /\ Fits(f, Applied(f, p, t))
<1> DEFINE a == Scheduled(f, t)
           b == WithSyn(a, p)
           c == WithFin(b, p)
           d == WithData(c, p)
<1>1. a \in Direction /\ FlowExact(a) /\ a.bytes = f.bytes /\ a.segments = f.segments
  BY ScheduledKeeps, Zenon
<1> HIDE DEF a
<1>2. b \in Direction /\ FlowExact(b) /\ SameTiming(a, b) /\ b.bytes = a.bytes /\ b.segments = a.segments
  BY <1>1, WithSynKeeps, Zenon
<1> HIDE DEF b
<1>3. /\ c \in Direction /\ FlowExact(c) /\ SameTiming(b, c)
      /\ \/ c.bytes = b.bytes /\ c.segments = b.segments
         \/ c.bytes = 0 /\ c.segments = <<>> /\ c.failure # "ok"
  BY <1>2, WithFinKeeps, Zenon
<1> HIDE DEF c
<1>4. d \in Direction /\ FlowExact(d) /\ SameTiming(c, d) /\ Fits(c, d)
  BY <1>3, WithDataKeeps, Zenon
<1>5. c.failure # "ok" => d = c
  BY DEF WithData
<1> HIDE DEF d
<1>6. SameTiming(a, d)
  BY <1>2, <1>3, <1>4, Zenon DEF SameTiming
<1>7. Fits(f, d)
  <2>1. CASE c.bytes = b.bytes /\ c.segments = b.segments
    BY <1>1, <1>2, <1>4, <2>1, Zenon DEF Fits
  <2>2. CASE c.bytes = 0 /\ c.segments = <<>> /\ c.failure # "ok"
    BY <1>5, <2>2 DEF Fits
  <2>3. QED
    BY <1>3, <2>1, <2>2, Zenon
<1>8. Applied(f, p, t) = d
  BY DEF Applied, a, b, c, d
<1>9. QED
  BY <1>4, <1>6, <1>7, <1>8, Zenon DEF a

-----------------------------------------------------------------------------
(* The table of directions. *)

\* TableOK in parts, each direction's share of it as one fact.
DirectionOK(f) ==
    /\ f \in Direction /\ f.id \in 1..next_id - 1 /\ FlowExact(f)
    /\ f.scheduled =>
        /\ f.queued <= f.deadline /\ ~f.untimed /\ f.latest \in Int
        /\ f.latest <= TimeMax - tcp_idle_us => f.latest + tcp_idle_us <= f.deadline
    /\ ~f.scheduled /\ ~f.untimed /\ f.latest # NoTime /\ tcp_idle_us > 0 =>
        f.latest > TimeMax - tcp_idle_us
QueuesOK ==
    \A s \in Scopes :
        /\ expiry[s] = {<<flows[k].queued, k>> : k \in {j \in LiveKeys : ScopeOf[j] = s /\ flows[j].scheduled}}
        /\ clock[s] = NoClock <=> expiry[s] = {}
QueueTypes ==
    /\ expiry \in [Scopes -> SUBSET (Int \X Keys)] /\ clock \in [Scopes -> Int \cup {NoClock}]
    /\ next_id \in 1..MaxId
AccountsOK ==
    /\ buffered_bytes \in Nat /\ buffered_segments \in Nat
    /\ buffered_bytes = SumFunctionOnSet(HeldBytes, LiveKeys)
    /\ buffered_segments = SumFunctionOnSet(HeldSegments, LiveKeys)
    /\ buffered_bytes <= max_total_bytes /\ buffered_segments <= max_total_segments
    /\ Size <= max_flows /\ IsFiniteSet(LiveKeys)
DirectionsOK ==
    /\ flows \in [Keys -> Direction \cup {NoFlow}]
    /\ \A k \in LiveKeys : DirectionOK(flows[k])

LEMMA TableParts == TableOK <=> DirectionsOK /\ QueuesOK /\ QueueTypes /\ AccountsOK
<1>1. ASSUME flows \in [Keys -> Direction \cup {NoFlow}] PROVE \A k \in LiveKeys : flows[k] \in Direction
  BY <1>1 DEF LiveKeys, Live
<1>2. TableOK => DirectionsOK
  BY <1>1, Zenon DEF TableOK, BuffersExact, TypeOK, ExpiryConsistent, DeadlinesCover, DirectionsOK, DirectionOK, FlowExact
<1>3. TableOK => QueuesOK /\ QueueTypes /\ AccountsOK
  BY Zenon DEF TableOK, BuffersExact, TypeOK, ExpiryConsistent, QueuesOK, QueueTypes, AccountsOK
<1>4. DirectionsOK /\ QueuesOK /\ QueueTypes /\ AccountsOK => BuffersExact /\ IsFiniteSet(LiveKeys)
  BY Zenon DEF BuffersExact, TypeOK, QueueTypes, AccountsOK, DirectionsOK, DirectionOK, FlowExact
<1>5. DirectionsOK /\ QueuesOK => ExpiryConsistent /\ DeadlinesCover
  BY Zenon DEF ExpiryConsistent, DeadlinesCover, QueuesOK, DirectionsOK, DirectionOK
<1>6. QED
  BY <1>2, <1>3, <1>4, <1>5, Zenon DEF TableOK

LEMMA TablePartsNext == TableOK' <=> DirectionsOK' /\ QueuesOK' /\ QueueTypes' /\ AccountsOK'
BY TableParts, PTL

\* The table does not change, and an identifier may have been used.
LEMMA TableUnchanged ==
    ASSUME TableOK, UNCHANGED tableVars, next_id' \in 1..MaxId, next_id' >= next_id
    PROVE  TableOK'
<1>1. DirectionsOK /\ QueuesOK /\ QueueTypes /\ AccountsOK
  BY TableParts
<1>2. flows' = flows /\ expiry' = expiry /\ clock' = clock
  BY DEF tableVars
<1>3. LiveKeys' = LiveKeys /\ Size' = Size /\ HeldBytes' = HeldBytes /\ HeldSegments' = HeldSegments
  BY <1>2, Zenon DEF LiveKeys, Live, Size, HeldBytes, HeldSegments
<1>4. DirectionsOK'
  <2>1. ASSUME NEW k \in LiveKeys PROVE DirectionOK(flows[k])'
    <3>1. DirectionOK(flows[k]) /\ flows'[k] = flows[k]
      BY <1>1, <1>2, <2>1, Zenon DEF DirectionsOK
    <3>2. flows[k].id \in Nat /\ next_id \in Nat
      BY <1>1, <3>1 DEF DirectionOK, Direction, QueueTypes
    <3>3. QED
      BY <3>1, <3>2 DEF DirectionOK, FlowExact
  <2>2. QED
    BY <1>1, <1>2, <1>3, <2>1, Zenon DEF DirectionsOK
<1>5. QueuesOK'
  BY <1>1, <1>2, <1>3, Zenon DEF QueuesOK
<1>6. QueueTypes'
  BY <1>1, <1>2, Zenon DEF QueueTypes
<1>7. AccountsOK'
  BY <1>1, <1>3, Zenon DEF AccountsOK, tableVars
<1>8. QED
  BY <1>4, <1>5, <1>6, <1>7, TablePartsNext, Zenon

\* Remove keeps the table right, whoever calls it.
LEMMA RemoveKeeps ==
    ASSUME TableOK, NEW k \in Keys, NEW reason, Remove(k, reason), next_id' = next_id
    PROVE  /\ TableOK'
           /\ \A j \in Keys : Live(j)' => Live(j)
           /\ ~Live(k)'
           /\ \A s \in Scopes : expiry'[s] \subseteq expiry[s] /\ (clock'[s] = clock[s] \/ clock'[s] = NoClock)
<1>1. DirectionsOK /\ QueuesOK /\ QueueTypes /\ AccountsOK
  BY TableParts
<1>2. CASE ~Live(k)
  <2>1. UNCHANGED tableVars
    BY <1>2 DEF Remove
  <2>2. TableOK'
    BY <1>1, <2>1, TableUnchanged DEF QueueTypes
  <2>3. QED
    BY <1>2, <2>1, <2>2, Zenon DEF tableVars, Live
<1>3. CASE Live(k)
  <2> DEFINE f == flows[k]
  <2>1. /\ flows' = [flows EXCEPT ![k] = NoFlow] /\ Unschedule(k, f)
        /\ buffered_bytes' = buffered_bytes - f.bytes
        /\ buffered_segments' = buffered_segments - Len(f.segments)
    BY <1>3, Zenon DEF Remove
  <2>2. k \in LiveKeys /\ f \in Direction /\ DirectionOK(f)
    BY <1>1, <1>3, Zenon DEF LiveKeys, DirectionsOK, DirectionOK
  <2>3. LiveKeys' = LiveKeys \ {k} /\ \A j \in LiveKeys \ {k} : flows'[j] = flows[j]
    BY <1>1, <2>1, Zenon DEF LiveKeys, Live, DirectionsOK
  <2>4. DirectionsOK'
    <3>1. flows' \in [Keys -> Direction \cup {NoFlow}]
      BY <1>1, <2>1, Zenon DEF DirectionsOK
    <3>2. ASSUME NEW j \in LiveKeys \ {k} PROVE DirectionOK(flows[j])'
      <4>1. DirectionOK(flows[j]) /\ flows'[j] = flows[j]
        BY <1>1, <2>3, Zenon DEF DirectionsOK
      <4>2. QED
        BY <4>1, Zenon DEF DirectionOK, FlowExact
    <3>3. QED
      BY <2>3, <3>1, <3>2, Zenon DEF DirectionsOK
  <2>5. QueueTypes' /\ \A s \in Scopes : expiry'[s] \subseteq expiry[s] /\ (clock'[s] = clock[s] \/ clock'[s] = NoClock)
    BY <1>1, <2>1 DEF QueueTypes, Unschedule
  <2>6. QueuesOK'
    <3> SUFFICES ASSUME NEW s \in Scopes
                 PROVE  /\ expiry'[s] = {<<flows'[j].queued, j>> : j \in {i \in LiveKeys' : ScopeOf[i] = s /\ flows'[i].scheduled}}
                        /\ clock'[s] = NoClock <=> expiry'[s] = {}
      BY DEF QueuesOK
    <3> DEFINE A == {i \in LiveKeys : ScopeOf[i] = s /\ flows[i].scheduled}
               B == {i \in LiveKeys' : ScopeOf[i] = s /\ flows'[i].scheduled}
    <3>1. expiry[s] = {<<flows[j].queued, j>> : j \in A} /\ (clock[s] = NoClock <=> expiry[s] = {})
      BY <1>1, Zenon DEF QueuesOK
    <3>2. B = A \ {k}
      BY <2>3, Zenon
    <3>3. {<<flows'[j].queued, j>> : j \in B} = {<<flows[j].queued, j>> : j \in A \ {k}}
      BY <2>3, <3>2, Zenon
    <3>4. CASE f.scheduled /\ s = ScopeOf[k]
      <4>1. expiry'[s] = expiry[s] \ {<<f.queued, k>>}
        BY <1>1, <2>1, <3>4, Zenon DEF Unschedule, QueueTypes
      <4>2. clock'[s] = IF expiry'[s] = {} THEN NoClock ELSE clock[s]
        BY <1>1, <2>1, <3>4, <4>1, Zenon DEF Unschedule, QueueTypes
      <4>3. expiry'[s] = {<<flows[j].queued, j>> : j \in A \ {k}}
        BY <3>1, <4>1, Zenon
      <4>4. QED
        BY <3>1, <3>3, <4>1, <4>2, <4>3, Zenon
    <3>5. CASE ~(f.scheduled /\ s = ScopeOf[k])
      <4>1. expiry'[s] = expiry[s] /\ clock'[s] = clock[s]
        BY <1>1, <2>1, <3>5, Zenon DEF Unschedule, QueueTypes
      <4>2. A \ {k} = A
        BY <3>5, Zenon
      <4>3. QED
        BY <3>1, <3>3, <4>1, <4>2, Zenon
    <3>6. QED
      BY <3>4, <3>5, Zenon
  <2>7. AccountsOK'
    <3>1. IsFiniteSet(LiveKeys') /\ Size' <= max_flows
      <4>1. IsFiniteSet(LiveKeys') /\ Cardinality(LiveKeys') <= Cardinality(LiveKeys)
        BY <1>1, <2>3, FS_Subset, Zenon DEF AccountsOK
      <4>2. Size = Cardinality(LiveKeys) /\ Size' = Cardinality(LiveKeys')
        BY DEF Size, LiveKeys
      <4>3. Cardinality(LiveKeys) \in Nat /\ Cardinality(LiveKeys') \in Nat
        BY <1>1, <4>1, FS_CardinalityType, Zenon DEF AccountsOK
      <4>4. QED
        BY <1>1, <4>1, <4>2, <4>3, ReassemblyAssumption DEF AccountsOK
    <3>2. \A j \in LiveKeys : HeldBytes[j] \in Nat /\ HeldSegments[j] \in Nat
      <4>1. \A j \in LiveKeys : flows[j] \in Direction /\ Live(j) /\ j \in Keys
        BY <1>1, Zenon DEF DirectionsOK, DirectionOK, LiveKeys
      <4>2. \A g \in Direction : g.bytes \in Nat /\ Len(g.segments) \in Nat
        BY DEF Direction
      <4>3. QED
        BY <4>1, <4>2, Zenon DEF HeldBytes, HeldSegments
    <3>3. HeldBytes[k] = f.bytes /\ HeldSegments[k] = Len(f.segments)
      BY <1>3 DEF HeldBytes, HeldSegments
    <3>4. \A j \in LiveKeys \ {k} : HeldBytes'[j] = HeldBytes[j] /\ HeldSegments'[j] = HeldSegments[j]
      BY <2>3, Zenon DEF HeldBytes, HeldSegments, LiveKeys, Live
    <3>5. \A j \in LiveKeys : HeldBytes[j] \in Int /\ HeldSegments[j] \in Int
      BY <3>2
    <3> DEFINE b == HeldBytes
               g == HeldSegments
               b1 == HeldBytes'
               g1 == HeldSegments'
               S == LiveKeys
               T == LiveKeys'
    <3>6. /\ IsFiniteSet(S) /\ k \in S /\ T = S \ {k}
          /\ \A x \in S : b[x] \in Int /\ b[x] \in Nat /\ g[x] \in Int /\ g[x] \in Nat
          /\ \A x \in T : b1[x] = b[x] /\ g1[x] = g[x]
      BY <1>1, <2>2, <2>3, <3>2, <3>4, <3>5, Zenon DEF AccountsOK
    <3>7. /\ buffered_bytes = SumFunctionOnSet(b, S) /\ buffered_segments = SumFunctionOnSet(g, S)
          /\ buffered_bytes' = buffered_bytes - b[k] /\ buffered_segments' = buffered_segments - g[k]
      BY <1>1, <2>1, <3>3, Zenon DEF AccountsOK
    <3> HIDE DEF b, g, b1, g1, S, T
    <3>8. /\ SumFunctionOnSet(b, S) = b[k] + SumFunctionOnSet(b1, T) /\ SumFunctionOnSet(b1, T) \in Int
          /\ SumFunctionOnSet(g, S) = g[k] + SumFunctionOnSet(g1, T) /\ SumFunctionOnSet(g1, T) \in Int
      <4>1. Leaves(b, S, b1, T, k) /\ Leaves(g, S, g1, T, k)
        BY <3>6, Zenon DEF Leaves
      <4>2. QED
        BY <4>1, SumLeaves
    <3>9. b[k] <= SumFunctionOnSet(b, S) /\ g[k] <= SumFunctionOnSet(g, S)
      BY <3>6, SumCovers, Zenon
    <3>10. buffered_bytes' \in Nat /\ buffered_segments' \in Nat /\ buffered_bytes' <= buffered_bytes /\ buffered_segments' <= buffered_segments
      BY <1>1, <3>6, <3>7, <3>9 DEF AccountsOK
    <3>11. buffered_bytes' = SumFunctionOnSet(b1, T) /\ buffered_segments' = SumFunctionOnSet(g1, T)
      BY <3>6, <3>7, <3>8
    <3>12. QED
      BY <1>1, <3>1, <3>10, <3>11, ReassemblyAssumption DEF AccountsOK, b1, g1, T
  <2>8. ~Live(k)' /\ \A j \in Keys : Live(j)' => Live(j)
    BY <1>1, <2>1, Zenon DEF Live, DirectionsOK
  <2>9. QED
    BY <2>4, <2>5, <2>6, <2>7, <2>8, TablePartsNext, Zenon
<1>4. QED
  BY <1>2, <1>3, Zenon

\* The timing of a direction that DirectionOK and QueuesOK rely on.
TimingOK(f) ==
    /\ f.scheduled =>
        /\ f.queued <= f.deadline /\ ~f.untimed /\ f.latest \in Int
        /\ f.latest <= TimeMax - tcp_idle_us => f.latest + tcp_idle_us <= f.deadline
    /\ ~f.scheduled /\ ~f.untimed /\ f.latest # NoTime /\ tcp_idle_us > 0 =>
        f.latest > TimeMax - tcp_idle_us

LEMMA ScheduledTiming ==
    ASSUME NEW f \in Direction, TimingOK(f), FlowExact(f), NEW t \in Stamps
    PROVE  TimingOK(Scheduled(f, t))
<1> DEFINE g == Scheduled(f, t)
<1>1. /\ g \in Direction /\ g.scheduled = Timed(f, t) /\ g.untimed = (f.untimed \/ t = NoTime)
      /\ g.latest = Latest(f, t)
      /\ Timed(f, t) => /\ g.deadline = DeadlineAfter(f, t)
                        /\ g.queued = IF f.scheduled THEN f.queued ELSE DeadlineAfter(f, t)
  BY ScheduledKeeps
<1> SUFFICES TimingOK(g)
  OBVIOUS
<1> HIDE DEF g
<1>2. /\ f.deadline \in Int /\ f.queued \in Int /\ f.latest \in Int \cup {NoTime}
      /\ f.scheduled \in BOOLEAN /\ f.untimed \in BOOLEAN
  BY DEF Direction
<1>3. t \in Int \cup {NoTime} /\ NoTime \notin Int /\ tcp_idle_us \in Nat /\ TimeMax \in Int
  BY ReassemblyAssumption, Zenon DEF Stamps
<1>4. ASSUME t # NoTime
      PROVE  Latest(f, t) \in Int /\ Latest(f, t) >= t /\ (f.latest # NoTime => Latest(f, t) >= f.latest)
  <2>1. CASE f.latest = NoTime
    BY <1>3, <1>4, <2>1 DEF Latest
  <2>2. CASE f.latest # NoTime
    <3>1. f.latest \in Int /\ t \in Int
      BY <1>2, <1>3, <1>4, <2>2, Zenon
    <3>2. Latest(f, t) = Max({f.latest, t})
      BY <1>4, <2>2, Zenon DEF Latest
    <3>3. QED
      BY <3>1, <3>2, MaxPair, Zenon
  <2>3. QED
    BY <2>1, <2>2, Zenon
<1>5. ASSUME t # NoTime, f.latest = NoTime PROVE Latest(f, t) = t
  BY <1>5 DEF Latest
<1>6. ASSUME t # NoTime, f.latest # NoTime PROVE Latest(f, t) \in {f.latest, t}
  BY <1>2, <1>3, <1>6, MaxPair, Zenon DEF Latest
<1>7. CASE Timed(f, t)
  <2>1. t \in Int /\ ~f.untimed /\ t <= TimeMax - tcp_idle_us /\ tcp_idle_us > 0 /\ t # NoTime
    BY <1>3, <1>7, Zenon DEF Timed
  <2>2. CASE f.scheduled
    <3>1. g.deadline \in Int /\ g.deadline >= f.deadline /\ g.deadline >= t + tcp_idle_us /\ g.queued = f.queued
      <4>1. t + tcp_idle_us \in Int
        BY <1>3, <2>1
      <4>2. QED
        BY <1>1, <1>2, <1>7, <2>2, <4>1, MaxPair, ZenonT(60) DEF DeadlineAfter
    <3>2. g.latest \in {f.latest, t} /\ g.latest \in Int
      BY <1>1, <1>4, <1>5, <1>6, <2>1, Zenon
    <3>3. QED
      BY <1>1, <1>2, <1>3, <1>7, <2>1, <2>2, <3>1, <3>2 DEF TimingOK
  <2>3. CASE ~f.scheduled
    <3>1. g.deadline = t + tcp_idle_us /\ g.queued = g.deadline
      BY <1>1, <1>7, <2>3, Zenon DEF DeadlineAfter
    <3>2. f.latest # NoTime => g.latest > TimeMax - tcp_idle_us
      BY <1>1, <1>2, <1>3, <1>4, <2>1, <2>3 DEF TimingOK
    <3>3. f.latest = NoTime => g.latest = t
      BY <1>1, <1>5, <2>1, Zenon
    <3>4. g.latest \in Int
      BY <1>1, <1>4, <2>1, Zenon
    <3>5. g.scheduled /\ ~g.untimed
      BY <1>1, <1>2, <1>7, <2>1, Zenon
    <3>6. g.deadline \in Int /\ (g.latest <= TimeMax - tcp_idle_us => g.latest + tcp_idle_us <= g.deadline)
      BY <1>3, <2>1, <3>1, <3>2, <3>3, <3>4
    <3>7. QED
      BY <3>1, <3>4, <3>5, <3>6 DEF TimingOK
  <2>4. QED
    BY <2>2, <2>3, Zenon
<1>8. CASE ~Timed(f, t)
  <2>1. ~g.scheduled
    BY <1>1, <1>8, Zenon
  <2>2. ASSUME ~g.untimed, tcp_idle_us > 0 PROVE g.latest > TimeMax - tcp_idle_us
    <3>1. t # NoTime /\ ~f.untimed
      BY <1>1, <2>2, Zenon
    <3>2. t > TimeMax - tcp_idle_us
      BY <1>3, <1>8, <2>2, <3>1 DEF Timed
    <3>3. QED
      BY <1>1, <1>3, <1>4, <3>1, <3>2
  <2>3. QED
    BY <2>1, <2>2, Zenon DEF TimingOK
<1>9. QED
  BY <1>7, <1>8, Zenon

\* What Add() works on when a packet is delivered.
LEMMA CallTypes ==
    ASSUME CallOK, call.pc \notin {"idle", "eof"}
    PROVE  /\ call.key \in Keys /\ call.packet \in Packets /\ call.packet \in PacketType
           /\ call.time \in Stamps /\ Reverse[call.key] \in Keys /\ ScopeOf[call.key] \in Scopes
           /\ ScopeOf[Reverse[call.key]] = ScopeOf[call.key]
<1>1. call \in [pc : {"expire", "reuse_reverse", "deliver", "reset", "reset_reverse", "thrown"},
                key : Keys, packet : Packets, time : Times \cup {NoTime}]
  BY DEF CallOK
<1>2. call.key \in Keys /\ call.packet \in Packets /\ call.time \in Stamps
  BY <1>1 DEF Stamps
<1>3. call.packet \in PacketType
  BY <1>2, ReassemblyAssumption, Zenon DEF PacketType
<1>4. QED
  BY <1>2, <1>3, ReassemblyAssumption, Zenon

\* Before and after Apply: the direction the packet belongs to, and the packet's timing.
Before == IF Live(call.key) THEN flows[call.key] ELSE NewFlow(next_id)
After == Applied(Before, call.packet, call.time)

LEMMA ApplyFacts ==
    ASSUME TableOK, CallOK, Apply
    PROVE  /\ call.key \in Keys /\ call.time \in Stamps
           /\ Before \in Direction /\ FlowExact(Before) /\ TimingOK(Before)
           /\ After \in Direction /\ FlowExact(After) /\ TimingOK(After)
           /\ SameTiming(Scheduled(Before, call.time), After) /\ Fits(Before, After)
           /\ Before.id \in 1..next_id' - 1 /\ next_id' \in 1..MaxId /\ next_id' >= next_id
           /\ flows' = [flows EXCEPT ![call.key] = After]
           /\ Queue(call.key, Before, call.time)
           /\ buffered_bytes' = buffered_bytes - Before.bytes + After.bytes
           /\ buffered_segments' = buffered_segments - Len(Before.segments) + Len(After.segments)
           /\ ~Live(call.key) => Size < max_flows
<1>1. DirectionsOK /\ QueuesOK /\ QueueTypes /\ AccountsOK
  BY TableParts
<1>2. call.pc \notin {"idle", "eof"}
  BY Zenon DEF Apply, Deliver, Expired
<1>3. call.key \in Keys /\ call.packet \in PacketType /\ call.time \in Stamps
  BY <1>2, CallTypes, Zenon
<1>4. next_id \in Nat /\ next_id >= 1 /\ next_id <= MaxId
  BY <1>1, ReassemblyAssumption DEF QueueTypes
<1>5. Before \in Direction /\ FlowExact(Before) /\ TimingOK(Before)
  <2>1. CASE Live(call.key)
    BY <1>1, <1>3, <2>1, Zenon DEF Before, DirectionsOK, DirectionOK, LiveKeys, TimingOK
  <2>2. CASE ~Live(call.key)
    <3>1. Before = NewFlow(next_id)
      BY <2>2 DEF Before
    <3>2. TimingOK(NewFlow(next_id))
      BY Zenon DEF TimingOK, NewFlow
    <3>3. QED
      BY <1>4, <3>1, <3>2, NewFlowExact, Zenon
  <2>3. QED
    BY <2>1, <2>2, Zenon
<1>6. buffered_bytes \in Nat
  BY <1>1 DEF AccountsOK
<1>7. /\ After \in Direction /\ FlowExact(After)
      /\ SameTiming(Scheduled(Before, call.time), After) /\ Fits(Before, After)
  BY <1>3, <1>5, <1>6, AppliedKeeps, Zenon DEF After
<1>8. TimingOK(After)
  BY <1>3, <1>5, <1>7, ScheduledTiming, Zenon DEF TimingOK, SameTiming
<1>9. /\ next_id' = IF Live(call.key) THEN next_id ELSE next_id + 1
      /\ Live(call.key) \/ (next_id # MaxId /\ Size < max_flows)
      /\ flows' = [flows EXCEPT ![call.key] = After]
      /\ Queue(call.key, Before, call.time)
      /\ buffered_bytes' = buffered_bytes - Before.bytes + After.bytes
      /\ buffered_segments' = buffered_segments - Len(Before.segments) + Len(After.segments)
  BY Zenon DEF Apply, Before, After, Applied
<1>10. next_id' \in 1..MaxId /\ next_id' >= next_id
  BY <1>4, <1>9, ReassemblyAssumption
<1>11. Before.id \in 1..next_id' - 1
  <2>1. CASE Live(call.key)
    BY <1>1, <1>3, <1>9, <2>1, Zenon DEF Before, DirectionsOK, DirectionOK, LiveKeys
  <2>2. CASE ~Live(call.key)
    BY <1>4, <1>9, <2>2 DEF Before, NewFlow
  <2>3. QED
    BY <2>1, <2>2, Zenon
<1>12. QED
  BY <1>3, <1>5, <1>7, <1>8, <1>9, <1>10, <1>11, Zenon

LEMMA ApplyDirections ==
    ASSUME TableOK, CallOK, Apply
    PROVE  /\ DirectionsOK' /\ LiveKeys' = LiveKeys \cup {call.key} /\ flows'[call.key] = After
           /\ \A j \in LiveKeys \ {call.key} : flows'[j] = flows[j]
<1> DEFINE k == call.key
<1>1. DirectionsOK /\ QueuesOK /\ QueueTypes /\ AccountsOK
  BY TableParts
<1>2. /\ k \in Keys /\ After \in Direction /\ FlowExact(After) /\ TimingOK(After)
      /\ SameTiming(Scheduled(Before, call.time), After)
      /\ Before.id \in 1..next_id' - 1 /\ next_id' >= next_id /\ next_id' \in 1..MaxId
      /\ flows' = [flows EXCEPT ![k] = After] /\ Before \in Direction /\ FlowExact(Before) /\ call.time \in Stamps
  BY ApplyFacts, Zenon
<1>3. After.id = Before.id
  BY <1>2, ScheduledKeeps, Zenon DEF SameTiming
<1> HIDE DEF k
<1>4. flows' \in [Keys -> Direction \cup {NoFlow}] /\ flows'[k] = After /\ \A j \in Keys \ {k} : flows'[j] = flows[j]
  BY <1>1, <1>2, Zenon DEF DirectionsOK
<1>5. After # NoFlow
  BY <1>2, NoFlowAssumption, Zenon
<1>6. LiveKeys' = LiveKeys \cup {k}
  BY <1>2, <1>4, <1>5, Zenon DEF LiveKeys, Live
<1>7. ASSUME NEW j \in LiveKeys \cup {k} PROVE DirectionOK(flows[j])'
  <2>1. CASE j = k
    BY <1>2, <1>3, <1>4, <2>1, Zenon DEF DirectionOK, TimingOK, FlowExact
  <2>2. CASE j # k
    <3>1. flows'[j] = flows[j] /\ DirectionOK(flows[j])
      BY <1>1, <1>4, <2>2, Zenon DEF DirectionsOK, LiveKeys
    <3>2. flows[j].id \in Nat /\ next_id \in Nat
      BY <1>1, <3>1 DEF DirectionOK, Direction, QueueTypes
    <3>3. QED
      BY <1>2, <3>1, <3>2 DEF DirectionOK, FlowExact
  <2>3. QED
    BY <2>1, <2>2, Zenon
<1>8. QED
  BY <1>4, <1>6, <1>7, Zenon DEF DirectionsOK, k, LiveKeys

LEMMA ApplyQueues ==
    ASSUME TableOK, CallOK, Apply
    PROVE  QueueTypes' /\ QueuesOK'
<1> DEFINE k == call.key
           t == call.time
           f == Before
           s0 == ScopeOf[k]
<1>1. DirectionsOK /\ QueuesOK /\ QueueTypes /\ AccountsOK
  BY TableParts
<1>2. /\ k \in Keys /\ t \in Stamps /\ f \in Direction /\ FlowExact(f) /\ Queue(k, f, t) /\ next_id' \in 1..MaxId
      /\ SameTiming(Scheduled(f, t), After)
  BY ApplyFacts, Zenon
<1>3. /\ After.scheduled = Timed(f, t)
      /\ Timed(f, t) => After.queued = IF f.scheduled THEN f.queued ELSE t + tcp_idle_us
  <2> HIDE DEF k, t, f
  <2>1. /\ Scheduled(f, t).scheduled = Timed(f, t)
        /\ Timed(f, t) => Scheduled(f, t).queued = IF f.scheduled THEN f.queued ELSE DeadlineAfter(f, t)
    BY <1>2, ScheduledKeeps
  <2>2. ~f.scheduled => DeadlineAfter(f, t) = t + tcp_idle_us
    BY DEF DeadlineAfter
  <2>3. QED
    BY <1>2, <2>1, <2>2, Zenon DEF SameTiming
<1>4. /\ LiveKeys' = LiveKeys \cup {k} /\ flows'[k] = After
      /\ \A j \in LiveKeys \ {k} : flows'[j] = flows[j]
  BY ApplyDirections, Zenon
<1>5. f.scheduled => k \in LiveKeys /\ f = flows[k]
  BY <1>2, Zenon DEF Before, NewFlow, LiveKeys
<1>6. k \in LiveKeys => f = flows[k]
  BY DEF Before, LiveKeys
<1>7. s0 \in Scopes /\ f.scheduled \in BOOLEAN /\ NoClock \notin Int /\ Timed(f, t) \in BOOLEAN
  BY <1>2, ReassemblyAssumption, Zenon DEF Direction, Timed
<1>8. Timed(f, t) => t \in Int /\ t + tcp_idle_us \in Int
  <2> HIDE DEF k, t, f
  <2>1. QED
    BY <1>2, ReassemblyAssumption DEF Timed, Stamps
<1> DEFINE entry == IF f.scheduled THEN {} ELSE {<<t + tcp_idle_us, k>>}
<1>9. \/ ~Timed(f, t) /\ Unschedule(k, f)
      \/ Timed(f, t) /\ f.scheduled /\ UNCHANGED <<expiry, clock>>
      \/ /\ Timed(f, t) /\ expiry' = [expiry EXCEPT ![s0] = @ \cup entry]
         /\ clock' = [clock EXCEPT ![s0] = IF @ = NoClock THEN t ELSE Max({@, t})]
  BY <1>2, Zenon DEF Queue
<1>10. ASSUME NEW c \in Int \cup {NoClock}, Timed(f, t)
       PROVE  (IF c = NoClock THEN t ELSE Max({c, t})) \in Int
  BY <1>8, <1>10, MaxPair, Zenon
<1> HIDE DEF k, t, f, s0
<1>11. QueueTypes'
  <2>1. CASE ~Timed(f, t) /\ Unschedule(k, f)
    BY <1>1, <1>2, <1>7, <2>1 DEF QueueTypes, Unschedule
  <2>2. CASE Timed(f, t) /\ UNCHANGED <<expiry, clock>>
    BY <1>1, <1>2, <2>2, Zenon DEF QueueTypes
  <2>3. CASE /\ Timed(f, t) /\ expiry' = [expiry EXCEPT ![s0] = @ \cup entry]
             /\ clock' = [clock EXCEPT ![s0] = IF @ = NoClock THEN t ELSE Max({@, t})]
    <3>1. entry \in SUBSET (Int \X Keys)
      BY <1>2, <1>8, <2>3
    <3>2. expiry' \in [Scopes -> SUBSET (Int \X Keys)]
      BY <1>1, <1>7, <2>3, <3>1, Zenon DEF QueueTypes
    <3>3. clock' \in [Scopes -> Int \cup {NoClock}]
      BY <1>1, <1>7, <1>10, <2>3, Zenon DEF QueueTypes
    <3>4. QED
      BY <1>2, <3>2, <3>3, Zenon DEF QueueTypes
  <2>4. QED
    BY <1>9, <2>1, <2>2, <2>3, Zenon
<1>12. QueuesOK'
  <2> SUFFICES ASSUME NEW s \in Scopes
               PROVE  /\ expiry'[s] = {<<flows'[j].queued, j>> : j \in {i \in LiveKeys' : ScopeOf[i] = s /\ flows'[i].scheduled}}
                      /\ clock'[s] = NoClock <=> expiry'[s] = {}
    BY DEF QueuesOK
  <2> DEFINE A == {i \in LiveKeys : ScopeOf[i] = s /\ flows[i].scheduled}
             B == {i \in LiveKeys' : ScopeOf[i] = s /\ flows'[i].scheduled}
             Q(C) == {<<flows[j].queued, j>> : j \in C}
             Q1(C) == {<<flows'[j].queued, j>> : j \in C}
  <2>1. expiry[s] = Q(A) /\ (clock[s] = NoClock <=> expiry[s] = {})
    BY <1>1, Zenon DEF QueuesOK
  <2>2. A \ {k} = B \ {k} /\ Q1(B \ {k}) = Q(A \ {k})
    BY <1>4, Zenon
  <2>3. k \in B <=> s = s0 /\ Timed(f, t)
    BY <1>3, <1>4, <1>7, Zenon DEF s0
  <2>4. k \in A <=> s = s0 /\ f.scheduled
    BY <1>5, <1>6, Zenon DEF s0
  <2>5. CASE s # s0
    <3>1. expiry'[s] = expiry[s] /\ clock'[s] = clock[s]
      BY <1>1, <1>9, <2>5, Zenon DEF Unschedule, QueueTypes, s0
    <3>2. A \ {k} = A /\ B \ {k} = B
      BY <2>3, <2>4, <2>5, Zenon
    <3>3. QED
      BY <2>1, <2>2, <3>1, <3>2, Zenon
  <2>6. CASE s = s0 /\ ~Timed(f, t)
    <3>1. B \ {k} = B
      BY <2>3, <2>6, Zenon
    <3>2. Unschedule(k, f)
      BY <1>9, <2>6, Zenon
    <3>3. CASE f.scheduled
      <4>1. expiry'[s] = expiry[s] \ {<<f.queued, k>>} /\ clock'[s] = IF expiry'[s] = {} THEN NoClock ELSE clock[s]
        BY <1>1, <2>6, <3>2, <3>3, Zenon DEF Unschedule, QueueTypes, s0
      <4>2. expiry[s] \ {<<f.queued, k>>} = Q(A \ {k})
        BY <1>5, <2>1, <3>3
      <4>3. QED
        BY <2>1, <2>2, <3>1, <4>1, <4>2, Zenon
    <3>4. CASE ~f.scheduled
      <4>1. expiry'[s] = expiry[s] /\ clock'[s] = clock[s] /\ A \ {k} = A
        BY <2>4, <3>2, <3>4, Zenon DEF Unschedule
      <4>2. QED
        BY <2>1, <2>2, <3>1, <4>1, Zenon
    <3>5. QED
      BY <3>3, <3>4, Zenon
  <2>7. CASE s = s0 /\ Timed(f, t)
    <3>1. k \in B /\ Q1(B) = Q1(B \ {k}) \cup {<<After.queued, k>>}
      BY <1>4, <2>3, <2>7, Zenon
    <3>2. CASE f.scheduled
      <4>1. expiry'[s] = expiry[s]
        BY <1>1, <1>9, <2>7, <3>2 DEF QueueTypes
      <4>2. expiry[s] = Q(A \ {k}) \cup {<<f.queued, k>>}
        BY <1>5, <2>1, <2>4, <2>7, <3>2, Zenon
      <4>3. After.queued = f.queued
        BY <1>3, <2>7, <3>2, Zenon
      <4>4. clock[s] # NoClock
        BY <2>1, <4>2, Zenon
      <4>5. clock'[s] # NoClock
        <5>1. clock[s] \in Int \cup {NoClock}
          BY <1>1, Zenon DEF QueueTypes
        <5>2. QED
          BY <1>1, <1>7, <1>9, <1>10, <2>7, <4>4, <5>1, Zenon DEF QueueTypes
      <4>6. QED
        BY <2>2, <3>1, <4>1, <4>2, <4>3, <4>5, Zenon
    <3>3. CASE ~f.scheduled
      <4>1. expiry'[s] = expiry[s] \cup {<<t + tcp_idle_us, k>>}
        BY <1>1, <1>9, <2>7, <3>3, Zenon DEF QueueTypes
      <4>2. clock'[s] # NoClock
        <5>1. clock[s] \in Int \cup {NoClock}
          BY <1>1, Zenon DEF QueueTypes
        <5>2. QED
          BY <1>1, <1>7, <1>9, <1>10, <2>7, <3>3, <5>1, ZenonT(60) DEF QueueTypes
      <4>3. After.queued = t + tcp_idle_us /\ A \ {k} = A
        BY <1>3, <2>4, <2>7, <3>3, Zenon
      <4>4. QED
        BY <2>1, <2>2, <3>1, <4>1, <4>2, <4>3, Zenon
    <3>4. QED
      BY <3>2, <3>3, Zenon
  <2>8. QED
    BY <1>7, <2>5, <2>6, <2>7, Zenon
<1>13. QED
  BY <1>11, <1>12, Zenon

LEMMA ApplyAccounts ==
    ASSUME TableOK, CallOK, Apply
    PROVE  AccountsOK'
<1> DEFINE k == call.key
           S == LiveKeys
           T == LiveKeys'
           b == HeldBytes
           g == HeldSegments
           b1 == HeldBytes'
           g1 == HeldSegments'
<1>1. DirectionsOK /\ AccountsOK
  BY TableParts
<1>2. /\ k \in Keys /\ Before \in Direction /\ After \in Direction /\ FlowExact(Before) /\ Fits(Before, After)
      /\ buffered_bytes' = buffered_bytes - Before.bytes + After.bytes
      /\ buffered_segments' = buffered_segments - Len(Before.segments) + Len(After.segments)
      /\ ~Live(k) => Size < max_flows
  BY ApplyFacts, Zenon
<1>3. T = S \cup {k} /\ flows'[k] = After /\ \A j \in S \ {k} : flows'[j] = flows[j]
  BY ApplyDirections, Zenon
<1>4. DirectionsOK'
  BY ApplyDirections
<1>5. IsFiniteSet(S) /\ IsFiniteSet(T)
  BY <1>1, <1>3, FS_AddElement, Zenon DEF AccountsOK
<1>6. \A x \in Direction : x.bytes \in Nat /\ Len(x.segments) \in Nat
  BY DEF Direction
<1>7. \A j \in S : b[j] \in Nat /\ g[j] \in Nat
  <2>1. \A j \in LiveKeys : flows[j] \in Direction /\ Live(j) /\ j \in Keys
    BY <1>1, Zenon DEF DirectionsOK, DirectionOK, LiveKeys
  <2>2. QED
    BY <1>6, <2>1, Zenon DEF HeldBytes, HeldSegments
<1>8. \A j \in S \ {k} : b1[j] = b[j] /\ g1[j] = g[j]
  BY <1>3, Zenon DEF HeldBytes, HeldSegments, LiveKeys, Live
<1>9. b1[k] = After.bytes /\ g1[k] = Len(After.segments)
  <2>1. flows'[k] # NoFlow
    BY <1>2, <1>3, NoFlowAssumption, Zenon
  <2>2. QED
    BY <1>2, <1>3, <2>1, Zenon DEF HeldBytes, HeldSegments, Live
<1>10. buffered_bytes = SumFunctionOnSet(b, S) /\ buffered_segments = SumFunctionOnSet(g, S)
  BY <1>1, Zenon DEF AccountsOK
<1>11. After.bytes \in Nat /\ Len(After.segments) \in Nat /\ Before.bytes \in Nat /\ Len(Before.segments) \in Nat
  BY <1>2, <1>6, Zenon
<1>12. buffered_bytes \in Nat /\ buffered_segments \in Nat /\ buffered_bytes <= max_total_bytes /\ buffered_segments <= max_total_segments
  BY <1>1, Zenon DEF AccountsOK
<1>13. /\ SumFunctionOnSet(b1, T) = buffered_bytes' /\ SumFunctionOnSet(g1, T) = buffered_segments'
       /\ Before.bytes <= buffered_bytes /\ Len(Before.segments) <= buffered_segments
  <2>1. CASE k \in S
    <3>1. b[k] = Before.bytes /\ g[k] = Len(Before.segments) /\ T = S
      BY <1>2, <1>3, <2>1, Zenon DEF HeldBytes, HeldSegments, LiveKeys, Before
    <3> HIDE DEF k, S, T, b, g, b1, g1
    <3>2. Changes(b, S, b1, k) /\ Changes(g, S, g1, k)
      BY <1>5, <1>7, <1>8, <1>9, <1>11, <2>1 DEF Changes
    <3>3. PICK r \in Int : SumFunctionOnSet(b, S) = b[k] + r /\ SumFunctionOnSet(b1, S) = b1[k] + r
      BY <3>2, SumChanges
    <3>4. PICK q \in Int : SumFunctionOnSet(g, S) = g[k] + q /\ SumFunctionOnSet(g1, S) = g1[k] + q
      BY <3>2, SumChanges
    <3>5. (\A j \in S : b[j] \in Nat) /\ (\A j \in S : g[j] \in Nat)
      BY <1>7, Zenon
    <3>6. b[k] <= SumFunctionOnSet(b, S) /\ g[k] <= SumFunctionOnSet(g, S)
      BY <1>5, <2>1, <3>5, SumCovers, Zenon
    <3>7. SumFunctionOnSet(b1, S) = buffered_bytes' /\ SumFunctionOnSet(g1, S) = buffered_segments'
      BY <1>2, <1>9, <1>10, <1>11, <3>1, <3>3, <3>4
    <3>8. QED
      BY <1>10, <3>1, <3>6, <3>7, Zenon
  <2>2. CASE k \notin S
    <3>1. Before.bytes = 0 /\ Len(Before.segments) = 0
      BY <1>2, <2>2, Zenon DEF LiveKeys, Before, NewFlow
    <3> HIDE DEF k, S, T, b, g, b1, g1
    <3>2. Joins(b, S, b1, T, k) /\ Joins(g, S, g1, T, k)
      BY <1>3, <1>5, <1>7, <1>8, <1>9, <1>11, <2>2 DEF Joins
    <3>3. SumFunctionOnSet(b1, T) = b1[k] + SumFunctionOnSet(b, S) /\ SumFunctionOnSet(g1, T) = g1[k] + SumFunctionOnSet(g, S)
      BY <3>2, SumJoins
    <3>4. QED
      BY <1>2, <1>9, <1>10, <1>11, <1>12, <3>1, <3>3
  <2>3. QED
    BY <2>1, <2>2, Zenon
<1>14. Size' <= max_flows
  <2>1. Size = Cardinality(S) /\ Size' = Cardinality(T)
    BY DEF Size, LiveKeys
  <2>2. Cardinality(S) \in Nat
    BY <1>5, FS_CardinalityType, Zenon
  <2>3. CASE k \in S
    BY <1>1, <1>3, <2>1, <2>3, Zenon DEF AccountsOK
  <2>4. CASE k \notin S
    <3>1. Cardinality(T) = Cardinality(S) + 1
      BY <1>3, <1>5, <2>4, FS_AddElement, Zenon
    <3>2. Size < max_flows
      BY <1>2, <2>4, Zenon DEF LiveKeys
    <3>3. QED
      BY <2>1, <2>2, <3>1, <3>2, ReassemblyAssumption
  <2>5. QED
    BY <2>3, <2>4, Zenon
<1>15. buffered_bytes' \in Nat /\ buffered_bytes' <= max_total_bytes
  BY <1>2, <1>11, <1>12, <1>13, ReassemblyAssumption DEF Fits
<1>16. buffered_segments' \in Nat /\ buffered_segments' <= max_total_segments
  BY <1>2, <1>11, <1>12, <1>13, ReassemblyAssumption DEF Fits
<1>17. QED
  BY <1>5, <1>13, <1>14, <1>15, <1>16, Zenon DEF AccountsOK

LEMMA ApplyKeeps == ASSUME TableOK, CallOK, Apply PROVE TableOK'
BY ApplyDirections, ApplyQueues, ApplyAccounts, TablePartsNext, Zenon

\* An entry at the front of the queue belongs to a scheduled direction of the interface.
LEMMA FrontEntry ==
    ASSUME TableOK, CallOK, NEW e, Front(e)
    PROVE  /\ e[2] \in LiveKeys /\ e = <<flows[e[2]].queued, e[2]>> /\ flows[e[2]].scheduled
           /\ ScopeOf[e[2]] = ScopeOf[call.key] /\ ScopeOf[call.key] \in Scopes
           /\ e \in expiry[ScopeOf[call.key]]
           /\ clock[ScopeOf[call.key]] \in Int /\ e[1] \in Int /\ e[1] < clock[ScopeOf[call.key]]
<1> DEFINE s == ScopeOf[call.key]
<1>1. call.pc = "expire" /\ e \in expiry[s] /\ (\A d \in expiry[s] : e[1] <= d[1]) /\ \E d \in expiry[s] : d[1] < clock[s]
  BY Zenon DEF Front, Expiring
<1>2. s \in Scopes
  BY <1>1, CallTypes, Zenon
<1> HIDE DEF s
<1>3. QueuesOK /\ QueueTypes
  BY TableParts
<1>4. PICK j \in LiveKeys : ScopeOf[j] = s /\ flows[j].scheduled /\ e = <<flows[j].queued, j>>
  BY <1>1, <1>2, <1>3 DEF QueuesOK
<1>5. clock[s] \in Int
  BY <1>1, <1>2, <1>3, Zenon DEF QueuesOK, QueueTypes
<1>6. \A d \in expiry[s] : d[1] \in Int
  BY <1>2, <1>3 DEF QueueTypes
<1>7. e[1] < clock[s]
  BY <1>1, <1>5, <1>6
<1>8. QED
  BY <1>1, <1>2, <1>4, <1>5, <1>6, <1>7, Zenon DEF s

LEMMA RequeueKeeps ==
    ASSUME TableOK, CallOK, NEW e, RequeueStale(e)
    PROVE  TableOK'
<1> DEFINE k == e[2]
           s0 == ScopeOf[call.key]
           d == flows[k].deadline
<1>1. DirectionsOK /\ QueuesOK /\ QueueTypes /\ AccountsOK
  BY TableParts
<1>2. /\ k \in LiveKeys /\ e = <<flows[k].queued, k>> /\ flows[k].scheduled
      /\ ScopeOf[k] = s0 /\ s0 \in Scopes /\ e \in expiry[s0]
  BY FrontEntry, Zenon DEF RequeueStale
<1>3. /\ expiry' = [expiry EXCEPT ![s0] = (@ \ {e}) \cup {<<d, k>>}]
      /\ flows' = [flows EXCEPT ![k].queued = d]
      /\ clock' = clock /\ next_id' = next_id
      /\ buffered_bytes' = buffered_bytes /\ buffered_segments' = buffered_segments
  BY Zenon DEF RequeueStale
<1>4. k \in Keys /\ flows[k] \in Direction /\ DirectionOK(flows[k]) /\ d \in Int
  BY <1>1, <1>2, Zenon DEF DirectionsOK, DirectionOK, LiveKeys, Direction
<1> HIDE DEF k, s0, d
<1>5. flows'[k] = [flows[k] EXCEPT !.queued = d] /\ \A j \in Keys \ {k} : flows'[j] = flows[j]
  BY <1>1, <1>3, <1>4, Zenon DEF DirectionsOK
<1>6. /\ flows'[k] \in Direction /\ flows'[k].queued = d /\ flows'[k].scheduled
      /\ flows'[k].bytes = flows[k].bytes /\ flows'[k].segments = flows[k].segments
  <2>1. [flows[k] EXCEPT !.queued = d] \in Direction
    BY <1>2, <1>4, Zenon DEF Direction
  <2>2. QED
    BY <1>2, <1>4, <1>5, <2>1, Zenon DEF Direction
<1>7. DirectionOK(flows[k])'
  <2>1. /\ flows'[k].id = flows[k].id /\ flows'[k].failure = flows[k].failure /\ flows'[k].untimed = flows[k].untimed
        /\ flows'[k].deadline = flows[k].deadline /\ flows'[k].latest = flows[k].latest /\ flows'[k].scheduled = flows[k].scheduled
    BY <1>4, <1>5, Zenon DEF Direction
  <2>2. flows'[k].queued <= flows'[k].deadline
    BY <1>4, <1>6, <2>1 DEF d
  <2>3. FlowExact(flows[k])'
    BY <1>4, <1>6, <2>1, Zenon DEF DirectionOK, FlowExact
  <2>4. QED
    BY <1>3, <1>4, <1>6, <2>1, <2>2, <2>3, Zenon DEF DirectionOK
<1>8. LiveKeys' = LiveKeys
  BY <1>2, <1>5, <1>6, NoFlowAssumption, Zenon DEF LiveKeys, Live
<1>9. flows' \in [Keys -> Direction \cup {NoFlow}]
  BY <1>1, <1>3, <1>4, <1>5, <1>6, Zenon DEF DirectionsOK
<1>10. DirectionsOK'
  <2>1. ASSUME NEW j \in LiveKeys, j # k PROVE DirectionOK(flows[j])'
    <3>1. DirectionOK(flows[j]) /\ flows'[j] = flows[j]
      BY <1>1, <1>5, <2>1, Zenon DEF DirectionsOK, LiveKeys
    <3>2. QED
      BY <1>3, <3>1, Zenon DEF DirectionOK, FlowExact
  <2>2. QED
    BY <1>7, <1>8, <1>9, <2>1, Zenon DEF DirectionsOK
<1>11. QueueTypes'
  BY <1>1, <1>2, <1>3, <1>4 DEF QueueTypes
<1>12. QueuesOK'
  <2> SUFFICES ASSUME NEW s \in Scopes
               PROVE  /\ expiry'[s] = {<<flows'[j].queued, j>> : j \in {i \in LiveKeys' : ScopeOf[i] = s /\ flows'[i].scheduled}}
                      /\ clock'[s] = NoClock <=> expiry'[s] = {}
    BY Zenon DEF QueuesOK
  <2> DEFINE A == {i \in LiveKeys : ScopeOf[i] = s /\ flows[i].scheduled}
             B == {i \in LiveKeys' : ScopeOf[i] = s /\ flows'[i].scheduled}
             Q(C) == {<<flows[j].queued, j>> : j \in C}
             Q1(C) == {<<flows'[j].queued, j>> : j \in C}
  <2>1. expiry[s] = Q(A) /\ (clock[s] = NoClock <=> expiry[s] = {})
    BY <1>1, Zenon DEF QueuesOK
  <2>2. A = B
    BY <1>2, <1>5, <1>6, <1>8, Zenon DEF LiveKeys
  <2>3. Q1(B \ {k}) = Q(A \ {k})
    BY <1>5, <2>2 DEF LiveKeys
  <2>4. CASE s = s0
    <3>1. k \in A /\ k \in B
      BY <1>2, <2>2, <2>4, Zenon
    <3>2. expiry'[s] = (expiry[s] \ {e}) \cup {<<d, k>>}
      BY <1>1, <1>3, <2>4, Zenon DEF QueueTypes
    <3>3. expiry[s] \ {e} = Q(A \ {k})
      BY <1>2, <2>1
    <3>4. Q1(B) = Q1(B \ {k}) \cup {<<d, k>>}
      BY <1>6, <3>1, Zenon
    <3>5. expiry'[s] = Q1(B) /\ expiry'[s] # {}
      BY <2>3, <3>2, <3>3, <3>4, Zenon
    <3>6. clock'[s] # NoClock
      BY <1>2, <1>3, <2>1, <2>4, Zenon
    <3>7. QED
      BY <3>5, <3>6, Zenon
  <2>5. CASE s # s0
    <3>1. k \notin A /\ k \notin B /\ expiry'[s] = expiry[s] /\ clock'[s] = clock[s]
      BY <1>1, <1>2, <1>3, <2>2, <2>5, Zenon DEF QueueTypes
    <3>2. A \ {k} = A /\ B \ {k} = B
      BY <3>1, Zenon
    <3>3. QED
      BY <2>1, <2>3, <3>1, <3>2, Zenon
  <2>6. QED
    BY <2>4, <2>5, Zenon
<1>13. AccountsOK'
  <2>1. HeldBytes' = HeldBytes /\ HeldSegments' = HeldSegments
    <3>1. \A j \in Keys : Live(j)' = Live(j)
      BY <1>8 DEF LiveKeys, Live
    <3>2. \A j \in Keys : flows'[j].bytes = flows[j].bytes /\ flows'[j].segments = flows[j].segments
      BY <1>5, <1>6, Zenon
    <3>3. QED
      BY <3>1, <3>2, Zenon DEF HeldBytes, HeldSegments
  <2>2. Size' = Size
    BY <1>8 DEF Size, LiveKeys
  <2>3. QED
    BY <1>1, <1>3, <1>8, <2>1, <2>2, Zenon DEF AccountsOK
<1>14. QED
  BY <1>10, <1>11, <1>12, <1>13, TablePartsNext, Zenon

-----------------------------------------------------------------------------
(* Every step keeps the invariant. *)

LEMMA InitInv == Init => Inv
<1> SUFFICES ASSUME Init PROVE Inv
  OBVIOUS
<1>1. LiveKeys = {} /\ \A k \in Keys : ~Live(k)
  BY DEF Init, LiveKeys, Live
<1>2. DirectionsOK /\ QueuesOK /\ QueueTypes
  BY <1>1, ReassemblyAssumption DEF Init, DirectionsOK, QueuesOK, QueueTypes
<1>3. AccountsOK
  <2>1. IsFiniteSet(LiveKeys) /\ Size = 0
    BY <1>1, FS_EmptySet, Zenon DEF Size, LiveKeys
  <2>2. SumFunctionOnSet(HeldBytes, LiveKeys) = 0 /\ SumFunctionOnSet(HeldSegments, LiveKeys) = 0
    BY <1>1, SumEmpty, Zenon
  <2>3. QED
    BY <2>1, <2>2, ReassemblyAssumption DEF AccountsOK, Init
<1>4. CallOK /\ CallProgress
  BY Zenon DEF Init, Idle, CallOK, CallProgress
<1>5. QED
  BY <1>2, <1>3, <1>4, TableParts, Zenon DEF Inv

\* A call that has got further has the same packet.
LEMMA GotoKeeps ==
    ASSUME CallOK, call.pc \notin {"idle", "eof"},
           NEW pc \in {"expire", "reuse_reverse", "deliver", "reset", "reset_reverse", "thrown"}, Goto(pc)
    PROVE  /\ CallOK' /\ call'.pc = pc
           /\ call'.key = call.key /\ call'.packet = call.packet /\ call'.time = call.time
<1>1. call \in [pc : {"expire", "reuse_reverse", "deliver", "reset", "reset_reverse", "thrown"},
                key : Keys, packet : Packets, time : Times \cup {NoTime}]
  BY DEF CallOK
<1>2. call' = [call EXCEPT !.pc = pc]
  BY DEF Goto
<1>3. QED
  BY <1>1, <1>2, Zenon DEF CallOK

\* Nothing is asked of a call that is over, or past the packet.
LEMMA ProgressOver ==
    ASSUME call'.pc \in {"idle", "eof", "thrown", "reset", "reset_reverse"} PROVE CallProgress'
BY Zenon DEF CallProgress

\* A packet moves its interface's clock to its own time at least.
LEMMA TickedCovers ==
    ASSUME NEW now \in Int, NEW t \in Int
    PROVE  Ticked(now, t) \in Int /\ Ticked(now, t) >= t
BY MaxPair, ZenonT(60) DEF Ticked

LEMMA PacketInv ==
    ASSUME Inv, NEW k \in Keys, NEW p \in Packets, NEW t \in Times \cup {NoTime}, Packet(k, p, t)
    PROVE  Inv'
<1>1. TableOK /\ DirectionsOK /\ QueuesOK /\ QueueTypes /\ AccountsOK
  BY TableParts DEF Inv
<1> DEFINE s0 == ScopeOf[k]
<1>2. s0 \in Scopes /\ t \in Int \cup {NoTime} /\ NoClock \notin Int
  BY ReassemblyAssumption, Zenon
<1>3. /\ call' = [pc |-> "expire", key |-> k, packet |-> p, time |-> t]
      /\ clock' = IF t = NoTime \/ clock[s0] = NoClock THEN clock ELSE [clock EXCEPT ![s0] = Ticked(@, t)]
      /\ UNCHANGED <<flows, expiry, buffered_bytes, buffered_segments, next_id>>
  BY Zenon DEF Packet
<1> HIDE DEF s0
<1>4. \A s \in Scopes : clock[s] \in Int \cup {NoClock}
  BY <1>1, Zenon DEF QueueTypes
<1>5. t # NoTime /\ clock[s0] # NoClock => clock'[s0] = Ticked(clock[s0], t) /\ clock'[s0] \in Int /\ clock'[s0] >= t
  BY <1>1, <1>2, <1>3, <1>4, TickedCovers, Zenon DEF QueueTypes
<1>6. \A s \in Scopes : clock'[s] \in Int \cup {NoClock} /\ (clock'[s] = NoClock <=> clock[s] = NoClock)
  BY <1>1, <1>2, <1>3, <1>4, <1>5, Zenon DEF QueueTypes
<1>7. LiveKeys' = LiveKeys /\ HeldBytes' = HeldBytes /\ HeldSegments' = HeldSegments /\ Size' = Size
  BY <1>3, Zenon DEF LiveKeys, Live, HeldBytes, HeldSegments, Size
<1>8. DirectionsOK'
  BY <1>1, <1>3, <1>7, Zenon DEF DirectionsOK, DirectionOK, FlowExact
<1>9. QueuesOK'
  BY <1>1, <1>3, <1>6, <1>7, Zenon DEF QueuesOK
<1>10. QueueTypes'
  <2>1. clock' \in [Scopes -> Int \cup {NoClock}]
    BY <1>1, <1>2, <1>3, <1>5, Zenon DEF QueueTypes
  <2>2. QED
    BY <1>1, <1>3, <2>1, Zenon DEF QueueTypes
<1>11. AccountsOK'
  BY <1>1, <1>3, <1>7, Zenon DEF AccountsOK
<1>12. CallOK'
  BY <1>3, Zenon DEF CallOK
<1>13. CallProgress'
  <2>1. t # NoTime /\ clock'[s0] # NoClock => clock'[s0] >= t
    BY <1>2, <1>5, <1>6, Zenon
  <2>2. call'.pc = "expire" /\ call'.key = k /\ call'.time = t
    BY <1>3, Zenon
  <2>3. QED
    BY <2>1, <2>2, Zenon DEF CallProgress, s0
<1>14. QED
  BY <1>8, <1>9, <1>10, <1>11, <1>12, <1>13, TablePartsNext, Zenon DEF Inv

\* Once the loop of Expire is over, no entry of the queue is overdue.
LEMMA NobodyQueuedOverdue ==
    ASSUME Inv, call.pc \in {"expire", "reuse_reverse", "deliver"}, call.pc = "expire" => Expired, call.time # NoTime
    PROVE  \A e \in expiry[ScopeOf[call.key]] :
               e[1] \in Int /\ clock[ScopeOf[call.key]] \in Int /\ e[1] >= clock[ScopeOf[call.key]]
<1> DEFINE s == ScopeOf[call.key]
<1>1. s \in Scopes
  BY CallTypes, Zenon DEF Inv
<1>2. QueuesOK /\ QueueTypes
  BY TableParts DEF Inv
<1>3. \A e \in expiry[s] : e[1] \in Int /\ clock[s] \in Int
  BY <1>1, <1>2 DEF QueuesOK, QueueTypes
<1>4. CASE call.pc = "expire"
  BY <1>3, <1>4 DEF Expired, Expiring
<1>5. CASE call.pc # "expire"
  BY <1>3, <1>5, Zenon DEF Inv, CallProgress
<1>6. QED
  BY <1>4, <1>5, Zenon

\* A removal in the middle of a call takes nothing from what the call has established.
LEMMA RemoveProgress ==
    ASSUME Inv, call.pc \in {"expire", "reuse_reverse"}, call.pc = "expire" => Expired,
           NEW k \in Keys, Remove(k, "tuple_reuse"), next_id' = next_id,
           NEW pc \in {"reuse_reverse", "deliver"}, Goto(pc)
    PROVE  /\ TableOK' /\ CallOK' /\ call'.pc = pc /\ call'.key = call.key /\ call'.packet = call.packet
           /\ ~Live(k)' /\ \A j \in Keys : Live(j)' => Live(j)
           /\ call'.time # NoTime =>
                \A e \in expiry'[ScopeOf[call.key]] : e[1] >= clock'[ScopeOf[call.key]]
           /\ call'.time # NoTime /\ clock'[ScopeOf[call.key]] # NoClock =>
                clock'[ScopeOf[call.key]] >= call'.time
<1> DEFINE s == ScopeOf[call.key]
<1>1. TableOK /\ CallOK /\ CallProgress
  BY DEF Inv
<1>2. /\ TableOK' /\ ~Live(k)' /\ \A j \in Keys : Live(j)' => Live(j)
      /\ \A r \in Scopes : expiry'[r] \subseteq expiry[r] /\ (clock'[r] = clock[r] \/ clock'[r] = NoClock)
  BY <1>1, RemoveKeeps, Zenon
<1>3. /\ CallOK' /\ call'.pc = pc
      /\ call'.key = call.key /\ call'.packet = call.packet /\ call'.time = call.time
  BY <1>1, GotoKeeps, Zenon
<1>4. s \in Scopes
  BY <1>1, CallTypes, Zenon
<1>5. call.time # NoTime => \A e \in expiry[s] : e[1] >= clock[s]
  BY NobodyQueuedOverdue, Zenon
<1>6. call.time # NoTime /\ clock[s] # NoClock => clock[s] >= call.time
  BY <1>1, Zenon DEF CallProgress
<1> HIDE DEF s
<1>7. clock'[s] = NoClock => expiry'[s] = {}
  BY <1>2, <1>4, TablePartsNext, Zenon DEF QueuesOK
<1>8. call.time # NoTime => \A e \in expiry'[s] : e[1] >= clock'[s]
  BY <1>2, <1>4, <1>5, <1>7, Zenon
<1>9. call.time # NoTime /\ clock'[s] # NoClock => clock'[s] >= call.time
  BY <1>2, <1>4, <1>6, Zenon
<1>10. QED
  BY <1>2, <1>3, <1>8, <1>9, Zenon DEF s

LEMMA ReuseInv == ASSUME Inv, Reuse PROVE Inv'
<1> DEFINE pc == IF call.packet.ack THEN "deliver" ELSE "reuse_reverse"
<1>1. /\ call.pc = "expire" /\ Expired /\ Remove(call.key, "tuple_reuse") /\ next_id' = next_id
      /\ Goto(pc) /\ call.packet.syn
  BY Zenon DEF Reuse, Expired, NewSyn
<1>2. call.key \in Keys /\ pc \in {"reuse_reverse", "deliver"}
  BY <1>1, CallTypes, Zenon DEF Inv
<1>3. (pc = "deliver" => call.packet.ack) /\ (pc = "reuse_reverse" => ~call.packet.ack)
  OBVIOUS
<1> HIDE DEF pc
<1>4. /\ TableOK' /\ CallOK' /\ call'.pc = pc /\ call'.key = call.key /\ call'.packet = call.packet
      /\ ~Live(call.key)'
      /\ call'.time # NoTime =>
           \A e \in expiry'[ScopeOf[call.key]] : e[1] >= clock'[ScopeOf[call.key]]
      /\ call'.time # NoTime /\ clock'[ScopeOf[call.key]] # NoClock =>
           clock'[ScopeOf[call.key]] >= call'.time
  BY <1>1, <1>2, RemoveProgress, Zenon
<1>5. ~Live(call.key)' => flows'[call'.key] = NoFlow
  BY <1>4, Zenon DEF Live
<1>6. CallProgress'
  BY <1>1, <1>3, <1>4, <1>5, Zenon DEF CallProgress, Live
<1>7. QED
  BY <1>4, <1>6, Zenon DEF Inv

LEMMA ReuseReverseInv == ASSUME Inv, ReuseReverse PROVE Inv'
<1> DEFINE k == Reverse[call.key]
<1>1. call.pc = "reuse_reverse" /\ Remove(k, "tuple_reuse") /\ next_id' = next_id /\ Goto("deliver")
  BY DEF ReuseReverse
<1>2. k \in Keys /\ call.key \in Keys
  BY <1>1, CallTypes, Zenon DEF Inv
<1>3. call.packet.syn /\ ~Live(call.key)
  BY <1>1, Zenon DEF Inv, CallProgress
<1>4. /\ TableOK' /\ CallOK' /\ call'.pc = "deliver" /\ call'.key = call.key /\ call'.packet = call.packet
      /\ ~Live(k)' /\ \A j \in Keys : Live(j)' => Live(j)
      /\ call'.time # NoTime =>
           \A e \in expiry'[ScopeOf[call.key]] : e[1] >= clock'[ScopeOf[call.key]]
      /\ call'.time # NoTime /\ clock'[ScopeOf[call.key]] # NoClock =>
           clock'[ScopeOf[call.key]] >= call'.time
  BY <1>1, <1>2, RemoveProgress, Zenon
<1>5. flows'[call'.key] = NoFlow /\ flows'[Reverse[call'.key]] = NoFlow
  BY <1>2, <1>3, <1>4, Zenon DEF Live
<1>6. CallProgress'
  BY <1>3, <1>4, <1>5, Zenon DEF CallProgress, Live
<1>7. QED
  BY <1>4, <1>6, Zenon DEF Inv

LEMMA DeliverInv ==
    ASSUME Inv, Ignore \/ Exhaust \/ Refuse \/ Apply
    PROVE  Inv'
<1>1. TableOK /\ CallOK /\ QueueTypes
  BY TableParts DEF Inv
<1>2. call.pc \notin {"idle", "eof"}
  BY Zenon DEF Ignore, Exhaust, Refuse, Apply, Opens, Deliver, Expired
<1>3. Reverse[call.key] \in Keys
  BY <1>1, <1>2, CallTypes, Zenon
<1>4. next_id \in 1..MaxId /\ MaxId \in Nat
  BY <1>1, ReassemblyAssumption, Zenon DEF QueueTypes
<1>5. Idle.pc = "idle" /\ (call' = Idle => CallOK')
  BY DEF Idle, CallOK
<1>6. CASE Ignore
  <2>1. TableOK'
    <3>1. next_id' = next_id /\ (Remove(Reverse[call.key], "reset") \/ UNCHANGED tableVars)
      BY <1>6, Zenon DEF Ignore
    <3>2. QED
      BY <1>1, <1>3, <1>4, <3>1, RemoveKeeps, TableUnchanged
  <2>2. call' = Idle
    BY <1>6, Zenon DEF Ignore
  <2>3. QED
    BY <1>5, <2>1, <2>2, ProgressOver, Zenon DEF Inv
<1>7. CASE Exhaust
  <2>1. TableOK'
    BY <1>1, <1>4, <1>7, TableUnchanged DEF Exhaust
  <2>2. Goto("thrown")
    BY <1>7, Zenon DEF Exhaust
  <2>3. CallOK' /\ call'.pc = "thrown"
    BY <1>1, <1>2, <2>2, GotoKeeps, Zenon
  <2>4. QED
    BY <2>1, <2>3, ProgressOver, Zenon DEF Inv
<1>8. CASE Refuse
  <2>1. TableOK'
    <3>1. next_id' = next_id + 1 /\ next_id # MaxId /\ UNCHANGED tableVars
      BY <1>8, Zenon DEF Refuse
    <3>2. next_id' \in 1..MaxId /\ next_id' >= next_id
      BY <1>4, <3>1
    <3>3. QED
      BY <1>1, <3>1, <3>2, TableUnchanged, Zenon
  <2>2. call' = Idle
    BY <1>8, Zenon DEF Refuse
  <2>3. QED
    BY <1>5, <2>1, <2>2, ProgressOver, Zenon DEF Inv
<1>9. CASE Apply
  <2>1. TableOK'
    BY <1>1, <1>9, ApplyKeeps, Zenon
  <2>2. call' = Idle \/ Goto("reset")
    BY <1>9, Zenon DEF Apply
  <2>3. CallOK' /\ call'.pc \in {"idle", "reset"}
    BY <1>1, <1>2, <1>5, <2>2, GotoKeeps, Zenon
  <2>4. QED
    BY <2>1, <2>3, ProgressOver, Zenon DEF Inv
<1>10. QED
  BY <1>6, <1>7, <1>8, <1>9, Zenon

LEMMA RemovalInv ==
    ASSUME Inv, Reset \/ ResetReverse \/ \E k \in Keys : FinishNext(k)
    PROVE  Inv'
<1>1. TableOK /\ CallOK
  BY DEF Inv
<1>2. CASE Reset
  <2>1. call.pc = "reset" /\ Remove(call.key, "reset") /\ Goto("reset_reverse") /\ next_id' = next_id
    BY <1>2, Zenon DEF Reset
  <2>2. call.key \in Keys
    BY <1>1, <2>1, CallTypes, Zenon
  <2>3. TableOK'
    BY <1>1, <2>1, <2>2, RemoveKeeps, Zenon
  <2>4. CallOK' /\ call'.pc = "reset_reverse"
    BY <1>1, <2>1, GotoKeeps, Zenon
  <2>5. QED
    BY <2>3, <2>4, ProgressOver, Zenon DEF Inv
<1>3. CASE ResetReverse
  <2>1. call.pc = "reset_reverse" /\ Remove(Reverse[call.key], "reset") /\ call' = Idle /\ next_id' = next_id
    BY <1>3, Zenon DEF ResetReverse
  <2>2. Reverse[call.key] \in Keys
    BY <1>1, <2>1, CallTypes, Zenon
  <2>3. TableOK'
    BY <1>1, <2>1, <2>2, RemoveKeeps, Zenon
  <2>4. CallOK' /\ call'.pc = "idle"
    BY <2>1, Zenon DEF Idle, CallOK
  <2>5. QED
    BY <2>3, <2>4, ProgressOver, Zenon DEF Inv
<1>4. ASSUME NEW k \in Keys, FinishNext(k) PROVE Inv'
  <2>1. Remove(k, "eof") /\ call' = [pc |-> "eof"] /\ next_id' = next_id
    BY <1>4, Zenon DEF FinishNext
  <2>2. TableOK'
    BY <1>1, <2>1, RemoveKeeps, Zenon
  <2>3. CallOK' /\ call'.pc = "eof"
    BY <2>1, Zenon DEF CallOK
  <2>4. QED
    BY <2>2, <2>3, ProgressOver, Zenon DEF Inv
<1>5. QED
  BY <1>2, <1>3, <1>4, Zenon

LEMMA ExpireInv ==
    ASSUME Inv, NEW e, RequeueStale(e) \/ ExpireIdle(e)
    PROVE  Inv'
<1>1. TableOK /\ CallOK /\ CallProgress
  BY DEF Inv
<1>2. Front(e) /\ call.pc = "expire" /\ call' = call /\ next_id' = next_id
  BY Zenon DEF RequeueStale, ExpireIdle, Front, Expiring
<1>3. e[2] \in Keys /\ ScopeOf[call.key] \in Scopes
  BY <1>1, <1>2, FrontEntry, Zenon DEF LiveKeys
<1>4. CASE RequeueStale(e)
  <2>1. TableOK'
    BY <1>1, <1>4, RequeueKeeps, Zenon
  <2>2. clock' = clock
    BY <1>4, Zenon DEF RequeueStale
  <2>3. CallOK' /\ CallProgress'
    BY <1>1, <1>2, <2>2, Zenon DEF CallOK, CallProgress
  <2>4. QED
    BY <2>1, <2>3, Zenon DEF Inv
<1>5. CASE ExpireIdle(e)
  <2>1. Remove(e[2], "idle_timeout")
    BY <1>5, Zenon DEF ExpireIdle
  <2>2. /\ TableOK'
        /\ \A s \in Scopes : clock'[s] = clock[s] \/ clock'[s] = NoClock
    BY <1>1, <1>2, <1>3, <2>1, RemoveKeeps, Zenon
  <2>3. CallOK'
    BY <1>1, <1>2, Zenon DEF CallOK
  <2>4. CallProgress'
    BY <1>1, <1>2, <1>3, <2>2, Zenon DEF CallProgress
  <2>5. QED
    BY <2>2, <2>3, <2>4, Zenon DEF Inv
<1>6. QED
  BY <1>4, <1>5, Zenon

LEMMA NextInv == Inv /\ [Next]_vars => Inv'
<1> SUFFICES ASSUME Inv, [Next]_vars PROVE Inv'
  OBVIOUS
<1>1. ASSUME NEW k \in Keys, NEW p \in Packets, NEW t \in Times \cup {NoTime}, Packet(k, p, t) PROVE Inv'
  BY <1>1, PacketInv, Zenon
<1>2. ASSUME Step PROVE Inv'
  BY <1>2, ReuseInv, ReuseReverseInv, DeliverInv, RemovalInv, ExpireInv, Zenon DEF Step
<1>3. ASSUME NEW k \in Keys, FinishNext(k) PROVE Inv'
  BY <1>3, RemovalInv, Zenon
<1>4. ASSUME UNCHANGED vars PROVE Inv'
  <2>1. TableOK'
    <3>1. QueueTypes /\ MaxId \in Nat
      BY TableParts, ReassemblyAssumption, Zenon DEF Inv
    <3>2. QED
      BY <1>4, <3>1, TableUnchanged DEF Inv, vars, tableVars, QueueTypes
  <2>2. CallOK' /\ CallProgress'
    BY <1>4, Zenon DEF Inv, vars, CallOK, CallProgress, Live
  <2>3. QED
    BY <2>1, <2>2, Zenon DEF Inv
<1>5. QED
  BY <1>1, <1>2, <1>3, <1>4, Zenon DEF Next, Finished

-----------------------------------------------------------------------------
(* The theorems. *)

LEMMA Invariant == Spec => []Inv
BY InitInv, NextInv, PTL DEF Spec

\* The global counts of buffered bytes and segments are the sums over the directions,
\* a direction's bytes are those of its segments, and every limit holds, in any
\* sequence of packets (Buffer, Fail, Remove and Track of tcp_reassembly.cpp).
THEOREM ReassemblyBuffers == Spec => []BuffersExact
<1>1. Inv => BuffersExact
  BY DEF Inv, TableOK
<1>2. QED
  BY <1>1, Invariant, PTL

\* The queues of deadlines hold exactly the scheduled directions, as the assertions of
\* Schedule, Unschedule and Expire assume, and when a packet is delivered nobody on its
\* interface is overdue.
THEOREM ReassemblyExpiry == Spec => []ExpiryExact
<1>1. ASSUME Inv PROVE NothingOverdue
  <2> SUFFICES ASSUME Deliver, call.time # NoTime, NEW k \in LiveKeys,
                      ScopeOf[k] = ScopeOf[call.key], flows[k].scheduled
               PROVE  flows[k].deadline >= clock[ScopeOf[k]] /\ clock[ScopeOf[k]] >= call.time
    BY Zenon DEF NothingOverdue
  <2> DEFINE s == ScopeOf[call.key]
             e == <<flows[k].queued, k>>
  <2>1. call.pc \in {"expire", "deliver"} /\ (call.pc = "expire" => Expired)
    BY DEF Deliver, Expired
  <2>2. s \in Scopes
    BY <1>1, <2>1, CallTypes, Zenon DEF Inv
  <2>3. DirectionsOK /\ QueuesOK
    BY <1>1, TableParts, Zenon DEF Inv
  <2>4. e \in expiry[s]
    BY <2>2, <2>3, Zenon DEF QueuesOK
  <2>5. e[1] \in Int /\ clock[s] \in Int /\ e[1] >= clock[s]
    BY <1>1, <2>1, <2>4, NobodyQueuedOverdue, Zenon
  <2>6. flows[k].queued <= flows[k].deadline /\ flows[k].deadline \in Int
    BY <2>3, Zenon DEF DirectionsOK, DirectionOK, Direction
  <2>7. clock[s] >= call.time
    BY <1>1, <2>1, <2>5, ReassemblyAssumption, Zenon DEF Inv, CallProgress
  <2>8. QED
    BY <2>5, <2>6, <2>7
<1>2. Inv => ExpiryExact
  BY <1>1 DEF Inv, TableOK, ExpiryExact
<1>3. QED
  BY <1>2, Invariant, PTL

\* Rows are collected by Remove, with its reason, and by Refuse.
LEMMA RemoveRows ==
    ASSUME NEW k, NEW reason, Remove(k, reason), NEW r \in rows' \ rows
    PROVE  r.finalized_by = reason /\ r.key = k
BY DEF Remove, Row

\* The loop of Expire ends a direction only when its interface's clock is past its
\* latest packet by more than the timeout, whatever order the timestamps came in
\* (Expire and Schedule; timestamps whose deadline overflows apart).
THEOREM NeverExpiredEarly == Spec => IdleOnlyWhenQuiet
<1> DEFINE Quiet(r) ==
        LET latest == flows[r.key].latest
        IN  latest <= TimeMax - tcp_idle_us => latest + tcp_idle_us < clock[ScopeOf[r.key]]
<1>1. ASSUME Inv, [Next]_vars, NEW r \in rows' \ rows, r.finalized_by = "idle_timeout" PROVE Quiet(r)
  <2>1. ASSUME NEW e, ExpireIdle(e) PROVE Quiet(r)
    <3>1. Front(e) /\ Remove(e[2], "idle_timeout") /\ flows[e[2]].deadline <= e[1]
      BY <2>1, Zenon DEF ExpireIdle
    <3>2. r.key = e[2]
      BY <3>1, RemoveRows, Zenon
    <3>3. /\ e[2] \in LiveKeys /\ flows[e[2]].scheduled /\ ScopeOf[e[2]] = ScopeOf[call.key]
          /\ clock[ScopeOf[call.key]] \in Int /\ e[1] \in Int /\ e[1] < clock[ScopeOf[call.key]]
      BY <1>1, <3>1, FrontEntry, Zenon DEF Inv
    <3>4. DirectionOK(flows[e[2]])
      BY <1>1, <3>3, TableParts, Zenon DEF Inv, DirectionsOK
    <3>5. flows[e[2]].latest \in Int /\ flows[e[2]].deadline \in Int
      BY <3>3, <3>4, Zenon DEF DirectionOK, Direction
    <3>6. flows[e[2]].latest <= TimeMax - tcp_idle_us => flows[e[2]].latest + tcp_idle_us <= flows[e[2]].deadline
      BY <3>3, <3>4, Zenon DEF DirectionOK
    <3>7. QED
      BY <3>1, <3>2, <3>3, <3>5, <3>6, ReassemblyAssumption
  <2>2. ASSUME NEW k, NEW reason, Remove(k, reason), reason # "idle_timeout" PROVE FALSE
    BY <1>1, <2>2, RemoveRows, Zenon
  <2>3. ASSUME rows' = rows PROVE FALSE
    BY <1>1, <2>3, Zenon
  <2>4. CASE Reuse \/ ReuseReverse \/ Reset \/ ResetReverse \/ \E k \in Keys : FinishNext(k)
    BY <2>2, <2>4, Zenon DEF Reuse, ReuseReverse, Reset, ResetReverse, FinishNext
  <2>5. CASE Ignore
    BY <2>2, <2>3, <2>5, Zenon DEF Ignore
  <2>6. CASE Refuse
    <3>1. r = Row(call.key, NewFlow(next_id), "limit", "limit")
      BY <1>1, <2>6, Zenon DEF Refuse
    <3>2. QED
      BY <1>1, <3>1, Zenon DEF Row
  <2>7. CASE Exhaust \/ Apply \/ \E s \in Scopes : \E e \in expiry[s] : RequeueStale(e)
    BY <2>3, <2>7, Zenon DEF Exhaust, Apply, RequeueStale
  <2>8. CASE \E k \in Keys, p \in Packets, t \in Times \cup {NoTime} : Packet(k, p, t)
    BY <2>3, <2>8, Zenon DEF Packet
  <2>9. CASE UNCHANGED vars
    BY <2>3, <2>9, Zenon DEF vars
  <2>10. QED
    BY <1>1, <2>1, <2>4, <2>5, <2>6, <2>7, <2>8, <2>9, Zenon DEF Next, Step, Finished
<1>2. Inv /\ [Next]_vars =>
          [\A r \in rows' \ rows : r.finalized_by = "idle_timeout" =>
              LET latest == flows[r.key].latest
              IN  latest <= TimeMax - tcp_idle_us => latest + tcp_idle_us < clock[ScopeOf[r.key]]]_vars
  BY <1>1, Zenon
<1>3. QED
  BY <1>2, Invariant, PTL DEF Spec, IdleOnlyWhenQuiet

\* What a packet does to the SYN of a direction: Schedule, FIN and data leave it alone.
LEMMA AppliedSyn ==
    ASSUME NEW f \in Direction, FlowExact(f), NEW p \in PacketType, NEW t \in Stamps
    PROVE  Applied(f, p, t).syn = IF p.syn THEN p.sequence ELSE f.syn
<1> DEFINE a == Scheduled(f, t)
           b == WithSyn(a, p)
           c == WithFin(b, p)
           d == WithData(c, p)
<1>1. a \in Direction /\ FlowExact(a)
  BY ScheduledKeeps, Zenon
<1>2. a.syn = f.syn
  BY Zenon DEF Scheduled, Direction
<1> HIDE DEF a
<1>3. b \in Direction /\ FlowExact(b)
  BY <1>1, WithSynKeeps, Zenon
<1>4. b.syn = IF p.syn THEN p.sequence ELSE a.syn
  BY <1>1, Zenon DEF WithSyn, Direction
<1> HIDE DEF b
<1>5. c \in Direction
  BY <1>3, WithFinKeeps, Zenon
<1>6. c.syn = b.syn
  <2>1. Fail(b, "conflict") \in Direction /\ Fail(b, "conflict").syn = b.syn
    BY <1>3, FailKeeps
  <2>2. \A g \in Direction : \A fin : [g EXCEPT !.fin = fin].syn = g.syn
    BY DEF Direction
  <2>3. QED
    BY <1>3, <2>1, <2>2, Zenon DEF WithFin
<1> HIDE DEF c
<1>7. d.syn = c.syn
  <2>1. Fail(c, "limit").syn = c.syn /\ Fail(c, "conflict").syn = c.syn
    BY <1>5, FailKeeps
  <2>2. \A x, y : [c EXCEPT !.segments = x, !.bytes = y].syn = c.syn
    BY <1>5 DEF Direction
  <2>3. Buffer(c, p).syn = c.syn
    BY <2>1, <2>2, Zenon DEF Buffer
  <2>4. QED
    BY <2>1, <2>3, Zenon DEF WithData
<1>8. Applied(f, p, t) = d
  BY DEF Applied, a, b, c, d
<1>9. QED
  BY <1>2, <1>4, <1>6, <1>7, <1>8, Zenon

\* The direction that a packet is applied to keeps the SYN it was anchored by.
LEMMA ApplySyn ==
    ASSUME Inv, Apply, NEW k \in Keys, Live(k), flows[k].syn # NoSeq
    PROVE  flows'[k].syn = flows[k].syn
<1>1. /\ call.key \in Keys /\ flows' = [flows EXCEPT ![call.key] = After]
      /\ Before \in Direction /\ FlowExact(Before) /\ call.time \in Stamps
  BY ApplyFacts, Zenon DEF Inv
<1>2. flows \in [Keys -> Direction \cup {NoFlow}]
  BY TableParts, Zenon DEF Inv, DirectionsOK
<1>3. CASE k # call.key
  BY <1>1, <1>2, <1>3, Zenon
<1>4. CASE k = call.key
  <2>1. flows'[k] = After /\ Before = flows[k]
    BY <1>1, <1>2, <1>4, Zenon DEF Before
  <2>2. call.packet \in PacketType
    <3>1. call.pc \notin {"idle", "eof"}
      BY Zenon DEF Apply, Deliver, Expired
    <3>2. QED
      BY <3>1, CallTypes, Zenon DEF Inv
  <2>3. After.syn = IF call.packet.syn THEN call.packet.sequence ELSE Before.syn
    BY <1>1, <2>2, AppliedSyn, Zenon DEF After
  <2>4. call.packet.syn => flows[k].syn = call.packet.sequence
    <3>1. CASE call.pc = "deliver"
      BY <1>4, <3>1, Zenon DEF Inv, CallProgress
    <3>2. CASE Expired /\ ~NewSyn
      BY <1>4, <3>2, Zenon DEF NewSyn, HasSyn
    <3>3. QED
      BY <3>1, <3>2, Zenon DEF Apply, Deliver
  <2>5. QED
    BY <2>1, <2>3, <2>4, Zenon
<1>5. QED
  BY <1>3, <1>4, Zenon

\* No direction takes two SYNs: as long as it is tracked it keeps the SYN that anchored it,
\* and a SYN that opens a connection finds the other direction closed too (the "tuple_reuse"
\* removals of Add).  What a direction buffered before its first SYN stays with it.
THEOREM ConnectionsKeptApart == Spec => ConnectionsSeparate
<1> DEFINE Anchored(k) == Live(k) /\ flows[k].syn # NoSeq /\ flows'[k] # NoFlow => flows'[k].syn = flows[k].syn
           Opened == Apply /\ call.packet.syn /\ ~Live(call.key) /\ ~call.packet.ack => ~Live(Reverse[call.key])
<1>1. ASSUME Inv
      PROVE  Opened
  <2>1. CASE call.pc = "deliver"
    BY <1>1, <2>1, Zenon DEF Inv, CallProgress
  <2>2. CASE Expired /\ ~NewSyn
    BY <1>1, <2>2, Zenon DEF NewSyn, HasSyn
  <2>3. QED
    BY <1>1, <2>1, <2>2, Zenon DEF Apply, Deliver
<1>2. ASSUME Inv, [Next]_vars, NEW k \in Keys
      PROVE  Anchored(k)
  <2>1. flows \in [Keys -> Direction \cup {NoFlow}] /\ \A j \in LiveKeys : flows[j] \in Direction
    BY <1>2, TableParts, Zenon DEF Inv, DirectionsOK, DirectionOK
  <2>2. ASSUME flows' = flows
        PROVE  Anchored(k)
    BY <2>2
  <2>3. ASSUME NEW j, NEW reason, Remove(j, reason)
        PROVE  Anchored(k)
    BY <2>1, <2>3, Zenon DEF Remove, tableVars
  <2>4. CASE Apply
    BY <1>2, <2>4, ApplySyn, Zenon
  <2>5. ASSUME NEW e, RequeueStale(e)
        PROVE  Anchored(k)
    <3>1. flows' = [flows EXCEPT ![e[2]].queued = flows[e[2]].deadline]
      BY <2>5, Zenon DEF RequeueStale
    <3>2. e[2] \in LiveKeys
      BY <1>2, <2>5, FrontEntry, Zenon DEF Inv, RequeueStale
    <3>3. QED
      BY <2>1, <3>1, <3>2, Zenon DEF Direction, LiveKeys
  <2>6. CASE Reuse \/ ReuseReverse \/ Reset \/ ResetReverse \/ \E j \in Keys : FinishNext(j)
    BY <2>3, <2>6, Zenon DEF Reuse, ReuseReverse, Reset, ResetReverse, FinishNext
  <2>7. CASE Ignore
    BY <2>2, <2>3, <2>7, Zenon DEF Ignore, tableVars
  <2>8. CASE Exhaust \/ Refuse
    BY <2>2, <2>8, Zenon DEF Exhaust, Refuse, tableVars
  <2>9. ASSUME NEW e, ExpireIdle(e)
        PROVE  Anchored(k)
    BY <2>3, <2>9, Zenon DEF ExpireIdle
  <2>10. CASE \E j \in Keys, p \in Packets, t \in Times \cup {NoTime} : Packet(j, p, t)
    BY <2>2, <2>10, Zenon DEF Packet
  <2>11. CASE UNCHANGED vars
    BY <2>2, <2>11, Zenon DEF vars
  <2>12. QED
    BY <1>2, <2>4, <2>5, <2>6, <2>7, <2>8, <2>9, <2>10, <2>11, Zenon DEF Next, Step, Finished
<1>3. Inv /\ [Next]_vars =>
        [/\ \A k \in Keys : Live(k) /\ flows[k].syn # NoSeq /\ flows'[k] # NoFlow => flows'[k].syn = flows[k].syn
         /\ Apply /\ call.packet.syn /\ ~Live(call.key) /\ ~call.packet.ack => ~Live(Reverse[call.key])]_vars
  BY <1>1, <1>2, Zenon
<1>4. QED
  BY <1>3, Invariant, PTL DEF Spec, ConnectionsSeparate
=============================================================================
