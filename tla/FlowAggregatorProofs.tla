------------------------ MODULE FlowAggregatorProofs ------------------------
(***************************************************************************)
(* What TLAPS proves of the session table of read_flows, for any keys,     *)
(* interfaces, records, timeouts and limits: the queues of deadlines agree *)
(* with the sessions, every record is counted once, and a full table gives *)
(* up the session nearest its deadline.                                    *)
(***************************************************************************)
EXTENDS FlowAggregator, FiniteSums

\* What the provers may take for a step.
USE SMTT(30), ZenonT(60)

(***************************************************************************)
(* The invariant.                                                          *)
(***************************************************************************)

\* A table given by its scopes and its sessions, so that the steps of one call can be
\* followed through the tables it passes through.
Entries(all, i) == IF all[i] = None THEN {} ELSE all[i].expiry
Timed(sts, i) == {k \in FlowKeys : sts[k] # None /\ InterfaceOf[k] = i /\ sts[k].scheduled}
EntriesOf(sts, i) == {<<sts[k].queued, k>> : k \in Timed(sts, i)}

SessionOK(k, st) ==
    /\ st \in Session
    /\ st.scheduled => /\ st.last_timestamp \in Int
                       /\ st.queued <= st.deadline /\ st.deadline = Deadline(k, st)
ScopesOK(all) == all \in [Interfaces -> ScopeType \cup {None}]
SessionsOK(sts) ==
    /\ sts \in [FlowKeys -> Session \cup {None}]
    /\ \A k \in FlowKeys : sts[k] # None => SessionOK(k, sts[k])
QueuesOK(all, sts) == \A i \in Interfaces : Entries(all, i) = EntriesOf(sts, i)

\* No packet is counted twice, and those counted are the set "counted".
Apart(sts, out) ==
    /\ \A k, j \in FlowKeys : sts[k] # None /\ sts[j] # None /\ k # j =>
           Packets(sts[k]) \cap Packets(sts[j]) = {}
    /\ \A k \in FlowKeys : sts[k] # None => sts[k].packets[0] \cap sts[k].packets[1] = {}
    /\ \A k \in FlowKeys, r \in out : sts[k] # None => Packets(sts[k]) \cap Packets(r.session) = {}
    /\ \A q, r \in out : q # r => Packets(q.session) \cap Packets(r.session) = {}
    /\ \A r \in out : r.session.packets[0] \cap r.session.packets[1] = {}
Covers(sts, out, counted) ==
    \A n : n \in counted <=> \/ \E k \in FlowKeys : sts[k] # None /\ n \in Packets(sts[k])
                             \/ \E r \in out : n \in Packets(r.session)

\* Each session is of the present section, and misses no more timestamps than there
\* were records.
Present(sts, s, n) ==
    \A k \in FlowKeys : sts[k] # None => sts[k].section = s /\ sts[k].missing_timestamps <= n

UsedUp == IF pending = None THEN count ELSE count - 1
CountedNow == owed \ (IF pending = None THEN {} ELSE {pending.number})

CallOK ==
    /\ pending # None => /\ pending \in PendingType /\ pending.number = count
                         /\ Key # None <=> count \in owed
    /\ step = "decide" => /\ pending # None /\ ~finishing /\ have_section /\ section = pending.section
                          /\ scopes[pending.input.interface] # None
    /\ finishing => pending = None
    /\ finishing /\ ~more /\ step # "thrown" => Active = {} /\ scopes = NoScopes
    /\ ~have_section => Active = {}
    /\ section \in 0..SectionMax /\ count \in 0..MaxRecords /\ owed \subseteq 1..count
    /\ Cardinality(Active) <= max_flows
    /\ step \in {"ready", "decide", "thrown"}

Inv ==
    /\ ScopesOK(scopes) /\ SessionsOK(states) /\ QueuesOK(scopes, states)
    /\ Apart(states, rows) /\ Covers(states, rows, CountedNow)
    /\ Present(states, section, UsedUp)
    /\ CallOK

-----------------------------------------------------------------------------
(* The order of the queue. *)

LEMMA EntryNumbers ==
    ASSUME NEW e \in Int \X FlowKeys
    PROVE  e[1] \in Int /\ e[2] \in Int /\ e[2] \in FlowKeys /\ e = <<e[1], e[2]>>
<1>1. FlowKeys \subseteq Int
  BY FlowAssumption
<1>2. PICK t \in Int, k \in FlowKeys : e = <<t, k>>
  OBVIOUS
<1>3. e[1] = t /\ e[2] = k
  BY <1>2
<1>4. QED
  BY <1>1, <1>2, <1>3, Zenon

\* Before is a strict total order.
LEMMA BeforeOrder ==
    ASSUME NEW e \in Int \X FlowKeys, NEW f \in Int \X FlowKeys, NEW g \in Int \X FlowKeys
    PROVE  /\ e # f => Before(e, f) \/ Before(f, e)
           /\ ~(Before(e, f) /\ Before(f, e))
           /\ Before(e, f) /\ Before(f, g) => Before(e, g)
<1>1. e[1] \in Int /\ e[2] \in Int /\ e = <<e[1], e[2]>>
  BY EntryNumbers
<1>2. f[1] \in Int /\ f[2] \in Int /\ f = <<f[1], f[2]>>
  BY EntryNumbers
<1>3. g[1] \in Int /\ g[2] \in Int
  BY EntryNumbers
<1>4. e # f => e[1] # f[1] \/ e[2] # f[2]
  BY <1>1, <1>2
<1>5. QED
  BY <1>1, <1>2, <1>3, <1>4 DEF Before

\* A nonempty finite set of entries has exactly one first entry.
LEMMA FirstEntry ==
    ASSUME NEW S, IsFiniteSet(S), S \subseteq Int \X FlowKeys, S # {}
    PROVE  First(S) \in S /\ \A f \in S \ {First(S)} : Before(First(S), f)
<1> DEFINE Least(T, e) == e \in T /\ \A f \in T \ {e} : Before(e, f)
           Bad == {T \in SUBSET S : T # {} /\ ~\E e \in T : Least(T, e)}
<1>1. Bad = {}
  <2>1. SUFFICES ASSUME Bad # {} PROVE FALSE
    OBVIOUS
  <2>2. PICK V \in Bad : \A W \in Bad : W \subseteq V => W = V
    <3>1. Bad \subseteq SUBSET S
      OBVIOUS
    <3> HIDE DEF Bad
    <3>2. QED
      BY <2>1, <3>1, MinimalSubset
  <2>3. PICK x \in V : TRUE
    BY <2>2
  <2>4. V \subseteq S /\ V # {} /\ x \in Int \X FlowKeys
    BY <2>2, <2>3, Zenon
  <2>5. CASE V = {x}
    <3>1. Least(V, x)
      BY <2>5
    <3>2. QED
      BY <3>1, <2>2, <2>3, Zenon
  <2>6. CASE V # {x}
    <3> DEFINE W == V \ {x}
    <3>1. W # {} /\ W \subseteq S /\ W \subseteq V /\ W # V
      BY <2>3, <2>4, <2>6, Zenon
    <3>2. PICK e \in W : Least(W, e)
      BY <2>2, <3>1, Zenon
    <3>3. \A f \in V \ {e, x} : Before(e, f)
      BY <3>2
    <3>4. e \in Int \X FlowKeys /\ e \in V /\ e # x
      BY <2>4, <3>2, Zenon
    <3>5. Before(e, x) \/ Before(x, e)
      BY <2>4, <3>4, BeforeOrder, Zenon
    <3>6. CASE Before(e, x)
      <4>1. Least(V, e)
        BY <3>3, <3>4, <3>6, Zenon
      <4>2. QED
        BY <4>1, <3>4, <2>2, Zenon
    <3>7. CASE Before(x, e)
      <4>1. ASSUME NEW f \in V \ {x, e} PROVE Before(x, f)
        <5>1. Before(e, f) /\ f \in Int \X FlowKeys
          BY <3>3, <2>4, Zenon
        <5>2. QED
          BY <5>1, <3>7, <3>4, <2>4, BeforeOrder, Zenon
      <4>2. Least(V, x)
        BY <4>1, <3>7, <2>3, Zenon
      <4>3. QED
        BY <4>2, <2>2, <2>3, Zenon
    <3>8. QED
      BY <3>5, <3>6, <3>7, Zenon
  <2>7. QED
    BY <2>5, <2>6
<1>2. \E e \in S : \A f \in S \ {e} : Before(e, f)
  BY <1>1
<1>3. QED
  BY <1>2 DEF First

\* An entry that no other one is before is the first.
LEMMA FirstUnique ==
    ASSUME NEW S, IsFiniteSet(S), S \subseteq Int \X FlowKeys, NEW m \in S,
           \A f \in S : f = m \/ Before(m, f)
    PROVE  First(S) = m
<1>1. First(S) \in S /\ \A f \in S \ {First(S)} : Before(First(S), f)
  BY FirstEntry
<1>2. m \in Int \X FlowKeys /\ First(S) \in Int \X FlowKeys
  BY <1>1
<1>3. First(S) # m => Before(m, First(S)) /\ Before(First(S), m)
  BY <1>1
<1>4. QED
  BY <1>2, <1>3, BeforeOrder, Zenon

\* The first of the sessions is one of them.
LEMMA MinKey ==
    ASSUME NEW K, K \subseteq FlowKeys, K # {}
    PROVE  Min(K) \in K
<1>1. K \in SUBSET Nat
  BY FlowAssumption
<1>2. \E n \in K : \A m \in K : n <= m
  BY <1>1, LeastNatural
<1>3. QED
  BY <1>2 DEF Min

-----------------------------------------------------------------------------
(* One session and one record. *)

\* What neither the handshake nor the schedule of a session touches.
SameCounts(st, new) ==
    /\ new.orig_is_low = st.orig_is_low /\ new.section = st.section /\ new.packets = st.packets
    /\ new.last_timestamp = st.last_timestamp /\ new.missing_timestamps = st.missing_timestamps

LEMMA SideType ==
    ASSUME NEW st, NEW in
    PROVE  SideOf(st, in) \in {0, 1} /\ 1 - SideOf(st, in) \in {0, 1}
BY DEF SideOf

\* A record is read in both directions without leaving the types.
LEMMA EvidenceKeeps ==
    ASSUME NEW st \in Session, NEW in \in InputType
    PROVE  /\ Evidence(st, in) \in Session
           /\ SameCounts(st, Evidence(st, in))
           /\ Evidence(st, in).scheduled = st.scheduled
           /\ Evidence(st, in).deadline = st.deadline /\ Evidence(st, in).queued = st.queued
<1> DEFINE side == SideOf(st, in)
           other == 1 - side
           seen == [st EXCEPT !.handshake_closed = @ \/ (~Flag(in, "S") /\ (Flag(in, "A") \/ in.payload)),
                              !.fin_seen = @ \/ Flag(in, "F"), !.reset_seen = @ \/ Flag(in, "R")]
           Same(new) == /\ new \in Session /\ SameCounts(st, new) /\ new.scheduled = st.scheduled
                        /\ new.deadline = st.deadline /\ new.queued = st.queued
<1>1. side \in {0, 1} /\ other \in {0, 1}
  BY SideType
<1>2. in.seq \in 0..SeqSpace - 1 /\ in.payload \in BOOLEAN
  BY DEF InputType
<1>3. Same(seen)
  BY <1>2, ZenonT(60) DEF Session, SameCounts, Flag
<1> HIDE DEF side, other, seen
<1>4. ASSUME NEW b \in BOOLEAN
      PROVE  Same([seen EXCEPT !.simultaneous_open = b, !.syn[side] = TRUE, !.sequence[side] = in.seq])
  BY <1>1, <1>2, <1>3, Zenon DEF Session, SameCounts
<1>5. Same([seen EXCEPT !.syn_ack[side] = TRUE, !.sequence[side] = in.seq])
  BY <1>1, <1>2, <1>3, Zenon DEF Session, SameCounts
<1>6. ASSUME NEW b \in BOOLEAN PROVE Same([seen EXCEPT !.handshake_complete = b])
  BY <1>3, Zenon DEF Session, SameCounts
<1>7. Same(Evidence(st, in))
  <2>1. st.syn[other] \in BOOLEAN /\ seen.simultaneous_open \in BOOLEAN /\ seen.handshake_complete \in BOOLEAN
    BY <1>1, <1>3, Zenon DEF Session
  <2>2. \/ Evidence(st, in) = seen
        \/ \E b \in BOOLEAN : Evidence(st, in)
              = [seen EXCEPT !.simultaneous_open = b, !.syn[side] = TRUE, !.sequence[side] = in.seq]
        \/ Evidence(st, in) = [seen EXCEPT !.syn_ack[side] = TRUE, !.sequence[side] = in.seq]
        \/ \E b \in BOOLEAN : Evidence(st, in) = [seen EXCEPT !.handshake_complete = b]
    <3>1. CASE InitiatingSyn(in)
      <4>1. Evidence(st, in) = [seen EXCEPT !.simultaneous_open = @ \/ st.syn[other],
                                            !.syn[side] = TRUE, !.sequence[side] = in.seq]
        BY <3>1, Zenon DEF Evidence, InitiatingSyn, side, other, seen
      <4>2. (seen.simultaneous_open \/ st.syn[other]) \in BOOLEAN
        OBVIOUS
      <4>3. QED
        BY <4>1, <4>2, Zenon
    <3>2. CASE ~InitiatingSyn(in) /\ Flag(in, "S")
      BY <3>2, ZenonT(60) DEF Evidence, InitiatingSyn, side, other, seen
    <3>3. CASE ~InitiatingSyn(in) /\ ~Flag(in, "S")
      <4>1. PICK c \in BOOLEAN : Evidence(st, in) = [seen EXCEPT !.handshake_complete = @ \/ c]
        BY <3>3, Zenon DEF Evidence, side, other, seen
      <4>2. QED
        BY <4>1, ZenonT(60)
    <3>4. QED
      BY <3>1, <3>2, <3>3, ZenonT(60)
  <2>3. QED
    BY <1>3, <1>4, <1>5, <1>6, <2>2, Zenon
<1>8. QED
  BY <1>7

LEMMA OpenedType ==
    ASSUME NEW in \in InputType, NEW s \in Nat
    PROVE  /\ Opened(in, s) \in Session /\ ~Opened(in, s).scheduled
           /\ Opened(in, s).section = s /\ Opened(in, s).missing_timestamps = 0
           /\ Opened(in, s).packets[0] = {} /\ Opened(in, s).packets[1] = {}
<1>1. in.low \in BOOLEAN /\ 0 \in 0..SeqSpace - 1
  BY SessionAssumption DEF InputType
<1>2. [d \in {0, 1} |-> {}] \in [{0, 1} -> SUBSET Nat]
  OBVIOUS
<1>3. [d \in {0, 1} |-> FALSE] \in [{0, 1} -> BOOLEAN] /\ [d \in {0, 1} |-> 0] \in [{0, 1} -> 0..SeqSpace - 1]
  BY <1>1
<1>4. Opened(in, s).orig_is_low \in BOOLEAN
  BY <1>1, Zenon DEF Opened
<1>5. Opened(in, s) \in Session
  BY <1>1, <1>2, <1>3, <1>4 DEF Opened, Session
<1>6. QED
  BY <1>5, Zenon DEF Opened

\* A record is counted on one side, and the last timestamp only grows.
CountedAs(st, p, new) ==
    /\ new \in Session /\ new.section = st.section
    /\ new.scheduled = st.scheduled /\ new.deadline = st.deadline /\ new.queued = st.queued
    /\ new.missing_timestamps <= st.missing_timestamps + 1
    /\ st.last_timestamp \in Int => new.last_timestamp \in Int /\ new.last_timestamp >= st.last_timestamp
    /\ \E side \in {0, 1} : new.packets = [st.packets EXCEPT ![side] = @ \cup {p.number}]

LEMMA CountedKeeps ==
    ASSUME NEW st \in Session, NEW p \in PendingType
    PROVE  CountedAs(st, p, Counted(st, p))
<1> DEFINE side == SideOf(st, p.input)
           held == [st.packets EXCEPT ![side] = @ \cup {p.number}]
           last == IF st.last_timestamp = NoTime THEN p.time ELSE Max({st.last_timestamp, p.time})
           c == [st EXCEPT !.packets[side] = @ \cup {p.number}]
<1>1. side \in {0, 1}
  BY SideType
<1>2. p.number \in Nat /\ p.time \in Int \cup {NoTime} /\ FlowTimes \subseteq Int
  BY FlowAssumption, Zenon DEF PendingType
<1>3. held \in [{0, 1} -> SUBSET Nat]
  BY <1>1, <1>2, Zenon DEF Session
<1>4. p.time # NoTime => last \in Int /\ (st.last_timestamp \in Int => last >= st.last_timestamp)
  <2>1. CASE st.last_timestamp = NoTime
    BY <2>1, <1>2, SessionAssumption, Zenon
  <2>2. CASE st.last_timestamp # NoTime
    BY <2>2, <1>2, MaxPair, Zenon DEF Session
  <2>3. QED
    BY <2>1, <2>2, Zenon
<1>5. st.missing_timestamps \in Nat /\ st.late_packets \in Nat
  BY DEF Session
<1>6. c \in Session /\ c.packets = held
  <2>1. c = [st EXCEPT !.packets = held]
    BY DEF Session
  <2>2. QED
    BY <2>1, <1>3, Zenon DEF Session
<1>7. /\ c.section = st.section /\ c.scheduled = st.scheduled /\ c.deadline = st.deadline
      /\ c.queued = st.queued /\ c.missing_timestamps = st.missing_timestamps
      /\ c.last_timestamp = st.last_timestamp /\ c.late_packets = st.late_packets
  BY DEF Session
<1>8. /\ p.time = NoTime => Counted(st, p) = [c EXCEPT !.missing_timestamps = @ + 1]
      /\ p.time # NoTime => Counted(st, p)
            = [c EXCEPT !.last_timestamp = IF @ = NoTime THEN p.time ELSE Max({@, p.time}),
                        !.late_packets = IF late THEN @ + 1 ELSE @]
  BY DEF Counted
<1>9. \E d \in {0, 1} : held = [st.packets EXCEPT ![d] = @ \cup {p.number}]
  BY <1>1, Zenon
<1> HIDE DEF c, last, held, side
<1>10. CASE p.time = NoTime
  <2>1. Counted(st, p) = [c EXCEPT !.missing_timestamps = st.missing_timestamps + 1]
    BY <1>7, <1>8, <1>10, Zenon
  <2> DEFINE new == [c EXCEPT !.missing_timestamps = st.missing_timestamps + 1]
  <2>2. new \in Session
    <3>1. ASSUME NEW n \in Nat PROVE [c EXCEPT !.missing_timestamps = n] \in Session
      BY <1>6, Zenon DEF Session
    <3>2. QED
      BY <3>1, <1>5
  <2>3. /\ new.section = c.section /\ new.scheduled = c.scheduled /\ new.deadline = c.deadline
        /\ new.queued = c.queued /\ new.missing_timestamps = st.missing_timestamps + 1
        /\ new.last_timestamp = c.last_timestamp /\ new.packets = c.packets
    BY <1>6 DEF Session
  <2> HIDE DEF new
  <2>4. new.missing_timestamps <= st.missing_timestamps + 1
    BY <2>3, <1>5
  <2>5. \E d \in {0, 1} : new.packets = [st.packets EXCEPT ![d] = @ \cup {p.number}]
    BY <2>3, <1>6, <1>9, Zenon
  <2>6. st.last_timestamp \in Int => new.last_timestamp \in Int /\ new.last_timestamp >= st.last_timestamp
    BY <2>3, <1>7
  <2>7. CountedAs(st, p, new)
    BY <2>2, <2>3, <2>4, <2>5, <2>6, <1>7, Zenon DEF CountedAs
  <2>8. QED
    BY <2>1, <2>7, Zenon DEF new
<1>11. CASE p.time # NoTime
  <2> DEFINE n == IF late THEN st.late_packets + 1 ELSE st.late_packets
  <2>1. n \in Nat
    BY <1>5
  <2>2. Counted(st, p) = [c EXCEPT !.last_timestamp = last, !.late_packets = n]
    BY <1>7, <1>8, <1>11, Zenon DEF last
  <2> HIDE DEF n
  <2> DEFINE new == [c EXCEPT !.last_timestamp = last, !.late_packets = n]
  <2>3. new \in Session
    BY <2>1, <1>4, <1>6, <1>11, Zenon DEF Session
  <2>4. /\ new.section = c.section /\ new.scheduled = c.scheduled /\ new.deadline = c.deadline
        /\ new.queued = c.queued /\ new.missing_timestamps = c.missing_timestamps
        /\ new.last_timestamp = last /\ new.packets = c.packets
    BY <1>6 DEF Session
  <2> HIDE DEF new
  <2>5. new.missing_timestamps <= st.missing_timestamps + 1
    BY <2>4, <1>5, <1>7
  <2>6. \E d \in {0, 1} : new.packets = [st.packets EXCEPT ![d] = @ \cup {p.number}]
    BY <2>4, <1>6, <1>9, Zenon
  <2>7. st.last_timestamp \in Int => new.last_timestamp \in Int /\ new.last_timestamp >= st.last_timestamp
    BY <2>4, <1>4, <1>11, Zenon
  <2>8. CountedAs(st, p, new)
    BY <2>3, <2>4, <2>5, <2>6, <2>7, <1>7, Zenon DEF CountedAs
  <2>9. QED
    BY <2>2, <2>8 DEF new
<1>12. QED
  BY <1>10, <1>11, Zenon

\* Schedule leaves the counts alone; a queued session keeps its entry.
LEMMA ScheduledKeeps ==
    ASSUME NEW k \in FlowKeys, NEW st \in Session,
           st.scheduled => st.last_timestamp \in Int /\ st.queued <= Deadline(k, st)
    PROVE  /\ SessionOK(k, Scheduled(k, st)) /\ SameCounts(st, Scheduled(k, st))
           /\ Scheduled(k, st).scheduled = Expires(k, st)
           /\ Scheduled(k, st).queued = IF Expires(k, st) /\ ~st.scheduled THEN Deadline(k, st) ELSE st.queued
<1>1. CASE ~Expires(k, st)
  <2>1. Scheduled(k, st) = [st EXCEPT !.scheduled = FALSE]
    BY <1>1 DEF Scheduled
  <2>2. [st EXCEPT !.scheduled = FALSE] \in Session
    BY Zenon DEF Session
  <2>3. Expires(k, st) = FALSE
    BY <1>1 DEF Expires
  <2>4. QED
    BY <2>1, <2>2, <2>3, Zenon DEF SessionOK, SameCounts, Session
<1>2. CASE Expires(k, st)
  <2> DEFINE d == Deadline(k, st)
             q == IF st.scheduled THEN st.queued ELSE d
  <2>1. Scheduled(k, st) = [st EXCEPT !.scheduled = TRUE, !.deadline = d, !.queued = q]
    BY <1>2 DEF Scheduled
  <2>2. st.last_timestamp \in Int /\ d \in Int /\ Timeout(k) \in Int
    BY <1>2, FlowAssumption DEF Expires, Deadline, Timeout, Session
  <2>3. q \in Int /\ q <= d
    BY <2>2 DEF Session
  <2>4. Expires(k, st) = TRUE
    BY <1>2 DEF Expires
  <2> DEFINE new == [st EXCEPT !.scheduled = TRUE, !.deadline = d, !.queued = q]
  <2> HIDE DEF d, q
  <2>5. new \in Session
    BY <2>2, <2>3, Zenon DEF Session
  <2>6. /\ SameCounts(st, new) /\ new.scheduled = TRUE /\ new.deadline = d /\ new.queued = q
        /\ new.last_timestamp = st.last_timestamp
    BY DEF SameCounts, Session
  <2> HIDE DEF new
  <2>7. Deadline(k, new) = d
    BY <2>6 DEF Deadline, d
  <2>8. SessionOK(k, new)
    BY <2>2, <2>3, <2>5, <2>6, <2>7, Zenon DEF SessionOK
  <2>9. q = IF Expires(k, st) /\ ~st.scheduled THEN d ELSE st.queued
    BY <1>2 DEF q
  <2>10. QED
    BY <2>1, <2>4, <2>6, <2>8, <2>9, Zenon DEF new, d
<1>3. QED
  BY <1>1, <1>2, Zenon

-----------------------------------------------------------------------------
(* The queues when one session changes. *)

Entry(sts, k) == IF sts[k] # None /\ sts[k].scheduled THEN {<<sts[k].queued, k>>} ELSE {}

LEMMA EntriesByKey ==
    ASSUME NEW sts, NEW i
    PROVE  \A e : e \in EntriesOf(sts, i) <=> \E k \in FlowKeys : InterfaceOf[k] = i /\ e \in Entry(sts, k)
BY DEF EntriesOf, Timed, Entry

\* The queues agree again when the entry of the one session that changed is replaced.
Replaces(all, sts, new, sts2, k) ==
    /\ \A j \in FlowKeys \ {k} : sts2[j] = sts[j]
    /\ \A i \in Interfaces \ {InterfaceOf[k]} : Entries(new, i) = Entries(all, i)
    /\ Entries(new, InterfaceOf[k]) = (Entries(all, InterfaceOf[k]) \ Entry(sts, k)) \cup Entry(sts2, k)

LEMMA ReplacesKeeps ==
    ASSUME NEW all, NEW sts, NEW new, NEW sts2, NEW k \in FlowKeys,
           QueuesOK(all, sts), Replaces(all, sts, new, sts2, k)
    PROVE  QueuesOK(new, sts2)
<1>1. \A j \in FlowKeys \ {k} : Entry(sts2, j) = Entry(sts, j)
  BY Zenon DEF Replaces, Entry
<1>2. \A j \in FlowKeys \ {k} : Entry(sts, j) \cap Entry(sts, k) = {}
  BY DEF Entry
<1>3. SUFFICES ASSUME NEW i \in Interfaces PROVE Entries(new, i) = EntriesOf(sts2, i)
  BY DEF QueuesOK
<1>4. \A e : e \in Entries(all, i) <=> \E j \in FlowKeys : InterfaceOf[j] = i /\ e \in Entry(sts, j)
  BY EntriesByKey DEF QueuesOK
<1>5. CASE i # InterfaceOf[k]
  <2>1. Entries(new, i) = Entries(all, i)
    BY <1>5, Zenon DEF Replaces
  <2>2. \A e : e \in Entries(new, i) <=> \E j \in FlowKeys : InterfaceOf[j] = i /\ e \in Entry(sts2, j)
    BY <2>1, <1>1, <1>4, <1>5, Zenon
  <2>3. QED
    BY <2>2, EntriesByKey, Zenon
<1>6. CASE i = InterfaceOf[k]
  <2>1. \A e : e \in Entries(new, i) <=> (e \in Entries(all, i) /\ e \notin Entry(sts, k)) \/ e \in Entry(sts2, k)
    BY <1>6, Zenon DEF Replaces
  <2>2. \A e : e \in Entries(new, i) <=> \E j \in FlowKeys : InterfaceOf[j] = i /\ e \in Entry(sts2, j)
    BY <2>1, <1>1, <1>2, <1>4, <1>6, Zenon
  <2>3. QED
    BY <2>2, EntriesByKey, ZenonT(60)
<1>7. QED
  BY <1>5, <1>6, Zenon

LEMMA InterfaceType == \A k \in FlowKeys : InterfaceOf[k] \in Interfaces
BY FlowAssumption

\* Changing the queue of one scope.
Requeued(all, i, q) == [all EXCEPT ![i].expiry = q]

LEMMA QueueChange ==
    ASSUME NEW all, NEW i \in Interfaces, NEW q, NEW new,
           ScopesOK(all), all[i] # None, q \subseteq Int \X FlowKeys, new = Requeued(all, i, q)
    PROVE  /\ ScopesOK(new) /\ Entries(new, i) = q
           /\ \A j \in Interfaces : new[j] = None <=> all[j] = None
           /\ \A j \in Interfaces \ {i} : Entries(new, j) = Entries(all, j)
<1>1. all[i] \in ScopeType
  BY DEF ScopesOK
<1>2. [all[i] EXCEPT !.expiry = q] \in ScopeType
  BY <1>1 DEF ScopeType
<1>3. [all[i] EXCEPT !.expiry = q] # None
  BY <1>2, FlowAssumption, Zenon
<1>4. new = [all EXCEPT ![i] = [all[i] EXCEPT !.expiry = q]]
  BY DEF ScopesOK, Requeued
<1>5. [all[i] EXCEPT !.expiry = q].expiry = q
  BY <1>1 DEF ScopeType
<1>6. QED
  BY <1>2, <1>3, <1>4, <1>5, Zenon DEF ScopesOK, Entries

LEMMA EntriesType ==
    ASSUME NEW all, ScopesOK(all), NEW i \in Interfaces
    PROVE  Entries(all, i) \subseteq Int \X FlowKeys
BY DEF ScopesOK, ScopeType, Entries

\* Unschedule takes the entry of the session, whose scope is there.
LEMMA UnscheduledKeeps ==
    ASSUME NEW all, ScopesOK(all), NEW k \in FlowKeys, NEW st, st.scheduled => all[InterfaceOf[k]] # None
    PROVE  LET new == Unscheduled(all, k, st) IN
           /\ ScopesOK(new) /\ \A j \in Interfaces : new[j] = None <=> all[j] = None
           /\ \A j \in Interfaces \ {InterfaceOf[k]} : Entries(new, j) = Entries(all, j)
           /\ Entries(new, InterfaceOf[k])
                = Entries(all, InterfaceOf[k]) \ (IF st.scheduled THEN {<<st.queued, k>>} ELSE {})
<1> DEFINE i == InterfaceOf[k]
           q == Entries(all, i) \ {<<st.queued, k>>}
<1>1. i \in Interfaces
  BY InterfaceType
<1>2. CASE ~st.scheduled
  BY <1>2 DEF Unscheduled
<1>3. CASE st.scheduled
  <2>1. all[i] # None /\ q \subseteq Int \X FlowKeys /\ all[i].expiry = Entries(all, i)
    BY <1>1, <1>3, EntriesType, Zenon DEF Entries
  <2> DEFINE new == Unscheduled(all, k, st)
  <2>2. new = Requeued(all, i, q)
    BY <1>3, <2>1, Zenon DEF Unscheduled, Requeued
  <2> HIDE DEF q, i, new
  <2>3. /\ ScopesOK(new) /\ Entries(new, i) = q
        /\ \A j \in Interfaces : new[j] = None <=> all[j] = None
        /\ \A j \in Interfaces \ {i} : Entries(new, j) = Entries(all, j)
    BY <1>1, <2>1, <2>2, QueueChange
  <2>4. QED
    BY <1>3, <2>3, Zenon DEF q, i, new
<1>4. QED
  BY <1>2, <1>3, Zenon

\* A session that is scheduled has its entry in its scope, which is therefore there.
LEMMA ScheduledScope ==
    ASSUME NEW all, NEW sts, QueuesOK(all, sts), NEW k \in FlowKeys, sts[k] # None, sts[k].scheduled
    PROVE  all[InterfaceOf[k]] # None /\ <<sts[k].queued, k>> \in all[InterfaceOf[k]].expiry
<1>1. <<sts[k].queued, k>> \in EntriesOf(sts, InterfaceOf[k])
  BY DEF EntriesOf, Timed
<1>2. QED
  BY <1>1, InterfaceType, Zenon DEF QueuesOK, Entries

\* Emit: the table without the session.
Left(sts, k) == [sts EXCEPT ![k] = None]

LEMMA LeftSessions ==
    ASSUME NEW sts, SessionsOK(sts), NEW k \in FlowKeys
    PROVE  SessionsOK(Left(sts, k)) /\ Left(sts, k)[k] = None /\ \A j \in FlowKeys \ {k} : Left(sts, k)[j] = sts[j]
BY DEF SessionsOK, Left

LEMMA EmitTable ==
    ASSUME NEW all, NEW sts, ScopesOK(all), SessionsOK(sts), QueuesOK(all, sts),
           NEW k \in FlowKeys, sts[k] # None
    PROVE  /\ ScopesOK(Unscheduled(all, k, sts[k])) /\ SessionsOK(Left(sts, k))
           /\ QueuesOK(Unscheduled(all, k, sts[k]), Left(sts, k))
<1> DEFINE new == Unscheduled(all, k, sts[k])
<1>1. sts[k].scheduled => all[InterfaceOf[k]] # None
  BY ScheduledScope, Zenon
<1>2. /\ ScopesOK(new)
      /\ \A j \in Interfaces \ {InterfaceOf[k]} : Entries(new, j) = Entries(all, j)
      /\ Entries(new, InterfaceOf[k])
           = Entries(all, InterfaceOf[k]) \ (IF sts[k].scheduled THEN {<<sts[k].queued, k>>} ELSE {})
  BY <1>1, UnscheduledKeeps
<1>3. SessionsOK(Left(sts, k)) /\ Left(sts, k)[k] = None /\ \A j \in FlowKeys \ {k} : Left(sts, k)[j] = sts[j]
  BY LeftSessions, Zenon
<1> HIDE DEF new
<1>4. Replaces(all, sts, new, Left(sts, k), k)
  BY <1>2, <1>3, Zenon DEF Replaces, Entry
<1>5. QED
  BY <1>2, <1>3, <1>4, ReplacesKeeps, Zenon DEF new

\* ... and its packets in the rows.
LEMMA EmitCounts ==
    ASSUME NEW sts, NEW out, NEW k \in FlowKeys, NEW row,
           SessionsOK(sts), sts[k] # None, row.session = sts[k], Apart(sts, out)
    PROVE  /\ Apart(Left(sts, k), out \cup {row})
           /\ \A counted : Covers(sts, out, counted) => Covers(Left(sts, k), out \cup {row}, counted)
<1> DEFINE left == Left(sts, k)
           more2 == out \cup {row}
<1>1. left[k] = None /\ \A j \in FlowKeys \ {k} : left[j] = sts[j]
  BY LeftSessions, Zenon
<1> HIDE DEF left
<1>2. \A j \in FlowKeys : left[j] # None => j # k /\ left[j] = sts[j]
  BY <1>1
<1>3. Apart(left, more2)
  <2>1. \A i, j \in FlowKeys : left[i] # None /\ left[j] # None /\ i # j =>
            Packets(left[i]) \cap Packets(left[j]) = {}
    BY <1>2, Zenon DEF Apart
  <2>2. \A j \in FlowKeys : left[j] # None => left[j].packets[0] \cap left[j].packets[1] = {}
    BY <1>2, Zenon DEF Apart
  <2>3. ASSUME NEW j \in FlowKeys, NEW r \in more2, left[j] # None
        PROVE  Packets(left[j]) \cap Packets(r.session) = {}
    <3>1. left[j] = sts[j] /\ j # k /\ sts[j] # None
      BY <1>2, <2>3, Zenon
    <3>2. CASE r \in out
      BY <3>1, <3>2, Zenon DEF Apart
    <3>3. CASE r = row
      BY <3>1, <3>3, Zenon DEF Apart
    <3>4. QED
      BY <3>2, <3>3, Zenon
  <2>4. ASSUME NEW q \in more2, NEW r \in more2, q # r
        PROVE  Packets(q.session) \cap Packets(r.session) = {}
    <3>1. CASE q \in out /\ r \in out
      BY <2>4, <3>1, Zenon DEF Apart
    <3>2. CASE q = row /\ r \in out
      BY <3>2, Zenon DEF Apart
    <3>3. CASE q \in out /\ r = row
      BY <3>3, Zenon DEF Apart
    <3>4. QED
      BY <2>4, <3>1, <3>2, <3>3, Zenon
  <2>5. \A r \in more2 : r.session.packets[0] \cap r.session.packets[1] = {}
    BY Zenon DEF Apart
  <2> HIDE DEF more2
  <2>6. QED
    BY <2>1, <2>2, <2>3, <2>4, <2>5, Zenon DEF Apart
<1>4. ASSUME NEW counted, Covers(sts, out, counted) PROVE Covers(left, more2, counted)
  <2>1. \A n : (\E j \in FlowKeys : sts[j] # None /\ n \in Packets(sts[j]))
             <=> n \in Packets(row.session) \/ \E j \in FlowKeys : left[j] # None /\ n \in Packets(left[j])
    BY <1>1, Zenon
  <2>2. \A n : (\E r \in more2 : n \in Packets(r.session))
             <=> n \in Packets(row.session) \/ \E r \in out : n \in Packets(r.session)
    OBVIOUS
  <2>3. QED
    BY <1>4, <2>1, <2>2, Zenon DEF Covers
<1>5. QED
  BY <1>3, <1>4, Zenon DEF left

\* Sessions that count the same packets can stand for one another.
SamePackets(sts, new) ==
    \A k \in FlowKeys : /\ new[k] = None <=> sts[k] = None
                        /\ sts[k] # None => /\ new[k].packets = sts[k].packets /\ new[k].section = sts[k].section
                                            /\ new[k].missing_timestamps = sts[k].missing_timestamps

LEMMA SamePacketsKeep ==
    ASSUME NEW sts, NEW new, NEW out, SamePackets(sts, new)
    PROVE  /\ Apart(sts, out) => Apart(new, out)
           /\ \A counted : Covers(sts, out, counted) => Covers(new, out, counted)
           /\ \A s, n : Present(sts, s, n) => Present(new, s, n)
<1>1. \A k \in FlowKeys : new[k] # None =>
          sts[k] # None /\ Packets(new[k]) = Packets(sts[k]) /\ new[k].packets = sts[k].packets
  BY Zenon DEF SamePackets, Packets
<1>2. \A k \in FlowKeys : sts[k] # None => new[k] # None
  BY DEF SamePackets
<1>3. Apart(sts, out) => Apart(new, out)
  BY <1>1, Zenon DEF Apart
<1>4. \A counted : Covers(sts, out, counted) => Covers(new, out, counted)
  BY <1>1, <1>2, Zenon DEF Covers
<1>5. \A s, n : Present(sts, s, n) => Present(new, s, n)
  BY Zenon DEF SamePackets, Present
<1>6. QED
  BY <1>3, <1>4, <1>5, Zenon

-----------------------------------------------------------------------------
(* Refresh. *)

Table == ScopesOK(scopes) /\ SessionsOK(states) /\ QueuesOK(scopes, states)

RefreshedScopes(looked) == [i \in Interfaces |-> IF i \in looked THEN RefreshedScope(i) ELSE scopes[i]]
RefreshedStates(looked) == [k \in FlowKeys |-> IF k \in Active THEN RefreshedState(k, looked) ELSE None]

LEMMA QueuedKeys ==
    ASSUME Table, NEW i \in Interfaces
    PROVE  Queued(i) = Timed(states, i) /\ Stale(i) \subseteq Timed(states, i)
<1>1. Entries(scopes, i) = EntriesOf(states, i)
  BY DEF Table, QueuesOK
<1>2. Queued(i) = {e[2] : e \in Entries(scopes, i)}
  BY DEF Queued, Entries
<1>3. {e[2] : e \in EntriesOf(states, i)} = Timed(states, i)
  <2>1. \A k \in Timed(states, i) : <<states[k].queued, k>> \in EntriesOf(states, i)
    BY DEF EntriesOf
  <2>2. \A e \in EntriesOf(states, i) : e[2] \in Timed(states, i)
    BY DEF EntriesOf
  <2>3. \A k \in Timed(states, i) : \E e \in EntriesOf(states, i) : e[2] = k
    BY <2>1, Zenon
  <2>4. QED
    BY <2>2, <2>3, Zenon
<1>4. QED
  BY <1>1, <1>2, <1>3, Zenon DEF Stale

\* The entries that Refresh looks for, at the real deadlines.
Real(i) == {<<states[k].deadline, k>> : k \in Timed(states, i)}

\* Entries with one number for each key.
LEMMA EntrySet ==
    ASSUME NEW K, K \subseteq FlowKeys, NEW g \in [K -> Int], NEW S, S = {<<g[k], k>> : k \in K}
    PROVE  S \subseteq Int \X FlowKeys /\ IsFiniteSet(S) /\ (S = {} <=> K = {})
<1>1. IsFiniteSet(K)
  BY FlowAssumption, FS_Subset, Zenon
<1>2. IsFiniteSet(S)
  <2> DEFINE f == [k \in K |-> <<g[k], k>>]
  <2>1. f \in Surjection(K, S)
    BY DEF Surjection
  <2> HIDE DEF f
  <2>2. QED
    BY <1>1, <2>1, FS_Surjection, Zenon
<1>3. \A k \in K : <<g[k], k>> \in Int \X FlowKeys /\ <<g[k], k>> \in S
  OBVIOUS
<1>4. S \subseteq Int \X FlowKeys
  BY <1>3
<1>5. S = {} <=> K = {}
  BY <1>3, Zenon
<1>6. QED
  BY <1>2, <1>4, <1>5, Zenon

LEMMA RealEntries ==
    ASSUME Table, NEW i \in Interfaces
    PROVE  Real(i) \subseteq Int \X FlowKeys /\ IsFiniteSet(Real(i)) /\ (Real(i) = {} <=> Timed(states, i) = {})
<1> DEFINE K == Timed(states, i)
           g == [k \in K |-> states[k].deadline]
<1>1. K \subseteq FlowKeys
  BY DEF Timed
<1>2. g \in [K -> Int]
  BY Zenon DEF Table, SessionsOK, SessionOK, Timed, Session
<1>3. Real(i) = {<<g[k], k>> : k \in K}
  BY DEF Real
<1> HIDE DEF K, g
<1>4. Real(i) \subseteq Int \X FlowKeys /\ IsFiniteSet(Real(i)) /\ (Real(i) = {} <=> K = {})
  BY <1>1, <1>2, <1>3, EntrySet, Zenon
<1>5. QED
  BY <1>4 DEF K

LEMMA QueueEntries ==
    ASSUME NEW all, NEW sts, NEW i \in Interfaces, SessionsOK(sts), QueuesOK(all, sts)
    PROVE  /\ Entries(all, i) \subseteq Int \X FlowKeys /\ IsFiniteSet(Entries(all, i))
           /\ Entries(all, i) = {} <=> Timed(sts, i) = {}
<1> DEFINE K == Timed(sts, i)
           g == [k \in K |-> sts[k].queued]
<1>1. K \subseteq FlowKeys
  BY DEF Timed
<1>2. g \in [K -> Int]
  BY Zenon DEF SessionsOK, SessionOK, Timed, Session
<1>3. Entries(all, i) = {<<g[k], k>> : k \in K}
  BY DEF EntriesOf, QueuesOK
<1> HIDE DEF K, g
<1>4. Entries(all, i) \subseteq Int \X FlowKeys /\ IsFiniteSet(Entries(all, i)) /\ (Entries(all, i) = {} <=> K = {})
  BY <1>1, <1>2, <1>3, EntrySet, ZenonT(60)
<1>5. QED
  BY <1>4, Zenon DEF K

\* Whether Refresh moves the entry of a session.
Moved(k, looked) == InterfaceOf[k] \in looked /\ k \in Stale(InterfaceOf[k])

\* A refreshed session only has another place in the queue: its real deadline.
LEMMA RefreshedSession ==
    ASSUME Table, NEW looked, looked \subseteq Interfaces, NEW k \in FlowKeys, states[k] # None
    PROVE  LET new == RefreshedStates(looked)[k] IN
           /\ SessionOK(k, new) /\ new # None
           /\ new.packets = states[k].packets /\ new.section = states[k].section
           /\ new.missing_timestamps = states[k].missing_timestamps
           /\ new.scheduled = states[k].scheduled /\ new.deadline = states[k].deadline
           /\ new.queued = IF Moved(k, looked) THEN states[k].deadline ELSE states[k].queued
<1> DEFINE new == RefreshedStates(looked)[k]
           st == states[k]
<1>1. new = RefreshedState(k, looked)
  BY DEF RefreshedStates, Active
<1>2. (\E i \in looked : k \in Stale(i)) <=> Moved(k, looked)
  <2>1. \A i \in looked : k \in Stale(i) => InterfaceOf[k] = i
    BY QueuedKeys, Zenon DEF Timed
  <2>2. QED
    BY <2>1 DEF Moved
<1>3. st \in Session /\ SessionOK(k, st)
  BY DEF Table, SessionsOK
<1>4. CASE ~Moved(k, looked)
  <2>1. new = st
    BY <1>1, <1>2, <1>4, Zenon DEF RefreshedState
  <2>2. QED
    BY <1>3, <1>4, <2>1, Zenon
<1>5. CASE Moved(k, looked)
  <2>1. new = [st EXCEPT !.queued = st.deadline]
    BY <1>1, <1>2, <1>5, Zenon DEF RefreshedState
  <2>2. st.deadline \in Int
    BY <1>3, Zenon DEF Session
  <2> HIDE DEF new, st
  <2>3. new \in Session
    BY <1>3, <2>1, <2>2, Zenon DEF Session
  <2>4. /\ new.packets = st.packets /\ new.section = st.section /\ new.missing_timestamps = st.missing_timestamps
        /\ new.scheduled = st.scheduled /\ new.deadline = st.deadline /\ new.queued = st.deadline
        /\ new.last_timestamp = st.last_timestamp
    BY <1>3, <2>1, Zenon DEF Session
  <2>5. SessionOK(k, new)
    BY <1>3, <2>2, <2>3, <2>4 DEF SessionOK, Deadline
  <2>6. new # None
    BY <2>3, FlowAssumption, Zenon
  <2>7. QED
    BY <1>5, <2>4, <2>5, <2>6, Zenon DEF new, st
<1>6. QED
  BY <1>4, <1>5, Zenon

LEMMA RefreshedSessions ==
    ASSUME Table, NEW looked, looked \subseteq Interfaces
    PROVE  /\ SessionsOK(RefreshedStates(looked)) /\ SamePackets(states, RefreshedStates(looked))
           /\ \A i : Timed(RefreshedStates(looked), i) = Timed(states, i)
<1> DEFINE new == RefreshedStates(looked)
<1>1. ASSUME NEW k \in FlowKeys, states[k] = None PROVE new[k] = None
  BY <1>1 DEF RefreshedStates, Active
<1>2. ASSUME NEW k \in FlowKeys, states[k] # None
      PROVE  /\ SessionOK(k, new[k]) /\ new[k] # None
             /\ new[k].packets = states[k].packets /\ new[k].section = states[k].section
             /\ new[k].missing_timestamps = states[k].missing_timestamps
             /\ new[k].scheduled = states[k].scheduled
  BY <1>2, RefreshedSession, Zenon
<1>3. DOMAIN new = FlowKeys /\ new = [k \in FlowKeys |-> new[k]]
  BY DEF RefreshedStates
<1> HIDE DEF new
<1>4. \A k \in FlowKeys : new[k] \in Session \cup {None}
  BY <1>1, <1>2, Zenon DEF SessionOK
<1>5. SessionsOK(new)
  BY <1>1, <1>2, <1>3, <1>4, Zenon DEF SessionsOK
<1>6. SamePackets(states, new)
  BY <1>1, <1>2, Zenon DEF SamePackets
<1>7. \A i : Timed(new, i) = Timed(states, i)
  BY <1>1, <1>2, Zenon DEF Timed
<1>8. QED
  BY <1>5, <1>6, <1>7, Zenon DEF new

\* One refreshed scope: its entries are those of the refreshed sessions.
LEMMA RefreshedQueue ==
    ASSUME Table, NEW i \in Interfaces, scopes[i] # None
    PROVE  /\ RefreshedScope(i) \in ScopeType /\ RefreshedScope(i) # None
           /\ RefreshedScope(i).watermark = scopes[i].watermark
           /\ RefreshedScope(i).expiry
                = {<<IF k \in Stale(i) THEN states[k].deadline ELSE states[k].queued, k>> : k \in Timed(states, i)}
<1> DEFINE moved == {IF e[2] \in Stale(i) THEN <<states[e[2]].deadline, e[2]>> ELSE e : e \in scopes[i].expiry}
           places == {<<IF k \in Stale(i) THEN states[k].deadline ELSE states[k].queued, k>> : k \in Timed(states, i)}
<1>1. scopes[i].expiry = EntriesOf(states, i) /\ scopes[i] \in ScopeType
  BY DEF Table, QueuesOK, ScopesOK, Entries
<1>2. moved = places
  <2>1. ASSUME NEW e \in moved PROVE e \in places
    <3>1. PICK f \in EntriesOf(states, i) : e = IF f[2] \in Stale(i) THEN <<states[f[2]].deadline, f[2]>> ELSE f
      BY <1>1, Zenon
    <3>2. PICK k \in Timed(states, i) : f = <<states[k].queued, k>>
      BY DEF EntriesOf
    <3>3. e = <<IF k \in Stale(i) THEN states[k].deadline ELSE states[k].queued, k>>
      BY <3>1, <3>2, Zenon
    <3>4. QED
      BY <3>3, Zenon
  <2>2. ASSUME NEW e \in places PROVE e \in moved
    <3>1. PICK k \in Timed(states, i) : e = <<IF k \in Stale(i) THEN states[k].deadline ELSE states[k].queued, k>>
      OBVIOUS
    <3>2. <<states[k].queued, k>> \in scopes[i].expiry
      BY <1>1, Zenon DEF EntriesOf
    <3>3. e = IF <<states[k].queued, k>>[2] \in Stale(i)
              THEN <<states[<<states[k].queued, k>>[2]].deadline, <<states[k].queued, k>>[2]>>
              ELSE <<states[k].queued, k>>
      BY <3>1, Zenon
    <3>4. QED
      BY <3>2, <3>3, Zenon
  <2>3. QED
    BY <2>1, <2>2, Zenon
<1>3. RefreshedScope(i) = [scopes[i] EXCEPT !.expiry = moved]
  BY DEF RefreshedScope
<1>4. places \subseteq Int \X FlowKeys
  <2>1. \A k \in Timed(states, i) : k \in FlowKeys /\ states[k].deadline \in Int /\ states[k].queued \in Int
    BY Zenon DEF Table, SessionsOK, SessionOK, Timed, Session
  <2>2. QED
    BY <2>1
<1> HIDE DEF moved, places
<1>5. RefreshedScope(i) \in ScopeType
  BY <1>1, <1>2, <1>3, <1>4, Zenon DEF ScopeType
<1>6. RefreshedScope(i).watermark = scopes[i].watermark /\ RefreshedScope(i).expiry = places
  BY <1>1, <1>2, <1>3, Zenon DEF ScopeType
<1>7. RefreshedScope(i) # None
  BY <1>5, FlowAssumption, Zenon
<1>8. QED
  BY <1>5, <1>6, <1>7, Zenon DEF places

LEMMA RefreshedTable ==
    ASSUME Table, NEW looked, looked \subseteq Interfaces
    PROVE  /\ ScopesOK(RefreshedScopes(looked))
           /\ QueuesOK(RefreshedScopes(looked), RefreshedStates(looked))
           /\ \A i \in Interfaces : RefreshedScopes(looked)[i] = None <=> scopes[i] = None
<1> DEFINE all == RefreshedScopes(looked)
           sts == RefreshedStates(looked)
<1>1. \A i \in Interfaces : all[i] = IF i \in looked THEN RefreshedScope(i) ELSE scopes[i]
  BY DEF RefreshedScopes
<1>2. \A i \in Interfaces : scopes[i] = None => RefreshedScope(i) = None
  BY DEF RefreshedScope
<1>3. \A i \in Interfaces : all[i] \in ScopeType \cup {None} /\ (all[i] = None <=> scopes[i] = None)
  BY <1>1, <1>2, RefreshedQueue, Zenon DEF Table, ScopesOK
<1>4. ScopesOK(all)
  <2>1. all = [i \in Interfaces |-> all[i]]
    BY DEF RefreshedScopes
  <2> HIDE DEF all
  <2>2. QED
    BY <1>3, <2>1, Zenon DEF ScopesOK
<1>5. ASSUME NEW i \in Interfaces PROVE Entries(all, i) = EntriesOf(sts, i)
  <2>1. Timed(sts, i) = Timed(states, i)
    BY RefreshedSessions, Zenon
  <2>2. \A k \in Timed(states, i) :
            sts[k].queued = IF Moved(k, looked) THEN states[k].deadline ELSE states[k].queued
    BY RefreshedSession, Zenon DEF Timed
  <2>3. \A k \in Timed(states, i) : Moved(k, looked) <=> i \in looked /\ k \in Stale(i)
    BY DEF Moved, Timed
  <2>4. CASE scopes[i] = None
    <3>1. EntriesOf(states, i) = {}
      BY <2>4, Zenon DEF Table, QueuesOK, Entries
    <3>2. Timed(states, i) = {}
      BY <3>1, Zenon DEF EntriesOf
    <3>3. QED
      BY <2>1, <2>4, <3>2, <1>3, Zenon DEF Entries, EntriesOf
  <2>5. CASE scopes[i] # None /\ i \in looked
    <3>1. Entries(all, i)
            = {<<IF k \in Stale(i) THEN states[k].deadline ELSE states[k].queued, k>> : k \in Timed(states, i)}
      BY <2>5, <1>1, RefreshedQueue, Zenon DEF Entries
    <3>2. \A k \in Timed(states, i) :
              sts[k].queued = IF k \in Stale(i) THEN states[k].deadline ELSE states[k].queued
      BY <2>2, <2>3, <2>5, Zenon
    <3>3. QED
      BY <2>1, <3>1, <3>2, Zenon DEF EntriesOf
  <2>6. CASE scopes[i] # None /\ i \notin looked
    <3>1. Entries(all, i) = EntriesOf(states, i)
      BY <2>6, <1>1, Zenon DEF Entries, Table, QueuesOK
    <3>2. \A k \in Timed(states, i) : sts[k].queued = states[k].queued
      BY <2>2, <2>3, <2>6, Zenon
    <3>3. QED
      BY <2>1, <3>1, <3>2, Zenon DEF EntriesOf
  <2>7. QED
    BY <2>4, <2>5, <2>6, Zenon
<1>6. QED
  BY <1>3, <1>4, <1>5, Zenon DEF QueuesOK

\* After Refresh the front entry of a scope is at the earliest real deadline of its
\* sessions, which is what the loop that pops stale entries stops at.
LEMMA FrontReal ==
    ASSUME Table, NEW i \in Interfaces, scopes[i] # None, Timed(states, i) # {}
    PROVE  /\ First(Real(i)) \in RefreshedScope(i).expiry /\ First(Real(i)) \in Real(i)
           /\ \A f \in RefreshedScope(i).expiry : f = First(Real(i)) \/ Before(First(Real(i)), f)
           /\ \A f \in Real(i) : f = First(Real(i)) \/ Before(First(Real(i)), f)
<1> DEFINE m == First(Real(i))
           Place(k) == <<IF k \in Stale(i) THEN states[k].deadline ELSE states[k].queued, k>>
<1>1. Real(i) \subseteq Int \X FlowKeys /\ IsFiniteSet(Real(i)) /\ Real(i) # {}
  BY RealEntries, Zenon
<1>2. m \in Real(i) /\ \A f \in Real(i) \ {m} : Before(m, f)
  BY <1>1, FirstEntry, Zenon
<1>3. \A k \in Timed(states, i) : k \in Stale(i) <=> Before(<<states[k].queued, k>>, m)
  BY QueuedKeys, Zenon DEF Stale, Real
<1>4. RefreshedScope(i).expiry = {Place(k) : k \in Timed(states, i)}
  BY RefreshedQueue, Zenon
<1>5. \A k \in Timed(states, i) :
          /\ states[k].deadline \in Int /\ states[k].queued \in Int /\ states[k].queued <= states[k].deadline
          /\ k \in FlowKeys /\ <<states[k].queued, k>> \in Int \X FlowKeys
          /\ <<states[k].deadline, k>> \in Real(i)
  BY Zenon DEF Table, SessionsOK, SessionOK, Timed, Session, Real
<1> HIDE DEF m
<1>6. ASSUME NEW k \in Timed(states, i) PROVE Place(k) = m \/ Before(m, Place(k))
  <2>1. CASE k \in Stale(i)
    BY <2>1, <1>2, <1>5, Zenon
  <2>2. CASE k \notin Stale(i)
    <3>1. <<states[k].queued, k>> \in Int \X FlowKeys /\ m \in Int \X FlowKeys
      BY <1>1, <1>2, <1>5, Zenon
    <3>2. ~Before(<<states[k].queued, k>>, m)
      BY <2>2, <1>3, Zenon
    <3>3. <<states[k].queued, k>> = m \/ Before(m, <<states[k].queued, k>>)
      BY <3>1, <3>2, BeforeOrder, Zenon
    <3>4. QED
      BY <2>2, <3>3, Zenon
  <2>3. QED
    BY <2>1, <2>2, Zenon
<1>7. PICK k \in Timed(states, i) : m = <<states[k].deadline, k>>
  BY <1>2, Zenon DEF Real
<1>8. Place(k) = m
  <2>1. CASE k \in Stale(i)
    BY <2>1, <1>7, Zenon
  <2>2. CASE k \notin Stale(i)
    <3>1. ~(states[k].queued < states[k].deadline)
      BY <2>2, <1>3, <1>7, Zenon DEF Before
    <3>2. states[k].deadline \in Int /\ states[k].queued \in Int /\ states[k].queued <= states[k].deadline
      BY <1>5, Zenon
    <3>3. states[k].queued = states[k].deadline
      BY <3>1, <3>2
    <3>4. QED
      BY <2>2, <3>3, <1>7, Zenon
  <2>3. QED
    BY <2>1, <2>2, Zenon
<1>9. m \in RefreshedScope(i).expiry
  BY <1>4, <1>8, Zenon
<1>10. \A f \in RefreshedScope(i).expiry : f = m \/ Before(m, f)
  BY <1>4, <1>6
<1>11. QED
  BY <1>2, <1>9, <1>10, Zenon DEF m

\* The entry that Evictable picks: the first of those of the interfaces it looked at
\* is at the earliest real deadline of their sessions.
LookedEntries(looked) == UNION {RefreshedScopes(looked)[i].expiry : i \in {j \in looked : RefreshedScopes(looked)[j] # None}}

LEMMA NearestVictim ==
    ASSUME Table, NEW looked, looked \subseteq Interfaces
    PROVE  /\ LookedEntries(looked) = {} <=> \A i \in looked : Timed(states, i) = {}
           /\ LookedEntries(looked) # {} =>
                LET k == First(LookedEntries(looked))[2] IN
                /\ k \in FlowKeys /\ states[k] # None /\ states[k].scheduled /\ InterfaceOf[k] \in looked
                /\ \A i \in looked : \A j \in Timed(states, i) : states[k].deadline <= states[j].deadline
<1> DEFINE S == LookedEntries(looked)
           all == RefreshedScopes(looked)
           sts == RefreshedStates(looked)
<1>1. \A i \in looked : all[i] = RefreshedScope(i) /\ (all[i] = None <=> scopes[i] = None)
  BY RefreshedTable, Zenon DEF RefreshedScopes
<1>2. SessionsOK(sts) /\ QueuesOK(all, sts) /\ \A i : Timed(sts, i) = Timed(states, i)
  BY RefreshedTable, RefreshedSessions, Zenon
<1>3. \A i \in looked : Timed(states, i) # {} => scopes[i] # None
  BY ScheduledScope, Zenon DEF Table, Timed
<1>4. \A e : e \in S <=> \E i \in looked : e \in Entries(all, i)
  BY DEF LookedEntries, Entries
<1>5. \A i \in looked : Entries(all, i) \subseteq Int \X FlowKeys /\ (Entries(all, i) = {} <=> Timed(states, i) = {})
  BY <1>2, QueueEntries, Zenon
<1>6. S \subseteq Int \X FlowKeys /\ (S = {} <=> \A i \in looked : Timed(states, i) = {})
  BY <1>4, <1>5, Zenon
<1>7. IsFiniteSet(S)
  <2> DEFINE K == {k \in FlowKeys : \E i \in looked : k \in Timed(states, i)}
             g == [k \in K |-> sts[k].queued]
  <2>1. K \subseteq FlowKeys
    OBVIOUS
  <2>2. g \in [K -> Int]
    BY <1>2 DEF SessionsOK, SessionOK, Timed, Session
  <2>3. \A i \in looked : Entries(all, i) = {<<sts[k].queued, k>> : k \in Timed(states, i)}
    BY <1>2, Zenon DEF QueuesOK, EntriesOf
  <2>4. \A i \in looked : Timed(states, i) \subseteq K
    BY DEF Timed
  <2>5. S = {<<g[k], k>> : k \in K}
    <3>1. ASSUME NEW e \in S PROVE e \in {<<g[k], k>> : k \in K}
      <4>1. PICK i \in looked : e \in Entries(all, i)
        BY <1>4, Zenon
      <4>2. PICK k \in Timed(states, i) : e = <<sts[k].queued, k>>
        BY <4>1, <2>3, Zenon
      <4>3. k \in K
        BY <2>4, Zenon
      <4>4. QED
        BY <4>2, <4>3, Zenon
    <3>2. ASSUME NEW k \in K PROVE <<g[k], k>> \in S
      <4>1. PICK i \in looked : k \in Timed(states, i)
        OBVIOUS
      <4>2. <<sts[k].queued, k>> \in Entries(all, i)
        BY <4>1, <2>3, Zenon
      <4>3. QED
        BY <4>2, <1>4, Zenon
    <3>3. QED
      BY <3>1, <3>2, Zenon
  <2> HIDE DEF K, g, S
  <2>6. QED
    BY <2>1, <2>2, <2>5, EntrySet, Zenon
<1> HIDE DEF S, all, sts
<1>8. ASSUME S # {}
      PROVE  LET k == First(S)[2] IN
             /\ k \in FlowKeys /\ states[k] # None /\ states[k].scheduled /\ InterfaceOf[k] \in looked
             /\ \A i \in looked : \A j \in Timed(states, i) : states[k].deadline <= states[j].deadline
  <2> DEFINE f == First(S)
  <2>1. f \in S /\ \A e \in S \ {f} : Before(f, e)
    BY <1>6, <1>7, <1>8, FirstEntry, Zenon
  <2> HIDE DEF f
  <2>2. PICK i \in looked : f \in Entries(all, i)
    BY <2>1, <1>4, Zenon
  <2>3. Timed(states, i) # {} /\ scopes[i] # None /\ i \in Interfaces
    BY <2>2, <1>3, <1>5, Zenon
  <2>4. Entries(all, i) = RefreshedScope(i).expiry
    BY <2>3, <1>1, Zenon DEF Entries
  <2>5. f = First(Real(i)) /\ f \in Real(i)
    <3>1. /\ First(Real(i)) \in Entries(all, i) /\ First(Real(i)) \in Real(i)
          /\ f = First(Real(i)) \/ Before(First(Real(i)), f)
      BY <2>2, <2>3, <2>4, FrontReal, Zenon
    <3>2. First(Real(i)) \in S /\ First(Real(i)) \in Int \X FlowKeys /\ f \in Int \X FlowKeys
      BY <3>1, <2>1, <1>4, <1>6, Zenon
    <3>3. f = First(Real(i)) \/ Before(f, First(Real(i)))
      BY <2>1, <3>2, Zenon
    <3>4. f = First(Real(i))
      BY <3>1, <3>2, <3>3, BeforeOrder, Zenon
    <3>5. QED
      BY <3>1, <3>4, Zenon
  <2>6. PICK k \in Timed(states, i) : f = <<states[k].deadline, k>>
    BY <2>5, Zenon DEF Real
  <2>7. k \in FlowKeys /\ states[k] # None /\ states[k].scheduled /\ InterfaceOf[k] \in looked
    BY <2>6, Zenon DEF Timed
  <2>8. ASSUME NEW h \in looked, NEW j \in Timed(states, h) PROVE states[k].deadline <= states[j].deadline
    <3>1. h \in Interfaces /\ scopes[h] # None /\ Timed(states, h) # {}
      BY <1>3, <2>8, Zenon
    <3>2. /\ First(Real(h)) \in RefreshedScope(h).expiry
          /\ \A e \in Real(h) : e = First(Real(h)) \/ Before(First(Real(h)), e)
          /\ First(Real(h)) \in Real(h)
      BY <3>1, FrontReal, Zenon
    <3>3. First(Real(h)) \in S
      BY <3>1, <3>2, <1>1, <1>4, Zenon DEF Entries
    <3>4. f = First(Real(h)) \/ Before(f, First(Real(h)))
      BY <2>1, <3>3, Zenon
    <3>5. <<states[j].deadline, j>> \in Real(h)
      BY DEF Real
    <3>6. <<states[j].deadline, j>> = First(Real(h)) \/ Before(First(Real(h)), <<states[j].deadline, j>>)
      BY <3>2, <3>5, Zenon
    <3>7. /\ f[1] \in Int /\ First(Real(h))[1] \in Int /\ states[j].deadline \in Int
      <4>1. f \in Int \X FlowKeys /\ First(Real(h)) \in Int \X FlowKeys /\ <<states[j].deadline, j>> \in Int \X FlowKeys
        BY <2>1, <1>6, <3>1, <3>2, <3>5, RealEntries, Zenon
      <4>2. QED
        BY <4>1, EntryNumbers, Zenon
    <3>8. f[1] <= First(Real(h))[1] /\ First(Real(h))[1] <= states[j].deadline
      BY <3>4, <3>6, <3>7 DEF Before
    <3>9. QED
      BY <2>6, <3>7, <3>8
  <2>9. First(S)[2] = k
    BY <2>6 DEF f
  <2>10. QED
    BY <2>7, <2>8, <2>9, Zenon
<1>9. QED
  BY <1>6, <1>8, Zenon DEF S

-----------------------------------------------------------------------------
(* The steps of a call. *)

Counts(sts, out, counted, s, n) == Apart(sts, out) /\ Covers(sts, out, counted) /\ Present(sts, s, n)
ActiveIn(sts) == {k \in FlowKeys : sts[k] # None}

LEMMA ActiveFinite ==
    ASSUME NEW sts, NEW new, ActiveIn(new) \subseteq ActiveIn(sts)
    PROVE  /\ IsFiniteSet(ActiveIn(sts)) /\ Cardinality(ActiveIn(sts)) \in Nat
           /\ Cardinality(ActiveIn(new)) \in Nat /\ Cardinality(ActiveIn(new)) <= Cardinality(ActiveIn(sts))
<1>1. IsFiniteSet(ActiveIn(sts))
  BY FlowAssumption, FS_Subset, Zenon DEF ActiveIn
<1>2. QED
  BY <1>1, FS_Subset, FS_CardinalityType, Zenon

\* A row leaves the table it was taken from consistent.
LEMMA EmitFacts ==
    ASSUME NEW all, NEW sts, NEW k \in FlowKeys, NEW reason,
           ScopesOK(all), SessionsOK(sts), QueuesOK(all, sts), Apart(sts, rows), sts[k] # None,
           Emit(all, sts, k, reason)
    PROVE  /\ ScopesOK(scopes') /\ SessionsOK(states') /\ QueuesOK(scopes', states')
           /\ \A counted, s, n : Counts(sts, rows, counted, s, n) => Counts(states', rows', counted, s, n)
           /\ ActiveIn(states') \subseteq ActiveIn(sts)
<1> DEFINE row == [key |-> k, session |-> sts[k], finalized_by |-> reason]
<1>1. rows' = rows \cup {row} /\ scopes' = Unscheduled(all, k, sts[k]) /\ states' = Left(sts, k) /\ row.session = sts[k]
  BY Zenon DEF Emit, Left
<1> HIDE DEF row
<1>2. ScopesOK(scopes') /\ SessionsOK(states') /\ QueuesOK(scopes', states')
  BY <1>1, EmitTable, Zenon
<1>3. states'[k] = None /\ \A j \in FlowKeys \ {k} : states'[j] = sts[j]
  BY <1>1, LeftSessions, Zenon
<1>4. \A s, n : Present(sts, s, n) => Present(states', s, n)
  BY <1>3, Zenon DEF Present
<1>5. Apart(states', rows') /\ \A counted : Covers(sts, rows, counted) => Covers(states', rows', counted)
  BY <1>1, EmitCounts, Zenon
<1>6. ActiveIn(states') \subseteq ActiveIn(sts)
  BY <1>3, Zenon DEF ActiveIn
<1>7. QED
  BY <1>2, <1>4, <1>5, <1>6, Zenon DEF Counts

LEMMA InvParts ==
    Inv <=> /\ ScopesOK(scopes) /\ SessionsOK(states) /\ QueuesOK(scopes, states)
            /\ Counts(states, rows, CountedNow, section, UsedUp) /\ CallOK
BY DEF Inv, Counts

LEMMA InvPartsNext ==
    Inv' <=> /\ ScopesOK(scopes') /\ SessionsOK(states') /\ QueuesOK(scopes', states')
             /\ Counts(states', rows', CountedNow', section', UsedUp') /\ CallOK'
BY DEF Inv, Counts

\* A row is returned and the record, if there is one, stays as it is.
LEMMA EmitInv ==
    ASSUME Inv, NEW all, NEW sts, NEW k \in FlowKeys, NEW reason,
           ScopesOK(all), SessionsOK(sts), QueuesOK(all, sts), SamePackets(states, sts), sts[k] # None,
           Emit(all, sts, k, reason), UNCHANGED <<inputVars, sectionVars>>
    PROVE  Inv'
<1>1. Counts(states, rows, CountedNow, section, UsedUp)
  BY InvParts, Zenon
<1>2. Counts(sts, rows, CountedNow, section, UsedUp)
  BY <1>1, SamePacketsKeep, Zenon DEF Counts
<1>3. /\ ScopesOK(scopes') /\ SessionsOK(states') /\ QueuesOK(scopes', states')
      /\ Counts(states', rows', CountedNow, section, UsedUp)
      /\ ActiveIn(states') \subseteq ActiveIn(sts)
  BY <1>2, EmitFacts, Zenon DEF Counts
<1>4. CountedNow' = CountedNow /\ UsedUp' = UsedUp /\ section' = section
  BY DEF CountedNow, UsedUp, inputVars, sectionVars
<1>5. ActiveIn(sts) = ActiveIn(states) /\ Active = ActiveIn(states) /\ Active' = ActiveIn(states')
  BY Zenon DEF ActiveIn, SamePackets, Active
<1>6. CallOK'
  <2>1. Cardinality(Active') <= max_flows
    <3>1. Cardinality(Active) <= max_flows
      BY Zenon DEF Inv, CallOK
    <3>2. max_flows \in Nat
      BY FlowAssumption, Zenon
    <3>3. QED
      BY <3>1, <3>2, <1>3, <1>5, ActiveFinite
  <2>2. ~have_section' => Active' = {}
    BY <1>3, <1>5, Zenon DEF Inv, CallOK, sectionVars
  <2>3. step' = "ready" /\ more' = TRUE
    BY Zenon DEF Emit
  <2>4. QED
    BY <2>1, <2>2, <2>3, Zenon DEF Inv, CallOK, inputVars, sectionVars, Key
<1>7. QED
  BY <1>3, <1>4, <1>6, InvPartsNext, Zenon

LEMMA InitInv == ASSUME Init PROVE Inv
<1>1. \A k \in FlowKeys : states[k] = None
  BY DEF Init
<1>2. \A i \in Interfaces : scopes[i] = None
  BY DEF Init, NoScopes
<1>3. SessionsOK(states) /\ ScopesOK(scopes)
  BY DEF Init, NoScopes, SessionsOK, ScopesOK
<1>4. QueuesOK(scopes, states)
  BY <1>1, <1>2, Zenon DEF QueuesOK, Entries, EntriesOf, Timed
<1>5. Active = {}
  BY <1>1, Zenon DEF Active
<1>6. CountedNow = {} /\ rows = {}
  BY DEF Init, CountedNow
<1>7. Apart(states, rows) /\ Covers(states, rows, CountedNow) /\ Present(states, section, UsedUp)
  BY <1>1, <1>6, Zenon DEF Apart, Covers, Present
<1>8. Cardinality(Active) <= max_flows
  BY <1>5, FS_EmptySet, FlowAssumption
<1>9. CallOK
  BY <1>5, <1>8, FlowAssumption DEF CallOK, Init
<1>10. QED
  BY <1>3, <1>4, <1>7, <1>9, Zenon DEF Inv

\* What the next call finds of the table when it did not change.
LEMMA TableSame ==
    ASSUME Inv, UNCHANGED <<states, scopes, rows>>,
           CountedNow' = CountedNow, Present(states, section', UsedUp'), CallOK'
    PROVE  Inv'
BY InvParts, InvPartsNext, Zenon DEF Counts

LEMMA PushInv ==
    ASSUME Inv, NEW in \in Inputs, NEW t \in FlowTimes \cup {NoTime}, NEW s \in 1..SectionMax, Push(in, t, s)
    PROVE  Inv'
<1>1. /\ pending = None /\ ~finishing /\ step = "ready" /\ count < MaxRecords
      /\ pending' = [input |-> in, time |-> t, section |-> s, number |-> count + 1]
      /\ count' = count + 1 /\ owed' = (IF in.key = None THEN owed ELSE owed \cup {count + 1})
      /\ UNCHANGED <<states, scopes, rows, section, have_section, finishing, step>>
  BY Zenon DEF Push, sectionVars
<1>2. /\ count \in Nat /\ count \in 0..MaxRecords /\ owed \subseteq 1..count /\ CallOK
      /\ Present(states, section, UsedUp)
  BY FlowAssumption DEF Inv, CallOK
<1>3. /\ pending' \in PendingType /\ pending'.number = count + 1 /\ pending'.input = in
  BY <1>1, <1>2 DEF PendingType
<1>4. pending' # None
  BY <1>3, FlowAssumption, Zenon
<1>5. count + 1 \notin owed
  BY <1>2
<1>6. CountedNow' = CountedNow
  BY <1>1, <1>3, <1>4, <1>5, Zenon DEF CountedNow
<1>7. UsedUp' = UsedUp
  BY <1>1, <1>2, <1>4 DEF UsedUp
<1>8. Active' = Active
  BY <1>1, Zenon DEF Active
<1>9. owed' \subseteq 1..(count + 1) /\ (in.key # None <=> count + 1 \in owed')
  BY <1>1, <1>2, <1>5
<1>10. count + 1 \in 0..MaxRecords
  BY <1>1, <1>2, FlowAssumption
<1>11. CallOK'
  BY <1>1, <1>2, <1>3, <1>8, <1>9, <1>10, Zenon DEF CallOK, Key
<1>12. QED
  BY <1>1, <1>2, <1>6, <1>7, <1>11, TableSame, Zenon

LEMMA FinishCalledInv ==
    ASSUME Inv, NEW s \in 1..SectionMax, FinishCalled(s) PROVE Inv'
<1>1. /\ pending = None /\ step = "ready" /\ finishing' = TRUE /\ more' = TRUE
      /\ UNCHANGED <<states, scopes, rows, section, have_section, step, pending, count, owed>>
  BY DEF FinishCalled, inputVars
<1>2. CountedNow' = CountedNow /\ UsedUp' = UsedUp /\ Active' = Active
  BY <1>1, Zenon DEF CountedNow, UsedUp, Active
<1>3. CallOK'
  BY <1>1, <1>2, Zenon DEF Inv, CallOK
<1>4. QED
  BY <1>1, <1>2, <1>3, TableSame, Zenon DEF Inv

\* Nothing left to say: the record is used up without a session.
LEMMA UsedUpInv ==
    ASSUME Inv, Ineligible \/ Nothing PROVE Inv'
<1>1. /\ pending' = None /\ step' = "ready" /\ more' = FALSE /\ ~finishing
      /\ UNCHANGED <<states, scopes, rows, section, have_section, finishing, count, owed>>
  <2>1. CASE Ineligible
    <3>1. step = "decide" => ~finishing
      BY Zenon DEF Inv, CallOK
    <3>2. QED
      BY <2>1, <3>1, Zenon DEF Ineligible, Decide, NoRow, sectionVars
  <2>2. CASE Nothing
    BY <2>2, Zenon DEF Nothing, NoRow, inputVars, sectionVars
  <2>3. QED
    BY <2>1, <2>2, Zenon
<1>2. Active' = Active
  BY <1>1, Zenon DEF Active
<1>3. count \in Nat /\ UsedUp \in Int /\ UsedUp <= UsedUp'
  BY <1>1 DEF Inv, CallOK, UsedUp
<1>4. CountedNow' = CountedNow
  <2>1. pending # None => pending.number = count /\ count \notin owed
    BY Zenon DEF Inv, CallOK, Ineligible, Nothing, Decide
  <2>2. QED
    BY <1>1, <2>1, Zenon DEF CountedNow
<1>5. Present(states, section', UsedUp')
  <2>1. \A k \in FlowKeys : states[k] # None => states[k].missing_timestamps \in Nat
    BY Zenon DEF Inv, SessionsOK, Session
  <2>2. UsedUp' \in Int
    BY <1>1, <1>3 DEF UsedUp
  <2>3. QED
    BY <1>1, <1>3, <2>1, <2>2 DEF Inv, Present
<1>6. CallOK'
  BY <1>1, <1>2, Zenon DEF Inv, CallOK
<1>7. QED
  BY <1>1, <1>4, <1>5, <1>6, TableSame, Zenon

LEMMA EmitHere ==
    ASSUME Inv, NEW k \in FlowKeys, NEW reason, states[k] # None,
           Emit(scopes, states, k, reason), UNCHANGED <<inputVars, sectionVars>>
    PROVE  Inv'
<1>1. SamePackets(states, states)
  BY DEF SamePackets
<1>2. QED
  BY <1>1, EmitInv, InvParts, Zenon

LEMMA MinActive == ASSUME Active # {} PROVE Min(Active) \in FlowKeys /\ states[Min(Active)] # None
<1>1. Active \subseteq FlowKeys
  BY DEF Active
<1>2. Min(Active) \in Active
  BY <1>1, MinKey, Zenon
<1>3. QED
  BY <1>2, Zenon DEF Active

\* The record being entered or decided on.
LEMMA PendingFacts ==
    ASSUME Inv, pending # None
    PROVE  /\ pending \in PendingType /\ pending.number = count /\ pending.input \in InputType
           /\ pending.input.interface \in Interfaces /\ pending.section \in 1..SectionMax
           /\ Key # None => Key \in FlowKeys /\ pending.input.interface = InterfaceOf[Key]
           /\ Key # None <=> count \in owed
           /\ pending.time \in Int \cup {NoTime}
<1>1. pending \in PendingType /\ pending.number = count /\ (Key # None <=> count \in owed)
  BY Zenon DEF Inv, CallOK
<1>2. pending.input \in Inputs /\ pending.section \in 1..SectionMax /\ pending.time \in Int \cup {NoTime}
  BY <1>1, FlowAssumption, Zenon DEF PendingType
<1>3. pending.input \in InputType
  BY <1>2, FlowAssumption, Zenon
<1>4. pending.input.interface \in Interfaces /\ Key \in FlowKeys \cup {None}
  BY <1>3, Zenon DEF InputType, Key
<1>5. Key # None => pending.input.interface = InterfaceOf[Key]
  BY <1>2, FlowAssumption, Zenon DEF Key
<1>6. QED
  BY <1>1, <1>2, <1>3, <1>4, <1>5, Zenon

LEMMA FinalInv == ASSUME Inv, Final PROVE Inv'
<1>1. CASE Active # {}
  BY <1>1, MinActive, EmitHere, Zenon DEF Final
<1>2. CASE Active = {}
  <2>1. /\ scopes' = NoScopes /\ more' = FALSE /\ step' = "ready" /\ finishing
        /\ UNCHANGED <<states, rows, pending, count, owed, section, have_section, finishing>>
    BY <1>2, Zenon DEF Final, NoRow, inputVars, sectionVars, Called
  <2>2. \A k \in FlowKeys : states[k] = None
    BY <1>2, Zenon DEF Active
  <2>3. \A i \in Interfaces : scopes'[i] = None
    BY <2>1, Zenon DEF NoScopes
  <2>4. ScopesOK(scopes')
    BY <2>1, Zenon DEF ScopesOK, NoScopes
  <2>5. QueuesOK(scopes', states')
    BY <2>1, <2>2, <2>3, Zenon DEF QueuesOK, Entries, EntriesOf, Timed
  <2>6. CountedNow' = CountedNow /\ UsedUp' = UsedUp /\ Active' = Active
    BY <2>1, Zenon DEF CountedNow, UsedUp, Active
  <2>7. CallOK'
    BY <1>2, <2>1, <2>6, Zenon DEF Inv, CallOK
  <2>8. QED
    BY <2>1, <2>4, <2>5, <2>6, <2>7, InvParts, InvPartsNext, Zenon
<1>3. QED
  BY <1>1, <1>2, Zenon

LEMMA BoundaryInv == ASSUME Inv, Boundary PROVE Inv'
BY MinActive, EmitHere, Zenon DEF Boundary

LEMMA ReuseInv == ASSUME Inv, Reuse PROVE Inv'
BY EmitHere, Zenon DEF Reuse, Reuses, Active

LEMMA ExpireIdleInv == ASSUME Inv, ExpireIdle PROVE Inv'
<1> DEFINE i == pending.input.interface
           k == First(Entries(scopes, i))[2]
<1>1. i \in Interfaces /\ scopes[i] # None
  BY PendingFacts, Zenon DEF Inv, CallOK, ExpireIdle
<1>2. Scope.expiry = Entries(scopes, i) /\ Entries(scopes, i) # {}
  BY <1>1, Zenon DEF Scope, Entries, ExpireIdle, Overdue
<1>3. First(Entries(scopes, i)) \in Entries(scopes, i)
  BY <1>1, <1>2, QueueEntries, FirstEntry, Zenon DEF Inv
<1>4. k \in FlowKeys /\ states[k] # None
  BY <1>1, <1>3 DEF Inv, QueuesOK, EntriesOf, Timed
<1>5. Emit(scopes, states, k, "idle_timeout") /\ UNCHANGED <<inputVars, sectionVars>>
  BY <1>2, Zenon DEF ExpireIdle
<1> HIDE DEF k
<1>6. QED
  BY <1>4, <1>5, EmitHere, Zenon

\* Evictable and Emit on the refreshed table.
LEMMA EvictFacts ==
    ASSUME Inv, Evict
    PROVE  \E looked \in SUBSET Interfaces, k \in FlowKeys :
               /\ looked = (IF Scope.expiry # {} THEN {pending.input.interface} ELSE Interfaces)
               /\ k = IF LookedEntries(looked) = {} THEN Min(Active) ELSE First(LookedEntries(looked))[2]
               /\ states[k] # None
               /\ Emit(RefreshedScopes(looked), RefreshedStates(looked), k, "limit")
<1> DEFINE looked == IF Scope.expiry # {} THEN {pending.input.interface} ELSE Interfaces
           k == IF LookedEntries(looked) = {} THEN Min(Active) ELSE First(LookedEntries(looked))[2]
<1>1. pending # None /\ pending.input.interface \in Interfaces
  BY PendingFacts, Zenon DEF Inv, CallOK, Evict, Decide
<1>2. looked \subseteq Interfaces
  BY <1>1, Zenon
<1>3. Emit(RefreshedScopes(looked), RefreshedStates(looked), k, "limit")
  BY Zenon DEF Evict, RefreshedScopes, RefreshedStates, LookedEntries
<1>4. Active # {}
  <2>1. Cardinality(Active) >= max_flows /\ max_flows \in Nat \ {0}
    BY FlowAssumption, Zenon DEF Evict
  <2>2. QED
    BY <2>1, FS_EmptySet
<1>5. Table
  BY DEF Table, Inv
<1> HIDE DEF looked
<1>6. k \in FlowKeys /\ states[k] # None
  BY <1>2, <1>4, <1>5, MinActive, NearestVictim, Zenon
<1> HIDE DEF k
<1>7. QED
  BY <1>2, <1>3, <1>6, Zenon DEF looked, k

LEMMA EvictInv == ASSUME Inv, Evict PROVE Inv'
<1>1. PICK looked \in SUBSET Interfaces, k \in FlowKeys :
          states[k] # None /\ Emit(RefreshedScopes(looked), RefreshedStates(looked), k, "limit")
  BY EvictFacts, Zenon
<1>2. Table /\ looked \subseteq Interfaces
  BY DEF Table, Inv
<1>3. /\ ScopesOK(RefreshedScopes(looked)) /\ SessionsOK(RefreshedStates(looked))
      /\ QueuesOK(RefreshedScopes(looked), RefreshedStates(looked))
      /\ SamePackets(states, RefreshedStates(looked))
  BY <1>2, RefreshedTable, RefreshedSessions, Zenon
<1>4. RefreshedStates(looked)[k] # None
  BY <1>1, <1>3, Zenon DEF SamePackets
<1>5. UNCHANGED <<inputVars, sectionVars>>
  BY Zenon DEF Evict
<1>6. QED
  BY <1>1, <1>3, <1>4, <1>5, EmitInv, Zenon

LEMMA ClockType ==
    ASSUME NEW scope \in ScopeType, NEW t \in Int \cup {NoTime}
    PROVE  Clock(scope, t) \in ScopeType /\ Clock(scope, t).expiry = scope.expiry
<1> DEFINE w == IF scope.watermark = NoTime THEN t ELSE Max({scope.watermark, t})
<1>1. CASE t = NoTime
  BY <1>1, Zenon DEF Clock
<1>2. CASE t # NoTime
  <2>1. Clock(scope, t) = [scope EXCEPT !.watermark = w]
    BY <1>2, Zenon DEF Clock
  <2>2. w \in Int \cup {NoTime}
    BY <1>2, MaxPair, Zenon DEF ScopeType
  <2> HIDE DEF w
  <2>3. QED
    BY <2>1, <2>2, Zenon DEF ScopeType
<1>3. QED
  BY <1>1, <1>2, Zenon

\* Placing a scope.
Placed(all, i, scope) == [all EXCEPT ![i] = scope]

LEMMA PlacedScope ==
    ASSUME NEW all, NEW i \in Interfaces, NEW scope \in ScopeType, ScopesOK(all)
    PROVE  /\ ScopesOK(Placed(all, i, scope)) /\ Placed(all, i, scope)[i] = scope /\ scope # None
           /\ \A j \in Interfaces \ {i} : Placed(all, i, scope)[j] = all[j]
<1>1. scope # None
  BY FlowAssumption, Zenon
<1>2. QED
  BY <1>1, Zenon DEF ScopesOK, Placed

\* The section and the clock of the record, once the table is of that section.
LEMMA EnterSection ==
    ASSUME Inv, Enter
    PROVE  /\ pending # None /\ ~finishing /\ section' = pending.section /\ have_section' = TRUE
           /\ pending.section # section => Active = {}
           /\ NewSection => Active = {}
           /\ Present(states, section', UsedUp) /\ section' \in 0..SectionMax
<1>1. /\ pending # None /\ ~finishing /\ section' = pending.section /\ have_section' = TRUE
      /\ NewSection => Active = {}
  BY Zenon DEF Enter
<1>2. pending.section # section => Active = {}
  BY <1>1, Zenon DEF NewSection, Inv, CallOK
<1>3. Present(states, section', UsedUp)
  BY <1>1, <1>2, Zenon DEF Inv, Present, Active
<1>4. section' \in 0..SectionMax
  BY <1>1, PendingFacts, FlowAssumption
<1>5. QED
  BY <1>1, <1>2, <1>3, <1>4, Zenon

\* What a call does to the table before it decides: the queue of the record's
\* interface is refreshed, or made when the section or the interface is new.
LEMMA EnterTable ==
    ASSUME Inv, Enter, step' # "thrown"
    PROVE  /\ ScopesOK(scopes') /\ SessionsOK(states') /\ QueuesOK(scopes', states')
           /\ SamePackets(states, states') /\ scopes'[pending.input.interface] # None /\ step' = "decide"
<1> DEFINE i == pending.input.interface
           current == IF NewSection THEN NoScopes ELSE scopes
           scope == IF current[i] = None THEN NewScope ELSE current[i]
           clocked == IF prepared THEN scope ELSE Clock(scope, pending.time)
           queue == IF scopes[i] = None THEN {} ELSE RefreshedScope(i).expiry
           entered == IF NewSection THEN clocked ELSE [clocked EXCEPT !.expiry = queue]
<1>1. step' = "decide" /\ scopes' = Placed(current, i, entered) /\ states' = RefreshedStates({i})
  BY Zenon DEF Enter, Placed, RefreshedStates
<1>2. i \in Interfaces /\ pending.time \in Int \cup {NoTime}
  BY EnterSection, PendingFacts, Zenon
<1>3. Table
  BY DEF Table, Inv
<1>4. ScopesOK(current)
  BY <1>3, Zenon DEF ScopesOK, NoScopes, Table
<1>5. scope \in ScopeType
  BY <1>2, <1>4, SessionAssumption, Zenon DEF ScopesOK, ScopeType, NewScope
<1>6. clocked \in ScopeType /\ clocked.expiry = scope.expiry
  BY <1>2, <1>5, ClockType, Zenon
<1>7. /\ SessionsOK(states') /\ SamePackets(states, states')
      /\ QueuesOK(RefreshedScopes({i}), states')
  BY <1>1, <1>2, <1>3, RefreshedSessions, RefreshedTable, Zenon
<1>8. CASE NewSection
  <2>1. current = NoScopes /\ scope = NewScope /\ entered = clocked
    BY <1>2, <1>8, Zenon DEF NoScopes
  <2> HIDE DEF current, scope, clocked, entered
  <2>2. entered \in ScopeType /\ entered.expiry = {}
    <3>1. NewScope.expiry = {}
      BY DEF NewScope
    <3>2. QED
      BY <1>6, <2>1, <3>1, Zenon
  <2>3. /\ ScopesOK(scopes') /\ scopes'[i] = entered /\ entered # None
        /\ \A j \in Interfaces \ {i} : scopes'[j] = None
    <3>1. /\ ScopesOK(scopes') /\ scopes'[i] = entered /\ entered # None
          /\ \A j \in Interfaces \ {i} : scopes'[j] = current[j]
      BY <1>1, <1>2, <1>4, <2>2, PlacedScope
    <3>2. \A j \in Interfaces : current[j] = None
      BY <2>1, Zenon DEF NoScopes
    <3>3. QED
      BY <3>1, <3>2, Zenon
  <2>4. \A k \in FlowKeys : states'[k] = None
    BY <1>7, <1>8, EnterSection, Zenon DEF SamePackets, Active
  <2>5. QueuesOK(scopes', states')
    BY <2>2, <2>3, <2>4, Zenon DEF QueuesOK, Entries, EntriesOf, Timed
  <2>6. QED
    BY <1>1, <1>7, <2>3, <2>5, Zenon
<1>9. CASE ~NewSection
  <2>1. current = scopes /\ entered = [clocked EXCEPT !.expiry = queue]
    BY <1>9, Zenon
  <2>2. queue \subseteq Int \X FlowKeys /\ queue = Entries(RefreshedScopes({i}), i)
    <3>1. scopes[i] # None => RefreshedScope(i) \in ScopeType /\ RefreshedScope(i) # None
      BY <1>2, <1>3, RefreshedQueue, Zenon
    <3>2. RefreshedScopes({i})[i] = RefreshedScope(i) /\ (scopes[i] = None => RefreshedScope(i) = None)
      BY <1>2, Zenon DEF RefreshedScopes, RefreshedScope
    <3>3. QED
      BY <3>1, <3>2, Zenon DEF Entries, ScopeType
  <2> HIDE DEF current, scope, clocked, queue
  <2>3. entered \in ScopeType /\ entered.expiry = queue
    BY <1>6, <2>1, <2>2, Zenon DEF ScopeType
  <2> HIDE DEF entered
  <2>4. /\ ScopesOK(scopes') /\ scopes'[i] = entered /\ entered # None
        /\ \A j \in Interfaces \ {i} : scopes'[j] = scopes[j]
    BY <1>1, <1>2, <1>4, <2>1, <2>3, PlacedScope
  <2>5. \A j \in Interfaces \ {i} : RefreshedScopes({i})[j] = scopes[j]
    BY DEF RefreshedScopes
  <2>6. \A j \in Interfaces : Entries(scopes', j) = Entries(RefreshedScopes({i}), j)
    BY <2>2, <2>3, <2>4, <2>5, Zenon DEF Entries
  <2>7. QueuesOK(scopes', states')
    BY <1>7, <2>6, Zenon DEF QueuesOK
  <2>8. QED
    BY <1>1, <1>7, <2>4, <2>7, Zenon
<1>10. QED
  BY <1>8, <1>9, Zenon

LEMMA EnterInv == ASSUME Inv, Enter PROVE Inv'
<1>1. /\ pending # None /\ ~finishing /\ section' = pending.section /\ have_section' = TRUE
      /\ NewSection => Active = {}
      /\ Present(states, section', UsedUp) /\ section' \in 0..SectionMax
  BY EnterSection, Zenon
<1>2. UNCHANGED <<pending, count, owed, finishing, rows>>
  BY Zenon DEF Enter
<1>3. CountedNow' = CountedNow /\ UsedUp' = UsedUp
  BY <1>2, Zenon DEF CountedNow, UsedUp
<1>4. CASE step' = "thrown"
  <2>1. scopes' = (IF NewSection THEN NoScopes ELSE scopes) /\ UNCHANGED states
    BY <1>4, Zenon DEF Enter
  <2>2. ScopesOK(scopes')
    BY <2>1, Zenon DEF Inv, ScopesOK, NoScopes
  <2>3. QueuesOK(scopes', states')
    <3>1. CASE NewSection
      BY <1>1, <2>1, <3>1, Zenon DEF QueuesOK, Entries, EntriesOf, Timed, Active, NoScopes
    <3>2. CASE ~NewSection
      BY <2>1, <3>2, Zenon DEF Inv
    <3>3. QED
      BY <3>1, <3>2, Zenon
  <2>4. Active' = Active
    BY <2>1, Zenon DEF Active
  <2>5. CallOK'
    BY <1>1, <1>2, <1>4, <2>4, Zenon DEF Inv, CallOK, Key
  <2>6. Counts(states', rows', CountedNow', section', UsedUp')
    BY <1>1, <1>2, <1>3, <2>1, Zenon DEF Inv, Counts
  <2>7. QED
    BY <2>1, <2>2, <2>3, <2>5, <2>6, InvPartsNext, Zenon DEF Inv
<1>5. CASE step' # "thrown"
  <2>1. /\ ScopesOK(scopes') /\ SessionsOK(states') /\ QueuesOK(scopes', states')
        /\ SamePackets(states, states') /\ scopes'[pending.input.interface] # None /\ step' = "decide"
    BY <1>5, EnterTable, Zenon
  <2>2. Counts(states, rows, CountedNow, section', UsedUp)
    BY <1>1, Zenon DEF Inv, Counts
  <2>3. Counts(states', rows', CountedNow', section', UsedUp')
    BY <1>2, <1>3, <2>1, <2>2, SamePacketsKeep, Zenon DEF Counts
  <2>4. Active' = Active
    BY <2>1, Zenon DEF SamePackets, Active
  <2>5. CallOK'
    BY <1>1, <1>2, <2>1, <2>4, Zenon DEF Inv, CallOK, Key
  <2>6. QED
    BY <2>1, <2>3, <2>5, InvPartsNext, Zenon
<1>6. QED
  BY <1>4, <1>5, Zenon

-----------------------------------------------------------------------------
(* Account. *)

\* The session the record goes to.
Target == IF Key \in Active THEN states[Key] ELSE Opened(pending.input, section)
Heard == LET counted == Counted(Target, pending)
         IN  IF Key \in TcpKeys THEN Evidence(counted, pending.input) ELSE counted

\* The record has joined the session: one more packet, nothing else counted.
LEMMA HeardFacts ==
    ASSUME Inv, pending # None, Key # None, section = pending.section
    PROVE  /\ Target \in Session /\ CountedAs(Target, pending, Heard)
           /\ Heard.scheduled => Heard.last_timestamp \in Int /\ Heard.queued <= Deadline(Key, Heard)
           /\ Heard.section = section
           /\ Heard.scheduled = Target.scheduled /\ Heard.queued = Target.queued
           /\ Target.missing_timestamps <= count - 1 /\ Target.missing_timestamps \in Nat
           /\ Key \notin Active => ~Target.scheduled /\ Packets(Target) = {}
<1> DEFINE counted == Counted(Target, pending)
<1>1. /\ pending \in PendingType /\ pending.number = count /\ pending.input \in InputType
      /\ Key \in FlowKeys /\ count \in owed /\ section \in Nat
  BY PendingFacts
<1>2. count \in Nat /\ count >= 1 /\ UsedUp = count - 1
  BY <1>1 DEF Inv, CallOK, UsedUp
<1>3. /\ Target \in Session /\ Target.section = section /\ Target.missing_timestamps <= count - 1
      /\ Target.scheduled => Target.last_timestamp \in Int /\ Target.queued <= Deadline(Key, Target)
      /\ Key \notin Active => ~Target.scheduled /\ Packets(Target) = {}
  <2>1. CASE Key \in Active
    BY <2>1, <1>1, <1>2, Zenon DEF Target, Inv, SessionsOK, SessionOK, Present, Active
  <2>2. CASE Key \notin Active
    <3>1. Target = Opened(pending.input, section)
      BY <2>2, Zenon DEF Target
    <3>2. /\ Target \in Session /\ ~Target.scheduled /\ Target.section = section /\ Target.missing_timestamps = 0
          /\ Target.packets[0] = {} /\ Target.packets[1] = {}
      BY <1>1, <3>1, OpenedType
    <3>3. QED
      BY <1>2, <3>2 DEF Packets
  <2>3. QED
    BY <2>1, <2>2, Zenon
<1>4. CountedAs(Target, pending, counted)
  BY <1>1, <1>3, CountedKeeps, Zenon
<1> HIDE DEF counted
<1>5. /\ Heard \in Session /\ SameCounts(counted, Heard) /\ Heard.scheduled = counted.scheduled
      /\ Heard.queued = counted.queued /\ Heard.deadline = counted.deadline
  <2>1. counted \in Session
    BY <1>4, Zenon DEF CountedAs
  <2>2. CASE Key \in TcpKeys
    <3>1. Heard = Evidence(counted, pending.input)
      BY <2>2, Zenon DEF Heard, counted
    <3>2. QED
      BY <1>1, <2>1, <3>1, EvidenceKeeps, Zenon
  <2>3. CASE Key \notin TcpKeys
    <3>1. Heard = counted
      BY <2>3, Zenon DEF Heard, counted
    <3>2. QED
      BY <2>1, <3>1, Zenon DEF SameCounts
  <2>4. QED
    BY <2>2, <2>3, Zenon
<1>6. CountedAs(Target, pending, Heard)
  BY <1>4, <1>5, Zenon DEF CountedAs, SameCounts
<1>7. Heard.scheduled = Target.scheduled /\ Heard.queued = Target.queued /\ Heard.section = section
  BY <1>3, <1>6, Zenon DEF CountedAs
<1>8. Heard.scheduled => Heard.last_timestamp \in Int /\ Heard.queued <= Deadline(Key, Heard)
  <2>1. Timeout(Key) \in Int /\ Target.queued \in Int
    BY <1>3, FlowAssumption DEF Timeout, Session
  <2>2. QED
    BY <1>3, <1>6, <1>7, <2>1 DEF CountedAs, Deadline
<1>9. Target.missing_timestamps \in Nat
  BY <1>3, Zenon DEF Session
<1>10. QED
  BY <1>3, <1>6, <1>7, <1>8, <1>9, Zenon

\* A packet that no session has counted joins one of them, or a new one.
Gains(sts, new, k, n) ==
    /\ \A j \in FlowKeys \ {k} : new[j] = sts[j]
    /\ new[k] # None /\ new[k].packets[0] \cap new[k].packets[1] = {}
    /\ Packets(new[k]) = {n} \cup (IF sts[k] = None THEN {} ELSE Packets(sts[k]))

LEMMA GainsKeeps ==
    ASSUME NEW sts, NEW new, NEW out, NEW k \in FlowKeys, NEW n, NEW counted,
           Apart(sts, out), Covers(sts, out, counted), n \notin counted, Gains(sts, new, k, n)
    PROVE  Apart(new, out) /\ Covers(new, out, counted \cup {n})
<1> DEFINE old == IF sts[k] = None THEN {} ELSE Packets(sts[k])
<1>1. /\ \A j \in FlowKeys : sts[j] # None => n \notin Packets(sts[j])
      /\ \A r \in out : n \notin Packets(r.session)
  BY Zenon DEF Covers
<1>2. Packets(new[k]) = {n} \cup old /\ new[k] # None /\ \A j \in FlowKeys \ {k} : new[j] = sts[j]
  BY Zenon DEF Gains
<1>3. /\ \A j \in FlowKeys \ {k} : sts[j] # None => old \cap Packets(sts[j]) = {}
      /\ \A r \in out : old \cap Packets(r.session) = {}
  BY Zenon DEF Apart
<1>4. /\ \A j \in FlowKeys \ {k} : new[j] # None => Packets(new[k]) \cap Packets(new[j]) = {}
      /\ \A r \in out : Packets(new[k]) \cap Packets(r.session) = {}
  BY <1>1, <1>2, <1>3, Zenon
<1> HIDE DEF old
<1>5. Apart(new, out)
  <2>1. ASSUME NEW i \in FlowKeys, NEW j \in FlowKeys, new[i] # None, new[j] # None, i # j
        PROVE  Packets(new[i]) \cap Packets(new[j]) = {}
    <3>1. CASE i = k
      BY <2>1, <3>1, <1>4, Zenon
    <3>2. CASE j = k
      BY <2>1, <3>2, <1>4, Zenon
    <3>3. CASE i # k /\ j # k
      BY <2>1, <3>3, <1>2, Zenon DEF Apart
    <3>4. QED
      BY <3>1, <3>2, <3>3, Zenon
  <2>2. \A j \in FlowKeys : new[j] # None => new[j].packets[0] \cap new[j].packets[1] = {}
    BY <1>2, Zenon DEF Apart, Gains
  <2>3. \A j \in FlowKeys, r \in out : new[j] # None => Packets(new[j]) \cap Packets(r.session) = {}
    BY <1>2, <1>4, Zenon DEF Apart
  <2>4. QED
    BY <2>1, <2>2, <2>3, Zenon DEF Apart
<1>6. Covers(new, out, counted \cup {n})
  <2>1. \A p : (\E j \in FlowKeys : new[j] # None /\ p \in Packets(new[j]))
             <=> p = n \/ \E j \in FlowKeys : sts[j] # None /\ p \in Packets(sts[j])
    BY <1>2, Zenon DEF old
  <2>2. QED
    BY <2>1, Zenon DEF Covers
<1>7. QED
  BY <1>5, <1>6, Zenon

Put(sts, k, st) == [sts EXCEPT ![k] = st]

LEMMA PutSession ==
    ASSUME NEW sts, SessionsOK(sts), NEW k \in FlowKeys, NEW st, SessionOK(k, st)
    PROVE  /\ SessionsOK(Put(sts, k, st)) /\ Put(sts, k, st)[k] = st /\ st # None
           /\ \A j \in FlowKeys \ {k} : Put(sts, k, st)[j] = sts[j]
<1>1. st \in Session /\ st # None
  BY FlowAssumption, Zenon DEF SessionOK
<1>2. QED
  BY <1>1, Zenon DEF SessionsOK, Put

\* Schedule keeps the queue in step with the session.
LEMMA AccountQueues ==
    ASSUME Inv, step = "decide", Key # None
    PROVE  LET new == Scheduled(Key, Heard)
               all == ScheduledScopes(Key, Heard)
               sts == Put(states, Key, new)
           IN  /\ ScopesOK(all) /\ SessionsOK(sts) /\ QueuesOK(all, sts)
               /\ SameCounts(Heard, new) /\ SessionOK(Key, new)
<1> DEFINE new == Scheduled(Key, Heard)
           all == ScheduledScopes(Key, Heard)
           sts == Put(states, Key, new)
           i == InterfaceOf[Key]
<1>1. pending # None /\ section = pending.section /\ scopes[pending.input.interface] # None
  BY Zenon DEF Inv, CallOK
<1>2. Key \in FlowKeys /\ i \in Interfaces /\ scopes[i] # None
  BY <1>1, PendingFacts, Zenon
<1>3. /\ Heard \in Session /\ Heard.scheduled = Target.scheduled /\ Heard.queued = Target.queued
      /\ Heard.scheduled => Heard.last_timestamp \in Int /\ Heard.queued <= Deadline(Key, Heard)
      /\ Key \notin Active => ~Target.scheduled
  BY <1>1, HeardFacts, Zenon DEF CountedAs
<1>4. /\ SessionOK(Key, new) /\ SameCounts(Heard, new)
      /\ new.scheduled = Expires(Key, Heard)
      /\ new.queued = IF Expires(Key, Heard) /\ ~Heard.scheduled THEN Deadline(Key, Heard) ELSE Heard.queued
  BY <1>2, <1>3, ScheduledKeeps, Zenon
<1> HIDE DEF new
<1>5. SessionsOK(sts) /\ sts[Key] = new /\ new # None /\ \A j \in FlowKeys \ {Key} : sts[j] = states[j]
  BY <1>2, <1>4, PutSession DEF Inv
<1>6. Entry(states, Key) = IF Heard.scheduled THEN {<<Heard.queued, Key>>} ELSE {}
  BY <1>2, <1>3, Zenon DEF Entry, Active, Target
<1>7. Entry(sts, Key) = IF Expires(Key, Heard) THEN {<<new.queued, Key>>} ELSE {}
  BY <1>4, <1>5, Zenon DEF Entry
<1>8. ScopesOK(scopes) /\ QueuesOK(scopes, states) /\ scopes[i].expiry = Entries(scopes, i)
  BY <1>2, Zenon DEF Inv, Entries
<1> HIDE DEF sts, i
<1>9. /\ ScopesOK(all) /\ \A j \in Interfaces \ {i} : Entries(all, j) = Entries(scopes, j)
      /\ Entries(all, i) = (Entries(scopes, i) \ Entry(states, Key)) \cup Entry(sts, Key)
  <2>1. CASE ~Expires(Key, Heard)
    <3>1. all = Unscheduled(scopes, Key, Heard)
      BY <2>1, Zenon DEF ScheduledScopes
    <3> HIDE DEF all
    <3>2. /\ ScopesOK(all) /\ \A j \in Interfaces \ {i} : Entries(all, j) = Entries(scopes, j)
          /\ Entries(all, i) = Entries(scopes, i) \ (IF Heard.scheduled THEN {<<Heard.queued, Key>>} ELSE {})
      BY <1>2, <1>8, <3>1, UnscheduledKeeps DEF i
    <3>3. QED
      BY <2>1, <3>2, <1>6, <1>7, Zenon
  <2>2. CASE Expires(Key, Heard) /\ Heard.scheduled
    <3>1. all = scopes
      BY <2>2, Zenon DEF ScheduledScopes
    <3>2. Entry(sts, Key) = Entry(states, Key)
      BY <2>2, <1>4, <1>6, <1>7, Zenon
    <3>3. Entry(states, Key) \subseteq Entries(scopes, i)
      BY <1>2, <1>8, ScheduledScope, Zenon DEF Entry, Entries, i
    <3>4. QED
      BY <1>8, <3>1, <3>2, <3>3, Zenon
  <2>3. CASE Expires(Key, Heard) /\ ~Heard.scheduled
    <3> DEFINE q == Entries(scopes, i) \cup {<<Deadline(Key, Heard), Key>>}
    <3>1. all = Requeued(scopes, i, q)
      BY <2>3, <1>8, Zenon DEF ScheduledScopes, Requeued, i
    <3>2. Deadline(Key, Heard) \in Int
      BY <2>3, <1>4, Zenon DEF SessionOK, Session
    <3>3. q \subseteq Int \X FlowKeys
      BY <1>2, <1>8, <3>2, EntriesType
    <3>4. Entry(states, Key) = {} /\ Entry(sts, Key) = {<<Deadline(Key, Heard), Key>>}
      BY <2>3, <1>4, <1>6, <1>7, Zenon
    <3> HIDE DEF all, q
    <3>5. /\ ScopesOK(all) /\ Entries(all, i) = q
          /\ \A j \in Interfaces \ {i} : Entries(all, j) = Entries(scopes, j)
      BY <1>2, <1>8, <3>1, <3>3, QueueChange
    <3>6. QED
      BY <3>4, <3>5, Zenon DEF q
  <2>4. QED
    BY <2>1, <2>2, <2>3, Zenon
<1> HIDE DEF all
<1>10. Replaces(scopes, states, all, sts, Key)
  BY <1>5, <1>9, Zenon DEF Replaces, i
<1>11. QueuesOK(all, sts)
  BY <1>2, <1>8, <1>10, ReplacesKeeps, Zenon
<1>12. QED
  BY <1>4, <1>5, <1>9, <1>11, Zenon DEF all, sts, new

LEMMA AccountCounts ==
    ASSUME Inv, step = "decide", Key # None, NEW new, SameCounts(Heard, new), new # None,
           NEW sts, sts[Key] = new, \A j \in FlowKeys \ {Key} : sts[j] = states[j]
    PROVE  Counts(sts, rows, owed, section, count)
<1>1. pending # None /\ section = pending.section
  BY Zenon DEF Inv, CallOK
<1>2. Key \in FlowKeys /\ pending.number = count /\ count \in owed
  BY <1>1, PendingFacts, Zenon
<1>3. /\ Target \in Session /\ CountedAs(Target, pending, Heard) /\ Heard.section = section
      /\ Target.missing_timestamps <= count - 1 /\ Target.missing_timestamps \in Nat
      /\ Key \notin Active => Packets(Target) = {}
  BY <1>1, HeardFacts, Zenon
<1>4. CountedNow = owed \ {count} /\ UsedUp = count - 1 /\ count \in Nat
  BY <1>1, <1>2 DEF CountedNow, UsedUp, Inv, CallOK
<1>5. Packets(Target) = IF states[Key] = None THEN {} ELSE Packets(states[Key])
  BY <1>2, <1>3, Zenon DEF Target, Active
<1>6. count \notin Packets(Target) /\ Target.packets[0] \cap Target.packets[1] = {}
  <2>1. CASE states[Key] = None
    BY <2>1, <1>5, Zenon DEF Packets
  <2>2. CASE states[Key] # None
    <3>1. Target = states[Key]
      BY <2>2, <1>2, Zenon DEF Target, Active
    <3>2. count \notin CountedNow
      BY <1>4, Zenon
    <3>3. QED
      BY <2>2, <3>1, <3>2, <1>2, Zenon DEF Inv, Apart, Covers
  <2>3. QED
    BY <2>1, <2>2, Zenon
<1>7. /\ new.packets[0] \cap new.packets[1] = {} /\ Packets(new) = {count} \cup Packets(Target)
  <2>1. PICK side \in {0, 1} : new.packets = [Target.packets EXCEPT ![side] = @ \cup {count}]
    BY <1>2, <1>3, Zenon DEF CountedAs, SameCounts
  <2>2. Target.packets \in [{0, 1} -> SUBSET Nat]
    BY <1>3, Zenon DEF Session
  <2>3. CASE side = 0
    <3>1. new.packets[0] = Target.packets[0] \cup {count} /\ new.packets[1] = Target.packets[1]
      BY <2>1, <2>2, <2>3
    <3>2. QED
      BY <3>1, <1>6, Zenon DEF Packets
  <2>4. CASE side = 1
    <3>1. new.packets[1] = Target.packets[1] \cup {count} /\ new.packets[0] = Target.packets[0]
      BY <2>1, <2>2, <2>4
    <3>2. QED
      BY <3>1, <1>6, Zenon DEF Packets
  <2>5. QED
    BY <2>3, <2>4, Zenon
<1>8. Gains(states, sts, Key, count)
  BY <1>5, <1>7, Zenon DEF Gains
<1>9. Apart(sts, rows) /\ Covers(sts, rows, CountedNow \cup {count})
  <2>1. Apart(states, rows) /\ Covers(states, rows, CountedNow) /\ count \notin CountedNow
    BY <1>4, Zenon DEF Inv
  <2>2. QED
    BY <1>2, <1>8, <2>1, GainsKeeps, Zenon
<1>10. CountedNow \cup {count} = owed
  BY <1>2, <1>4, Zenon
<1>11. Present(sts, section, count)
  <2>1. new.section = section /\ new.missing_timestamps \in Nat /\ new.missing_timestamps <= count
    <3>1. Heard.missing_timestamps \in Nat /\ Heard.missing_timestamps <= Target.missing_timestamps + 1
      BY <1>3, Zenon DEF CountedAs, Session
    <3>2. QED
      BY <3>1, <1>3, <1>4 DEF SameCounts
  <2>2. ASSUME NEW j \in FlowKeys \ {Key}, states[j] # None
        PROVE  states[j].section = section /\ states[j].missing_timestamps <= count
    <3>1. states[j].section = section /\ states[j].missing_timestamps <= count - 1
      BY <1>4, <2>2, Zenon DEF Inv, Present
    <3>2. states[j].missing_timestamps \in Nat
      BY <2>2, Zenon DEF Inv, SessionsOK, Session
    <3>3. QED
      BY <3>1, <3>2, <1>4
  <2>3. QED
    BY <2>1, <2>2, Zenon DEF Present
<1>12. QED
  BY <1>9, <1>10, <1>11, Zenon DEF Counts

LEMMA AccountInv == ASSUME Inv, Account PROVE Inv'
<1> DEFINE new == Scheduled(Key, Heard)
           all == ScheduledScopes(Key, Heard)
           sts == Put(states, Key, new)
<1>1. /\ step = "decide" /\ Key # None /\ (Key \in Active \/ Cardinality(Active) < max_flows)
      /\ pending' = None /\ UNCHANGED <<count, owed, section, have_section, finishing>>
      /\ \/ Emit(all, sts, Key, "reset")
         \/ states' = sts /\ scopes' = all /\ more' = FALSE /\ step' = "ready" /\ rows' = rows
  BY Zenon DEF Account, Decide, NoRow, Heard, Target, Put, sectionVars
<1>2. /\ ScopesOK(all) /\ SessionsOK(sts) /\ QueuesOK(all, sts)
      /\ SameCounts(Heard, new) /\ SessionOK(Key, new)
  BY <1>1, AccountQueues, Zenon
<1>3. pending # None /\ ~finishing /\ have_section
  BY <1>1, Zenon DEF Inv, CallOK
<1>4. Key \in FlowKeys
  BY <1>1, <1>3, PendingFacts, Zenon
<1> HIDE DEF new, all
<1>5. sts[Key] = new /\ new # None /\ \A j \in FlowKeys \ {Key} : sts[j] = states[j]
  BY <1>2, <1>4, PutSession DEF Inv
<1> HIDE DEF sts
<1>6. Counts(sts, rows, owed, section, count)
  BY <1>1, <1>2, <1>5, AccountCounts, Zenon
<1>7. /\ ScopesOK(scopes') /\ SessionsOK(states') /\ QueuesOK(scopes', states')
      /\ Counts(states', rows', owed, section, count) /\ ActiveIn(states') \subseteq ActiveIn(sts)
      /\ step' = "ready"
  <2>1. CASE Emit(all, sts, Key, "reset")
    <3>1. step' = "ready"
      BY <2>1, Zenon DEF Emit
    <3>2. QED
      BY <2>1, <3>1, <1>2, <1>4, <1>5, <1>6, EmitFacts, Zenon DEF Counts
  <2>2. CASE states' = sts /\ scopes' = all /\ more' = FALSE /\ step' = "ready" /\ rows' = rows
    BY <2>2, <1>2, <1>6, Zenon
  <2>3. QED
    BY <1>1, <2>1, <2>2, Zenon
<1>8. CountedNow' = owed /\ UsedUp' = count
  BY <1>1, Zenon DEF CountedNow, UsedUp
<1>9. Cardinality(Active') <= max_flows
  <2>1. ActiveIn(sts) = Active \cup {Key} /\ Active' = ActiveIn(states') /\ Active = ActiveIn(states)
    BY <1>4, <1>5, Zenon DEF ActiveIn, Active
  <2>2. IsFiniteSet(Active) /\ Cardinality(Active) \in Nat
    BY <2>1, ActiveFinite, Zenon
  <2>3. Cardinality(Active) <= max_flows /\ max_flows \in Nat
    BY FlowAssumption, Zenon DEF Inv, CallOK
  <2>4. Cardinality(Active \cup {Key}) <= max_flows
    <3>1. CASE Key \in Active
      <4>1. Active \cup {Key} = Active
        BY <3>1, Zenon
      <4>2. QED
        BY <2>3, <4>1, Zenon
    <3>2. CASE Key \notin Active
      <4>1. Cardinality(Active \cup {Key}) = Cardinality(Active) + 1
        BY <2>2, <3>2, FS_AddElement, Zenon
      <4>2. QED
        BY <1>1, <2>2, <2>3, <3>2, <4>1
    <3>3. QED
      BY <3>1, <3>2, Zenon
  <2>5. /\ Cardinality(ActiveIn(states')) <= Cardinality(ActiveIn(sts))
        /\ Cardinality(ActiveIn(states')) \in Nat /\ Cardinality(ActiveIn(sts)) \in Nat
    BY <1>7, ActiveFinite, Zenon
  <2>6. QED
    BY <2>1, <2>3, <2>4, <2>5
<1>10. CallOK'
  BY <1>1, <1>3, <1>7, <1>9, Zenon DEF Inv, CallOK
<1>11. QED
  BY <1>1, <1>7, <1>8, <1>10, InvPartsNext, Zenon

LEMMA NextInv == ASSUME Inv, [Next]_vars PROVE Inv'
<1>1. CASE UNCHANGED vars
  <2>1. CountedNow' = CountedNow /\ UsedUp' = UsedUp /\ CallOK' /\ UNCHANGED <<states, scopes, rows, section>>
    BY <1>1, Zenon DEF vars, CountedNow, UsedUp, Inv, CallOK, Key, Active
  <2>2. QED
    BY <2>1, TableSame, Zenon DEF Inv
<1>2. CASE \E in \in Inputs : \E t \in Stamps[in], s \in 1..SectionMax : Push(in, t, s)
  <2>1. PICK in \in Inputs : \E t \in Stamps[in], s \in 1..SectionMax : Push(in, t, s)
    BY <1>2, Zenon
  <2>2. PICK t \in Stamps[in], s \in 1..SectionMax : Push(in, t, s)
    BY <2>1, Zenon
  <2>3. t \in FlowTimes \cup {NoTime}
    BY FlowAssumption
  <2>4. QED
    BY <2>2, <2>3, PushInv, Zenon
<1>3. CASE \E s \in 1..SectionMax : FinishCalled(s)
  BY <1>3, FinishCalledInv, Zenon
<1>4. CASE Call
  BY <1>4, FinalInv, BoundaryInv, EnterInv, ExpireIdleInv, UsedUpInv, ReuseInv, EvictInv, AccountInv, Zenon DEF Call
<1>5. QED
  BY <1>1, <1>2, <1>3, <1>4, Zenon DEF Next, Finished

LEMMA Invariant == Spec => []Inv
<1>1. Init => Inv
  BY InitInv, Zenon
<1>2. Inv /\ [Next]_vars => Inv'
  BY NextInv, Zenon
<1>3. QED
  BY <1>1, <1>2, PTL DEF Spec

-----------------------------------------------------------------------------
(* The theorems. *)

LEMMA InvQueue == ASSUME Inv PROVE QueueExact
<1>1. /\ states \in [FlowKeys -> Session \cup {None}] /\ scopes \in [Interfaces -> ScopeType \cup {None}]
      /\ count \in Nat /\ UsedUp \in Int /\ UsedUp <= count /\ CountedNow \subseteq 1..count
  <2>1. count \in Nat /\ owed \subseteq 1..count
    BY DEF Inv, CallOK
  <2>2. UsedUp \in Int /\ UsedUp <= count /\ CountedNow \subseteq owed
    BY <2>1 DEF UsedUp, CountedNow
  <2>3. QED
    BY <2>1, <2>2, Zenon DEF Inv, SessionsOK, ScopesOK
<1>2. \A k \in Active : k \in FlowKeys /\ states[k] # None /\ states[k] \in Session /\ SessionOK(k, states[k])
  BY Zenon DEF Active, Inv, SessionsOK
<1>3. TypeOK
  <2>1. \A k \in Active : states[k].section = section /\ Packets(states[k]) \subseteq 1..count
    BY <1>1, <1>2, Zenon DEF Inv, Present, Covers
  <2>2. ASSUME NEW k \in Active PROVE states[k].missing_timestamps \in 0..count
    <3>1. states[k].missing_timestamps \in Nat /\ states[k].missing_timestamps <= UsedUp
      BY <1>2, Zenon DEF Inv, Present, Session
    <3>2. QED
      BY <1>1, <3>1
  <2>3. QED
    BY <1>1, <2>1, <2>2, Zenon DEF TypeOK, Inv, CallOK
<1>4. \A i \in Interfaces :
        (IF scopes[i] = None THEN {} ELSE scopes[i].expiry)
            = {<<states[k].queued, k>> : k \in {j \in Active : InterfaceOf[j] = i /\ states[j].scheduled}}
  <2>1. \A i : {j \in Active : InterfaceOf[j] = i /\ states[j].scheduled} = Timed(states, i)
    BY DEF Active, Timed
  <2>2. QED
    BY <2>1, Zenon DEF Inv, QueuesOK, Entries, EntriesOf
<1>5. \A k \in Active : states[k].scheduled =>
        states[k].queued <= states[k].deadline /\ states[k].deadline = Deadline(k, states[k])
  BY <1>2, Zenon DEF SessionOK
<1>6. QueueConsistent
  BY <1>3, <1>4, <1>5, Zenon DEF QueueConsistent
<1>7. ASSUME Decide, NEW k \in Active, InterfaceOf[k] = pending.input.interface, states[k].scheduled,
             Scope.watermark # NoTime
      PROVE  states[k].deadline >= Scope.watermark
  <2> DEFINE i == pending.input.interface
             e == <<states[k].queued, k>>
             f == First(Scope.expiry)
  <2>1. k \in FlowKeys /\ states[k] # None /\ i \in Interfaces
    BY <1>2, <1>7, InterfaceType, Zenon
  <2>2. scopes[i] # None /\ e \in Scope.expiry /\ Scope.expiry = Entries(scopes, i)
    BY <2>1, <1>7, ScheduledScope, Zenon DEF Inv, Scope, Entries
  <2>3. Scope.watermark \in Int
    BY <1>1, <1>7, <2>1, <2>2, Zenon DEF Scope, ScopeType
  <2>4. Scope.expiry \subseteq Int \X FlowKeys /\ IsFiniteSet(Scope.expiry)
    BY <2>1, <2>2, QueueEntries, Zenon DEF Inv
  <2>5. f \in Scope.expiry /\ \A g \in Scope.expiry \ {f} : Before(f, g)
    BY <2>2, <2>4, FirstEntry, Zenon
  <2>6. ~(f[1] < Scope.watermark)
    BY <1>7, <2>2, Zenon DEF Decide, Overdue
  <2> HIDE DEF f
  <2>7. f[1] \in Int /\ states[k].queued \in Int /\ states[k].deadline \in Int /\ states[k].queued <= states[k].deadline
    BY <1>2, <1>7, <2>4, <2>5, EntryNumbers, Zenon DEF SessionOK, Session
  <2>8. f[1] <= states[k].queued
    BY <2>2, <2>5, <2>7 DEF Before
  <2>9. QED
    BY <2>3, <2>6, <2>7, <2>8
<1>8. NeverOverdue
  BY <1>7, Zenon DEF NeverOverdue
<1>9. QED
  BY <1>6, <1>8, Zenon DEF QueueExact

\* The deadline queues of read_flows always agree with its sessions: each holds exactly
\* the sessions that Schedule queued, once, no later than their real deadline, and when
\* Next counts a record no session of its interface is overdue.
THEOREM QueuesAgree == Spec => []QueueExact
<1>1. Inv => QueueExact
  BY InvQueue, Zenon
<1>2. QED
  BY <1>1, Invariant, PTL

LEMMA InvCounted == ASSUME Inv PROVE CountedOnce
<1> DEFINE sessions == {states[k] : k \in Active} \cup {r.session : r \in rows}
<1>1. \A a \in sessions : \/ \E k \in FlowKeys : states[k] # None /\ a = states[k]
                          \/ \E r \in rows : a = r.session
  BY DEF Active
<1>2. ASSUME NEW a \in sessions, NEW b \in sessions, a # b PROVE Packets(a) \cap Packets(b) = {}
  <2>1. CASE /\ \E k \in FlowKeys : states[k] # None /\ a = states[k]
             /\ \E j \in FlowKeys : states[j] # None /\ b = states[j]
    BY <1>2, <2>1, Zenon DEF Inv, Apart
  <2>2. CASE /\ \E k \in FlowKeys : states[k] # None /\ a = states[k]
             /\ \E r \in rows : b = r.session
    BY <2>2, Zenon DEF Inv, Apart
  <2>3. CASE /\ \E r \in rows : a = r.session
             /\ \E k \in FlowKeys : states[k] # None /\ b = states[k]
    BY <2>3, Zenon DEF Inv, Apart
  <2>4. CASE (\E q \in rows : a = q.session) /\ (\E r \in rows : b = r.session)
    BY <1>2, <2>4, Zenon DEF Inv, Apart
  <2>5. QED
    BY <1>1, <2>1, <2>2, <2>3, <2>4, Zenon
<1>3. \A a \in sessions : a.packets[0] \cap a.packets[1] = {}
  BY <1>1, Zenon DEF Inv, Apart
<1>4. \A k \in Active, r \in rows : Packets(states[k]) \cap Packets(r.session) = {}
  BY Zenon DEF Active, Inv, Apart
<1>5. UNION {Packets(a) : a \in sessions} = CountedNow
  <2>1. \A n : (\E a \in sessions : n \in Packets(a)) <=> n \in CountedNow
    BY Zenon DEF Active, Inv, Covers
  <2>2. QED
    BY <2>1, Zenon
<1>6. Done /\ step # "thrown" => Active = {} /\ scopes = NoScopes /\ pending = None
  BY Zenon DEF Done, Inv, CallOK
<1>7. QED
  BY <1>2, <1>3, <1>4, <1>5, <1>6, Zenon DEF CountedOnce, CountedNow

\* Every eligible record that was pushed is counted by one session, on one side, through
\* expiry, eviction, tuple reuse, resets and section boundaries; after Finish all of them
\* are in rows and nothing is left in the table.
THEOREM RecordsCounted == Spec => []CountedOnce
<1>1. Inv => CountedOnce
  BY InvCounted, Zenon
<1>2. QED
  BY <1>1, Invariant, PTL

LEMMA EmittedRow ==
    ASSUME NEW all, NEW sts, NEW k, NEW reason, Emit(all, sts, k, reason), NEW r \in rows' \ rows
    PROVE  r.key = k /\ r.finalized_by = reason
BY DEF Emit

\* Only Evict returns a row for want of room.
LEMMA LimitRows ==
    ASSUME Inv, [Next]_vars, NEW r \in rows' \ rows, r.finalized_by = "limit"
    PROVE  Evict
<1>1. CASE Final
  BY <1>1, EmittedRow DEF Final
<1>2. CASE Boundary
  BY <1>2, EmittedRow DEF Boundary
<1>3. CASE ExpireIdle
  BY <1>3, EmittedRow DEF ExpireIdle
<1>4. CASE Reuse
  BY <1>4, EmittedRow DEF Reuse
<1>5. CASE Account
  <2>1. rows' = rows \/ \E all, sts : Emit(all, sts, Key, "reset")
    BY <1>5, Zenon DEF Account
  <2>2. QED
    BY <2>1, EmittedRow
<1>6. CASE Enter \/ Ineligible \/ Nothing \/ Finished \/ UNCHANGED vars
  BY <1>6, Zenon DEF Enter, Ineligible, Nothing, Finished, vars
<1>7. CASE \E in \in Inputs : \E t \in Stamps[in], s \in 1..SectionMax : Push(in, t, s)
  BY <1>7, Zenon DEF Push
<1>8. CASE \E s \in 1..SectionMax : FinishCalled(s)
  BY <1>8, Zenon DEF FinishCalled
<1>9. QED
  BY <1>1, <1>2, <1>3, <1>4, <1>5, <1>6, <1>7, <1>8, Zenon DEF Next, Call

LEMMA NearestStep ==
    ASSUME Inv, [Next]_vars, NEW r \in rows' \ rows, r.finalized_by = "limit"
    PROVE  LET timed == {k \in Active : states[k].scheduled}
               here == {k \in timed : InterfaceOf[k] = pending.input.interface}
               candidates == IF here # {} THEN here ELSE timed
           IN  candidates # {} => /\ r.key \in candidates
                                  /\ \A k \in candidates : states[r.key].deadline <= states[k].deadline
<1> DEFINE i == pending.input.interface
           timed == {k \in Active : states[k].scheduled}
           here == {k \in timed : InterfaceOf[k] = i}
           candidates == IF here # {} THEN here ELSE timed
<1>1. Evict
  BY LimitRows, Zenon
<1>2. PICK looked \in SUBSET Interfaces, k \in FlowKeys :
          /\ looked = (IF Scope.expiry # {} THEN {i} ELSE Interfaces)
          /\ k = IF LookedEntries(looked) = {} THEN Min(Active) ELSE First(LookedEntries(looked))[2]
          /\ Emit(RefreshedScopes(looked), RefreshedStates(looked), k, "limit")
  BY <1>1, EvictFacts, Zenon
<1>3. r.key = k
  BY <1>2, EmittedRow
<1>4. Table /\ looked \subseteq Interfaces
  BY Zenon DEF Table, Inv
<1>5. pending # None /\ i \in Interfaces /\ scopes[i] # None
  BY <1>1, PendingFacts, Zenon DEF Inv, CallOK, Evict, Decide
<1>6. here = Timed(states, i) /\ \A j \in FlowKeys : j \in timed <=> j \in Timed(states, InterfaceOf[j])
  BY Zenon DEF Timed, Active
<1>7. Scope.expiry # {} <=> here # {}
  <2>1. Entries(scopes, i) = {} <=> Timed(states, i) = {}
    BY <1>5, QueueEntries, Zenon DEF Inv
  <2>2. QED
    BY <2>1, <1>5, <1>6, Zenon DEF Scope, Entries
<1>8. \A j \in FlowKeys : j \in candidates <=> \E h \in looked : j \in Timed(states, h)
  <2>1. CASE here # {}
    BY <2>1, <1>2, <1>6, <1>7, Zenon
  <2>2. CASE here = {}
    <3>1. looked = Interfaces /\ candidates = timed
      BY <2>2, <1>2, <1>7, Zenon
    <3>2. \A j \in FlowKeys, h \in Interfaces : j \in Timed(states, h) => InterfaceOf[j] = h
      BY Zenon DEF Timed
    <3>3. QED
      BY <3>1, <3>2, <1>6, InterfaceType, Zenon
  <2>3. QED
    BY <2>1, <2>2, Zenon
<1>9. candidates \subseteq FlowKeys
  BY Zenon DEF Active
<1> HIDE DEF candidates
<1>10. ASSUME candidates # {}
       PROVE  k \in candidates /\ \A j \in candidates : states[k].deadline <= states[j].deadline
  <2>1. LookedEntries(looked) # {}
    BY <1>4, <1>8, <1>9, <1>10, NearestVictim
  <2>2. k = First(LookedEntries(looked))[2]
    BY <1>2, <2>1, Zenon
  <2>3. /\ states[k] # None /\ states[k].scheduled /\ InterfaceOf[k] \in looked
        /\ \A h \in looked : \A j \in Timed(states, h) : states[k].deadline <= states[j].deadline
    BY <1>4, <2>1, <2>2, NearestVictim, Zenon
  <2>4. k \in Timed(states, InterfaceOf[k])
    BY <2>3, Zenon DEF Timed
  <2>5. QED
    BY <1>8, <1>9, <2>3, <2>4, Zenon
<1>11. QED
  BY <1>3, <1>10, Zenon DEF candidates

\* A full table always gives up the session with the earliest real deadline on the
\* record's interface, or else on any interface, whatever the queues still say.
THEOREM NearestGivenUp == Spec => EvictsNearest
<1> DEFINE Step == \A r \in rows' \ rows : r.finalized_by = "limit" =>
                       LET timed == {k \in Active : states[k].scheduled}
                           here == {k \in timed : InterfaceOf[k] = pending.input.interface}
                           candidates == IF here # {} THEN here ELSE timed
                       IN  candidates # {} => /\ r.key \in candidates
                                              /\ \A k \in candidates : states[r.key].deadline <= states[k].deadline
<1>1. Inv /\ [Next]_vars => Step
  BY NearestStep, Zenon
<1>2. EvictsNearest <=> [][Step]_vars
  BY DEF EvictsNearest
<1> HIDE DEF Step
<1>3. QED
  BY <1>1, <1>2, Invariant, PTL DEF Spec
=============================================================================
