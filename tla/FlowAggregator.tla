--------------------------- MODULE FlowAggregator ---------------------------
(***************************************************************************)
(* The session table of read_flows.  The scan pushes one record and calls  *)
(* Next() until it returns no row; each call emits at most one session.  A *)
(* call is one or two steps that nothing interrupts: Enter (the section,   *)
(* the interface's clock, the refreshed queue) and then its outcome.       *)
(*                                                                         *)
(* Abstracted: a session key is a number in the keys' order, with its      *)
(* interface and transport; the counters of a side are the set of packet   *)
(* numbers it has counted.  Source: src/src/flow_aggregator.cpp.           *)
(***************************************************************************)
EXTENDS FlowSession, FiniteSets, FiniteSetsExt

CONSTANTS
    FlowKeys, Interfaces, InterfaceOf, TcpKeys,   \* keys are naturals; TcpKeys the TCP ones
    Inputs,             \* what a record may hold, see InputType
    FlowTimes, TimeMax,
    Stamps,             \* bound: the times each input is pushed with
    tcp_idle_us, udp_idle_us, max_flows, max_scopes,
    SectionMax,         \* bound: sections of the capture
    MaxRecords,         \* bound: records of the capture
    None

\* An ineligible record has key None; the others a direction, TCP flags and numbers.
InputType == [key : FlowKeys \cup {None}, interface : Interfaces, low : BOOLEAN,
              flags : SUBSET {"S", "A", "F", "R"}, seq : 0..SeqSpace - 1, ack : 0..SeqSpace - 1,
              payload : BOOLEAN]

\* The clock and the queue of an interface (Scope), and a record not yet used up.
ScopeType == [watermark : Int \cup {NoTime}, expiry : SUBSET (Int \X FlowKeys)]
PendingType == [input : Inputs, time : FlowTimes \cup {NoTime}, section : 1..SectionMax, number : Nat]

ASSUME FlowAssumption ==
    /\ FlowKeys \subseteq Nat /\ IsFiniteSet(FlowKeys) /\ TcpKeys \subseteq FlowKeys
    /\ InterfaceOf \in [FlowKeys -> Interfaces] /\ IsFiniteSet(Interfaces)
    /\ Inputs \subseteq InputType /\ \A in \in Inputs : in.key # None => in.interface = InterfaceOf[in.key]
    /\ None \notin FlowKeys \cup Session \cup ScopeType \cup PendingType
    /\ Stamps \in [Inputs -> SUBSET (FlowTimes \cup {NoTime})]
    /\ FlowTimes \subseteq Int /\ TimeMax \in Int /\ \A t \in FlowTimes : t <= TimeMax
    /\ tcp_idle_us \in Nat /\ udp_idle_us \in Nat /\ max_flows \in Nat \ {0} /\ max_scopes \in Nat \ {0}
    /\ SectionMax \in Nat /\ MaxRecords \in Nat

VARIABLES
    states,         \* [FlowKeys -> a session, or None]
    scopes,         \* [Interfaces -> [watermark, expiry], or None]
    pending,        \* pending_input, or None
    prepared, late, section, have_section, finishing, final_section,
    step,           \* "ready", or "decide" between the two steps of a call, or "thrown"
    more,           \* whether the last call returned a row, so that another must follow
    count,          \* records pushed
    owed,           \* the numbers of the eligible ones (not in the code, for the properties)
    rows            \* the sessions emitted

vars == <<states, scopes, pending, prepared, late, section, have_section, finishing, final_section,
          step, more, count, owed, rows>>
inputVars == <<pending, prepared, late, count, owed>>
sectionVars == <<section, have_section, finishing, final_section>>

Active == {k \in FlowKeys : states[k] # None}
Timeout(k) == IF k \in TcpKeys THEN tcp_idle_us ELSE udp_idle_us
NewScope == [watermark |-> NoTime, expiry |-> {}]
NoScopes == [i \in Interfaces |-> None]

Init ==
    /\ states = [k \in FlowKeys |-> None] /\ scopes = NoScopes
    /\ pending = None /\ prepared = FALSE /\ late = FALSE /\ count = 0 /\ owed = {}
    /\ section = 0 /\ have_section = FALSE /\ finishing = FALSE /\ final_section = 0
    /\ step = "ready" /\ more = FALSE /\ rows = {}

-----------------------------------------------------------------------------
(* The queue of idle deadlines. *)

Before(e, f) == e[1] < f[1] \/ (e[1] = f[1] /\ e[2] < f[2])
First(entries) == CHOOSE e \in entries : \A f \in entries \ {e} : Before(e, f)
Queued(i) == IF scopes[i] = None THEN {} ELSE {e[2] : e \in scopes[i].expiry}

\* The entries Refresh moves: it takes them off the front until the front entry is at
\* its session's real deadline, which is then the earliest real deadline of all.
Stale(i) ==
    LET real == {<<states[k].deadline, k>> : k \in Queued(i)}
    IN  {k \in Queued(i) : Before(<<states[k].queued, k>>, First(real))}

RefreshedScope(i) ==
    IF scopes[i] = None THEN None
    ELSE [scopes[i] EXCEPT !.expiry = {IF e[2] \in Stale(i) THEN <<states[e[2]].deadline, e[2]>> ELSE e : e \in @}]
RefreshedState(k, interfaces) ==
    IF \E i \in interfaces : k \in Stale(i) THEN [states[k] EXCEPT !.queued = states[k].deadline] ELSE states[k]

\* Unschedule: a scope stays when its last entry goes.
Unscheduled(all, k, st) ==
    IF ~st.scheduled THEN all
    ELSE [all EXCEPT ![InterfaceOf[k]].expiry = @ \ {<<st.queued, k>>}]

\* Emit: the session leaves the table and its row is returned.
Emit(all, sts, k, reason) ==
    /\ rows' = rows \cup {[key |-> k, session |-> sts[k], finalized_by |-> reason]}
    /\ scopes' = Unscheduled(all, k, sts[k])
    /\ states' = [sts EXCEPT ![k] = None]
    /\ more' = TRUE /\ step' = "ready"

\* The call returned without a row.
NoRow == more' = FALSE /\ step' = "ready"

-----------------------------------------------------------------------------
(* The scan's calls: Push, Finish, and the start of Next. *)

\* Called only when the last Next() returned no row.
Push(in, t, s) ==
    /\ step = "ready" /\ ~more /\ pending = None /\ ~finishing /\ count < MaxRecords
    /\ s >= section
    /\ pending' = [input |-> in, time |-> t, section |-> s, number |-> count + 1]
    /\ prepared' = FALSE /\ count' = count + 1 /\ more' = TRUE
    /\ owed' = IF in.key = None THEN owed ELSE owed \cup {count + 1}
    /\ UNCHANGED <<states, scopes, late, sectionVars, step, rows>>

\* The reader is at the end, which may be in a later section without packets.
FinishCalled(s) ==
    /\ step = "ready" /\ ~more /\ pending = None /\ ~finishing
    /\ s >= section
    /\ finishing' = TRUE /\ final_section' = s /\ more' = TRUE
    /\ UNCHANGED <<states, scopes, inputVars, section, have_section, step, rows>>

Called == step = "ready" /\ more

\* Next() after Finish: the first session, until there is none.
Final ==
    /\ Called /\ finishing
    /\ \/ /\ Active # {}
          /\ Emit(scopes, states, Min(Active), IF final_section = section THEN "eof" ELSE "section_boundary")
       \/ /\ Active = {} /\ scopes' = NoScopes /\ NoRow /\ UNCHANGED <<states, rows>>
    /\ UNCHANGED <<inputVars, sectionVars>>

NewSection == have_section /\ section # pending.section

\* A record of another section first empties the table.
Boundary ==
    /\ Called /\ ~finishing /\ pending # None
    /\ NewSection /\ Active # {}
    /\ Emit(scopes, states, Min(Active), "section_boundary")
    /\ UNCHANGED <<inputVars, sectionVars>>

\* Prepare: the interface's clock after a record stamped t.
Clock(scope, t) ==
    IF t = NoTime THEN scope
    ELSE [scope EXCEPT !.watermark = IF @ = NoTime THEN t ELSE Max({@, t})]

Enter ==
    LET i == pending.input.interface
        current == IF NewSection THEN NoScopes ELSE scopes
        scope == IF current[i] = None THEN NewScope ELSE current[i]
        full == current[i] = None /\ Cardinality({j \in Interfaces : current[j] # None}) >= max_scopes
        clocked == IF prepared THEN scope ELSE Clock(scope, pending.time)
    IN  /\ Called /\ ~finishing /\ pending # None
        /\ NewSection => Active = {}
        /\ section' = pending.section /\ have_section' = TRUE
        /\ \/ /\ ~prepared /\ full      \* "Flow scope capacity exceeded" ends the scan
              /\ step' = "thrown" /\ scopes' = current
              /\ UNCHANGED <<states, prepared, late>>
           \/ /\ prepared \/ ~full
              /\ prepared' = TRUE /\ step' = "decide"
              /\ late' = IF prepared THEN late
                         ELSE pending.time # NoTime /\ scope.watermark # NoTime /\ pending.time < scope.watermark
              /\ scopes' = [current EXCEPT ![i] =
                               IF NewSection THEN clocked
                               ELSE [clocked EXCEPT !.expiry = IF scopes[i] = None THEN {} ELSE RefreshedScope(i).expiry]]
              /\ states' = [k \in FlowKeys |-> IF k \in Active THEN RefreshedState(k, {i}) ELSE None]
        /\ UNCHANGED <<pending, count, owed, finishing, final_section, more, rows>>

-----------------------------------------------------------------------------
(* The outcomes of Next() once the record is entered. *)

Scope == scopes[pending.input.interface]

Overdue == Scope.watermark # NoTime /\ Scope.expiry # {} /\ First(Scope.expiry)[1] < Scope.watermark
Decide == step = "decide" /\ ~Overdue
Key == pending.input.key

\* The earliest session of the interface is idle; the record stays pending.
ExpireIdle ==
    /\ step = "decide" /\ Overdue
    /\ Emit(scopes, states, First(Scope.expiry)[2], "idle_timeout")
    /\ UNCHANGED <<inputVars, sectionVars>>

Ineligible ==
    /\ Decide /\ Key = None
    /\ pending' = None /\ NoRow
    /\ UNCHANGED <<states, scopes, prepared, late, count, owed, sectionVars, rows>>

Reuses ==
    /\ Key \in Active /\ Key \in TcpKeys
    /\ InitiatingSyn(pending.input) /\ Reused(states[Key], pending.input)

\* Mutant of Reuse: the record that shows the reuse is used up.
ReuseConsumes ==
    /\ Decide /\ Key # None /\ Reuses
    /\ Emit(scopes, states, Key, "tuple_reuse")
    /\ pending' = None
    /\ UNCHANGED <<prepared, late, count, owed, sectionVars>>

\* Mutant of Reuse: the row is moved out and what is left of the session stays.
ReuseKeepsSession ==
    /\ Decide /\ Key # None /\ Reuses
    /\ rows' = rows \cup {[key |-> Key, session |-> states[Key], finalized_by |-> "tuple_reuse"]}
    /\ states' = [states EXCEPT ![Key].packets = [side \in 0..1 |-> {}]]
    /\ more' = TRUE /\ step' = "ready"
    /\ UNCHANGED <<scopes, inputVars, sectionVars>>

\* The record stays pending and opens a session of its own in the next call.
Reuse ==
    /\ Decide /\ Key # None /\ Reuses
    /\ Emit(scopes, states, Key, "tuple_reuse")
    /\ UNCHANGED <<inputVars, sectionVars>>

\* Mutant of Evict: the other interfaces' queues are not refreshed before the choice.
EvictStale ==
    LET looked == IF Scope.expiry # {} THEN {pending.input.interface} ELSE Interfaces
        entries == UNION {scopes[i].expiry : i \in {j \in looked : scopes[j] # None}}
        victim == IF entries = {} THEN Min(Active) ELSE First(entries)[2]
    IN  /\ Decide /\ Key # None /\ Key \notin Active
        /\ Cardinality(Active) >= max_flows
        /\ Emit(scopes, states, victim, "limit")
        /\ UNCHANGED <<inputVars, sectionVars>>

\* The table is full: Evictable looks at the record's interface, then at all of them.
Evict ==
    LET here == Scope.expiry # {}
        looked == IF here THEN {pending.input.interface} ELSE Interfaces
        all == [i \in Interfaces |-> IF i \in looked THEN RefreshedScope(i) ELSE scopes[i]]
        sts == [k \in FlowKeys |-> IF k \in Active THEN RefreshedState(k, looked) ELSE None]
        entries == UNION {all[i].expiry : i \in {j \in looked : all[j] # None}}
        victim == IF entries = {} THEN Min(Active) ELSE First(entries)[2]
    IN  /\ Decide /\ Key # None /\ Key \notin Active
        /\ Cardinality(Active) >= max_flows
        /\ Emit(all, sts, victim, "limit")
        /\ UNCHANGED <<inputVars, sectionVars>>

\* Account: the counters and timestamps of a record.
Counted(st, p) ==
    LET side == SideOf(st, p.input)
        counted == [st EXCEPT !.packets[side] = @ \cup {p.number}]
    IN  IF p.time = NoTime THEN [counted EXCEPT !.missing_timestamps = @ + 1]
        ELSE [counted EXCEPT !.last_timestamp = IF @ = NoTime THEN p.time ELSE Max({@, p.time}),
                             !.late_packets = IF late THEN @ + 1 ELSE @]

\* Whether Schedule lets the session expire, and when.
Expires(k, st) ==
    /\ Timeout(k) > 0 /\ st.missing_timestamps = 0 /\ st.last_timestamp # NoTime
    /\ st.last_timestamp <= TimeMax - Timeout(k)

Deadline(k, st) == st.last_timestamp + Timeout(k)

\* Mutant of Scheduled: a queued session forgets the entry it has.
ScheduledAnew(k, st) ==
    IF ~Expires(k, st) THEN [st EXCEPT !.scheduled = FALSE]
    ELSE [st EXCEPT !.scheduled = TRUE, !.deadline = Deadline(k, st), !.queued = Deadline(k, st)]

\* Schedule: a queued session keeps its entry and only records the deadline.
Scheduled(k, st) ==
    IF ~Expires(k, st) THEN [st EXCEPT !.scheduled = FALSE]
    ELSE [st EXCEPT !.scheduled = TRUE, !.deadline = Deadline(k, st),
                    !.queued = IF st.scheduled THEN @ ELSE Deadline(k, st)]
ScheduledScopes(k, st) ==
    IF ~Expires(k, st) THEN Unscheduled(scopes, k, st)
    ELSE IF st.scheduled THEN scopes
    ELSE [scopes EXCEPT ![InterfaceOf[k]].expiry = @ \cup {<<Deadline(k, st), k>>}]

\* The record is accounted; a reset emits its session in the same call.
Account ==
    LET in == pending.input
        old == IF Key \in Active THEN states[Key] ELSE Opened(in, section)
        counted == Counted(old, pending)
        heard == IF Key \in TcpKeys THEN Evidence(counted, in) ELSE counted
        new == Scheduled(Key, heard)
    IN  /\ Decide /\ Key # None /\ ~Reuses
        /\ Key \in Active \/ Cardinality(Active) < max_flows
        /\ \/ /\ new.reset_seen
              /\ Emit(ScheduledScopes(Key, heard), [states EXCEPT ![Key] = new], Key, "reset")
           \/ /\ ~new.reset_seen
              /\ states' = [states EXCEPT ![Key] = new] /\ scopes' = ScheduledScopes(Key, heard)
              /\ NoRow /\ UNCHANGED rows
        /\ pending' = None
        /\ UNCHANGED <<prepared, late, count, owed, sectionVars>>

\* Next() with nothing pending: what the scan calls after a reset's row.
Nothing ==
    /\ Called /\ ~finishing /\ pending = None
    /\ NoRow
    /\ UNCHANGED <<states, scopes, inputVars, sectionVars, rows>>

Done == step = "thrown" \/ (finishing /\ ~more)
Finished == Done /\ UNCHANGED vars

Call == Final \/ Boundary \/ Enter \/ ExpireIdle \/ Ineligible \/ Reuse \/ Evict \/ Account \/ Nothing

Next ==
    \/ \E in \in Inputs : \E t \in Stamps[in], s \in 1..SectionMax : Push(in, t, s)
    \/ \E s \in 1..SectionMax : FinishCalled(s)
    \/ Call
    \/ Finished

Spec == Init /\ [][Next]_vars
\* The scan calls Next() again while it returns rows.
FairSpec == Spec /\ WF_vars(Call)

-----------------------------------------------------------------------------
(* Properties. *)

Packets(st) == st.packets[0] \cup st.packets[1]

\* The table holds at most max_flows sessions, all of the present section, and the
\* pending record is the last one pushed (Push, Open, Next).
TypeOK ==
    /\ states \in [FlowKeys -> Session \cup {None}] /\ scopes \in [Interfaces -> ScopeType \cup {None}]
    /\ \A k \in Active : states[k].section = section /\ Packets(states[k]) \subseteq 1..count
    /\ \A k \in Active : states[k].missing_timestamps \in 0..count
    /\ pending # None => pending \in PendingType /\ pending.number = count
    /\ section \in 0..SectionMax /\ count \in 0..MaxRecords /\ Cardinality(Active) <= max_flows
    /\ step \in {"ready", "decide", "thrown"}

\* What the assertions of Refresh, Schedule, Unschedule and Next rely on: each scope's
\* queue holds exactly its scheduled sessions, once each, no later than their real
\* deadline, which is their last timestamp plus the timeout.
QueueConsistent ==
    /\ TypeOK
    /\ \A i \in Interfaces :
        (IF scopes[i] = None THEN {} ELSE scopes[i].expiry)
            = {<<states[k].queued, k>> : k \in {j \in Active : InterfaceOf[j] = i /\ states[j].scheduled}}
    /\ \A k \in Active : states[k].scheduled =>
        states[k].queued <= states[k].deadline /\ states[k].deadline = Deadline(k, states[k])

\* Every eligible record pushed so far is counted by exactly one session, on one side,
\* whatever was expired, evicted or reused to make way for it; until then it is pending.
\* At the end of the capture all of them are in rows.
CountedOnce ==
    LET sessions == {states[k] : k \in Active} \cup {r.session : r \in rows}
    IN  /\ \A a, b \in sessions : a # b => Packets(a) \cap Packets(b) = {}
        /\ \A a \in sessions : a.packets[0] \cap a.packets[1] = {}
        /\ \A k \in Active, r \in rows : Packets(states[k]) \cap Packets(r.session) = {}
        /\ UNION {Packets(a) : a \in sessions} = owed \ (IF pending = None THEN {} ELSE {pending.number})
        /\ Done /\ step # "thrown" => Active = {} /\ scopes = NoScopes /\ pending = None

\* A session that can expire counts a record only if it is not overdue by the
\* interface's clock, this record included: a row never spans a silence longer than
\* the timeout.
NeverOverdue ==
    Decide => \A k \in Active : InterfaceOf[k] = pending.input.interface /\ states[k].scheduled /\ Scope.watermark # NoTime =>
        states[k].deadline >= Scope.watermark

\* The queue of deadlines agrees with the sessions, and whoever is overdue is gone
\* before a record is counted (QueueConsistent, NeverOverdue).
QueueExact == QueueConsistent /\ NeverOverdue

\* A full table gives up the session with the earliest real deadline on the record's
\* interface, else on any interface, although the entries of interfaces the record is
\* not on may be earlier than their sessions' deadlines (Evictable, Refresh).
EvictsNearest ==
    [][\A r \in rows' \ rows : r.finalized_by = "limit" =>
           LET timed == {k \in Active : states[k].scheduled}
               here == {k \in timed : InterfaceOf[k] = pending.input.interface}
               candidates == IF here # {} THEN here ELSE timed
           IN  candidates # {} => /\ r.key \in candidates
                                  /\ \A k \in candidates : states[r.key].deadline <= states[k].deadline]_vars

\* Next() stops returning rows: a pushed record is used up, and Finish drains the table.
CallsEnd == more ~> (~more \/ step = "thrown")
=============================================================================
