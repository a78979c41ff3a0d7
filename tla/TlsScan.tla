------------------------------ MODULE TlsScan ------------------------------
(***************************************************************************)
(* A read_tls worker: it takes the streams of the files it claims from     *)
(* NextStreamEvent, hands them to its assembler, and files the handshakes  *)
(* it gets back under the file they belong to.  Rows wait in tls_pending   *)
(* until they are emitted, one by one; what the assembler still holds when *)
(* a file ends is flushed when the first stream of the next one arrives,   *)
(* or when there is none.                                                  *)
(* Source: src/src/packetquapture_extension.cpp (TlsScan).                 *)
(***************************************************************************)
EXTENDS TlsAssembler

CONSTANTS
    FileMax,        \* files are 1..FileMax, claimed in increasing order
    StreamKinds,    \* the kinds of stream that occur
    Spans,          \* the packet numbers <<first, last>> a stream may span
    MaxStreams      \* bound: streams delivered to the worker

ASSUME ScanAssumption ==
    /\ FileMax \in Nat /\ MaxStreams \in Nat /\ StreamKinds \subseteq Kinds
    /\ \A s \in Spans : s[1] \in Nat /\ s[2] \in Nat /\ s[1] <= s[2]

VARIABLES
    table,          \* tls_assembler
    open,           \* tls_open_file_index; 0 before the first stream
    tls_pending,    \* the rows to emit
    pending_file,   \* tls_pending_file_index
    drained,        \* tls_drained
    failed,         \* an assertion failed and the query with it
    seen,           \* the streams delivered so far
    rows            \* the rows emitted so far

vars == <<table, open, tls_pending, pending_file, drained, failed, seen, rows>>

Init ==
    /\ table = NoTable /\ open = 0 /\ tls_pending = {} /\ pending_file = 0
    /\ drained = FALSE /\ failed = FALSE /\ seen = <<>> /\ rows = {}

\* A stream the reassembler can deliver next: it delivers a tuple's streams in the
\* order of their packets.
Arrives(s) ==
    /\ s.file >= open /\ Len(seen) < MaxStreams
    /\ \A i \in DOMAIN seen : seen[i].file = s.file /\ seen[i].key = s.key => seen[i].last < s.first

EmitRow ==
    /\ ~failed
    /\ \E row \in tls_pending :
        /\ rows' = rows \cup {[client |-> row.client, server |-> row.server, file |-> pending_file]}
        /\ tls_pending' = tls_pending \ {row}
    /\ UNCHANGED <<table, open, pending_file, drained, failed, seen>>

\* Mutant of Event: the flushed rows go under the file just opened.
EventMisfiled(s) ==
    LET moved == s.file # open
        flushed == IF moved THEN Finish(table) ELSE [table |-> table, rows |-> {}]
        added == Add(flushed.table, s)
    IN  /\ ~failed /\ tls_pending = {} /\ ~drained /\ Arrives(s)
        /\ seen' = Append(seen, s) /\ open' = s.file
        /\ table' = added.table
        /\ tls_pending' = IF added.rows = {} THEN flushed.rows ELSE added.rows
        /\ pending_file' = s.file
        /\ failed' = (~added.ok \/ (added.rows # {} /\ flushed.rows # {}))
        /\ UNCHANGED <<drained, rows>>

\* NextStreamEvent returned a stream.  A file other than the open one: flush, then add.
\* The rows Add returns replace the flushed ones, which the code asserts are none.
Event(s) ==
    LET moved == s.file # open
        flushed == IF moved THEN Finish(table) ELSE [table |-> table, rows |-> {}]
        added == Add(flushed.table, s)
    IN  /\ ~failed /\ tls_pending = {} /\ ~drained /\ Arrives(s)
        /\ seen' = Append(seen, s) /\ open' = s.file
        /\ table' = added.table
        /\ tls_pending' = IF added.rows = {} THEN flushed.rows ELSE added.rows
        /\ pending_file' = CASE added.rows # {} -> s.file
                             [] added.rows = {} /\ moved -> open
                             [] OTHER -> pending_file
        /\ failed' = (~added.ok \/ (added.rows # {} /\ flushed.rows # {}))
        /\ UNCHANGED <<drained, rows>>

\* NextStreamEvent has no more streams.
Drain ==
    /\ ~failed /\ tls_pending = {} /\ ~drained
    /\ drained' = TRUE
    /\ table' = Finish(table).table /\ tls_pending' = Finish(table).rows /\ pending_file' = open
    /\ UNCHANGED <<open, failed, seen, rows>>

Done == failed \/ (drained /\ tls_pending = {})
Finished == Done /\ UNCHANGED vars

Stream(f, k, kind, span) ==
    [id |-> Len(seen) + 1, file |-> f, key |-> k, kind |-> kind, first |-> span[1], last |-> span[2]]

Next ==
    \/ EmitRow
    \/ \E f \in 1..FileMax, k \in TlsKeys, kind \in StreamKinds, span \in Spans : Event(Stream(f, k, kind, span))
    \/ Drain
    \/ Finished

Spec == Init /\ [][Next]_vars

-----------------------------------------------------------------------------
(* Properties. *)

Ids == 1..Len(seen)
Sides(row) == {row.client, row.server} \ {None}
Found(i) == seen[i].kind \in {"found_client", "found_server"}

\* A direction is held under its own key, no Release takes `unconfirmed' below zero, and
\* rows that wait are made of streams that arrived (Hold, Release, TlsScan).
TypeOK ==
    /\ table.pending \in [TlsKeys -> {Direction(seen[i]) : i \in Ids} \cup {None}]
    /\ \A k \in HeldKeys(table) : table.pending[k].key = k
    /\ table.unconfirmed \in Nat /\ Range(table.order) \subseteq TlsKeys
    /\ open \in 0..FileMax /\ pending_file \in 0..FileMax
    /\ \A row \in tls_pending : Sides(row) \subseteq Ids

\* The bookkeeping Hold and Release rely on: `unconfirmed' counts the finds held, which
\* keep to their quarter, the table keeps to max_pending, and neither the queue of
\* finds nor the memory of refuters outgrows its bound.
CountExact ==
    /\ TypeOK
    /\ table.unconfirmed = Cardinality(Finds(table)) /\ table.unconfirmed <= Quarter
    /\ Cardinality(HeldKeys(table)) <= max_pending
    /\ Len(table.order) <= 2 * max_pending /\ Len(table.refuters) <= Room

\* Every direction is reported at most once, and not while it is still held.
ReportedOnce ==
    LET all == {[client |-> r.client, server |-> r.server] : r \in rows} \cup tls_pending
    IN  /\ \A r, q \in all : r # q => Sides(r) \cap Sides(q) = {}
        /\ \A r \in tls_pending, q \in rows : Sides(r) \cap Sides(q) = {}
        /\ \A k \in HeldKeys(table) : \A r \in all : table.pending[k].id \notin Sides(r)

\* The streams of a tuple that stand on their own, and the streams delivered between two.
Standing(k) == {i \in Ids : HasHello(seen[i]) /\ ~Found(i) /\ Direction(seen[i]).key = k}
Between(i, j) == {n \in Ids : Min({i, j}) < n /\ n < Max({i, j})}

\* A row is filed under the file of its directions; two directions share a row only as
\* client and server of one tuple of one file, and only if no direction of that tuple
\* that stands on its own came between them: one seen again is never joined over the
\* head of another.  A find is reported only with a peer that stands on its own, parsed,
\* and shares its packets' span (Confirms), and not if, while it was held, an overlapping
\* stream of the other side was plainly no TLS (Refute).
\*
\* Not claimed, because Add does not do it: that two directions which both stand on their
\* own overlap.  A client whose server was not captured is joined with the server of the
\* next connection on the tuple, if that one's client was not captured.  Nor that a find
\* is dropped for a plain stream that came before it: Refute does not remember a stream
\* that released a find, and forgets the oldest when its memory is full.
RowsSound ==
    \A r \in rows :
        /\ Sides(r) # {} /\ \A i \in Sides(r) : seen[i].file = r.file
        /\ r.client # None => Direction(seen[r.client]).client
        /\ r.server # None => ~Direction(seen[r.server]).client
        /\ None \notin {r.client, r.server} =>
               /\ Direction(seen[r.client]).key = Direction(seen[r.server]).key
               /\ Between(r.client, r.server) \cap Standing(Direction(seen[r.client]).key) = {}
        /\ \A i \in Sides(r) : Found(i) =>
               \E j \in Sides(r) \ {i} :
                   /\ ~Found(j) /\ seen[j].kind # "bad_client" /\ Overlaps(seen[i], seen[j])
                   /\ i < j => \A n \in Between(i, j) : PlainlyNotTls(seen[n]) =>
                                   ~(seen[n].key = TlsReverse[seen[i].key] /\ Overlaps(seen[n], seen[i]))

\* When the worker is done, every direction that stands on its own is in a row: limits,
\* displaced directions and file changes report it rather than drop it.
NothingDropped ==
    Done /\ ~failed =>
        \A i \in Ids : HasHello(seen[i]) /\ ~Found(i) => \E r \in rows : i \in Sides(r)

\* The rows of a scan are right, there is one for each direction at most, and one for
\* each that stands on its own (RowsSound, ReportedOnce, NothingDropped).
RowsExact == RowsSound /\ ReportedOnce /\ NothingDropped

\* "A full table released an unconfirmed find above: unconfirmed > 0 means one is
\* held, and its key is in unconfirmed_order" (Hold): the assertions hold.
AssertionsHold == ~failed
=============================================================================
