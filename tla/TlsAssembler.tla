---------------------------- MODULE TlsAssembler ----------------------------
(***************************************************************************)
(* How TlsHandshakeAssembler pairs the two directions of a connection.     *)
(* Its tables are one record, and Add() and Finish() are operators on it,  *)
(* so that the scan that drives them (TlsScan) can call both in one step.  *)
(*                                                                         *)
(* Abstracted: what Parse() finds in the bytes is the stream's `kind', and *)
(* a row stands for all the handshakes its directions carry.               *)
(* Source: src/src/tls_handshake.cpp.                                      *)
(***************************************************************************)
EXTENDS Integers, Sequences, FiniteSets, FiniteSetsExt, SequencesExt

CONSTANTS
    TlsKeys, TlsReverse,    \* TCP tuples, [TlsKeys -> TlsKeys]
    max_pending,            \* TlsHandshakeLimits::max_pending
    None

ASSUME TlsAssumption ==
    /\ TlsReverse \in [TlsKeys -> TlsKeys] /\ \A k \in TlsKeys : TlsReverse[TlsReverse[k]] = k
    /\ max_pending \in Nat

\* What a stream holds: a hello at its first byte or past a SYN ("client", "server"),
\* one that does not parse ("bad_client"), a hello found by searching a stream without
\* its SYN ("found_*"), no hello and plainly no TLS, or nothing that tells.
Kinds == {"client", "server", "bad_client", "found_client", "found_server", "plain", "unknown"}

NoTable == [pending |-> [k \in TlsKeys |-> None], unconfirmed |-> 0, order |-> <<>>, refuters |-> <<>>]

\* Parse: the direction of a stream with a hello.  A server's tuple is turned round.
Direction(s) ==
    LET client == s.kind \in {"client", "bad_client", "found_client"}
    IN  [id |-> s.id, client |-> client, key |-> IF client THEN s.key ELSE TlsReverse[s.key],
         first |-> s.first, last |-> s.last, valid |-> s.kind # "bad_client",
         needs_confirmation |-> s.kind \in {"found_client", "found_server"}]
HasHello(s) == s.kind \notin {"plain", "unknown"}
PlainlyNotTls(s) == s.kind = "plain"

HeldKeys(a) == {k \in TlsKeys : a.pending[k] # None}
Finds(a) == {k \in HeldKeys(a) : a.pending[k].needs_confirmation}

\* Merge, of a pair and of a direction without a peer.
Merge(d, h) == IF d.client THEN [client |-> d.id, server |-> h.id] ELSE [client |-> h.id, server |-> d.id]
Alone(d) == IF d.client THEN [client |-> d.id, server |-> None] ELSE [client |-> None, server |-> d.id]

\* A direction that needs confirmation is never reported without its peer.
ReportAlone(d) == IF d.needs_confirmation THEN {} ELSE {Alone(d)}

Overlaps(x, y) == x.first <= y.last /\ y.first <= x.last

Confirms(peer, found) ==
    /\ peer.client # found.client /\ ~peer.needs_confirmation /\ peer.valid
    /\ Overlaps(peer, found)

\* Mutant of Release: the count of finds is not brought down.
ReleaseUncounted(a, k) == [a EXCEPT !.pending[k] = None]

Release(a, k) ==
    [a EXCEPT !.pending[k] = None,
              !.unconfirmed = IF a.pending[k].needs_confirmation THEN @ - 1 ELSE @]

-----------------------------------------------------------------------------
(* Streams that are plainly not TLS, and the finds they refute. *)

Room == Max({1, max_pending})

\* One side of Refute: a find of that side that waits and overlaps is released, else
\* the stream is remembered for a find that has yet to arrive, the oldest forgotten.
RefuteSide(a, s, client_side) ==
    LET key == IF client_side THEN TlsReverse[s.key] ELSE s.key
        waiting == a.pending[key]
        memory == IF Len(a.refuters) >= Room THEN Tail(a.refuters) ELSE a.refuters
    IN  IF waiting # None /\ waiting.needs_confirmation /\ waiting.client = client_side /\ Overlaps(s, waiting)
        THEN Release(a, key)
        ELSE [a EXCEPT !.refuters = Append(memory, [key |-> key, client |-> client_side,
                                                    first |-> s.first, last |-> s.last])]
Refute(a, s) == RefuteSide(RefuteSide(a, s, TRUE), s, FALSE)

Refuted(a, d) ==
    \E i \in DOMAIN a.refuters :
        a.refuters[i].client = d.client /\ a.refuters[i].key = d.key /\ Overlaps(a.refuters[i], d)

-----------------------------------------------------------------------------
(* Hold: make room for a direction, if that can be done, and keep it. *)

Quarter == Max({1, max_pending \div 4})

\* The two early returns of Hold.
CanHold(a, d) ==
    /\ max_pending # 0 /\ (d.needs_confirmation => a.unconfirmed < Quarter)
    /\ Cardinality(HeldKeys(a)) >= max_pending => ~d.needs_confirmation /\ a.unconfirmed # 0

\* A full table gives up its oldest find: keys of finds since released are skipped.
MakeRoom(a) ==
    LET live == {i \in DOMAIN a.order : a.order[i] \in Finds(a)}
    IN  IF Cardinality(HeldKeys(a)) < max_pending THEN a
        ELSE IF live = {} THEN [a EXCEPT !.order = <<>>]
        ELSE Release([a EXCEPT !.order = SubSeq(@, Min(live) + 1, Len(@))], a.order[Min(live)])

\* A find is counted and queued.  A queue grown past twice the table is cut to the keys
\* of finds held at this moment, when the new one is not in the table yet.
Enqueue(a, d) ==
    LET order == Append(a.order, d.key)
        Waiting(k) == k \in Finds(a)
    IN  IF ~d.needs_confirmation THEN a
        ELSE [a EXCEPT !.unconfirmed = @ + 1,
                       !.order = IF Len(order) > 2 * max_pending THEN SelectSeq(order, Waiting) ELSE order]

\* What Add returns: the tables, the rows, and whether its assertions held.
Returned(a, rows) == [table |-> a, rows |-> rows, ok |-> TRUE]

\* The end of Add for a direction without a peer in the table: hold it, or report it
\* alone.  Hold asserts that there is room.
HoldOrReport(a, rows, d) ==
    LET ready == Enqueue(MakeRoom(a), d)
    IN  IF ~CanHold(a, d) THEN Returned(a, rows \cup ReportAlone(d))
        ELSE IF Cardinality(HeldKeys(ready)) >= max_pending THEN [table |-> ready, rows |-> {}, ok |-> FALSE]
        ELSE Returned([ready EXCEPT !.pending[d.key] = d], rows)

-----------------------------------------------------------------------------
(* Add and Finish. *)

UnconfirmedPair(h, d) ==
    (d.needs_confirmation /\ ~Confirms(h, d)) \/ (h.needs_confirmation /\ ~Confirms(d, h))

\* Direction d arrives while h is held on its tuple.
Meet(a, h, d) ==
    CASE h.client = d.client ->     \* the same side twice: a find does not displace one that stands alone
           IF d.needs_confirmation /\ ~h.needs_confirmation THEN Returned(a, {})
           ELSE HoldOrReport(Release(a, d.key), ReportAlone(h), d)
      [] h.client # d.client /\ ~UnconfirmedPair(h, d) ->
           Returned(Release(a, d.key), {Merge(d, h)})
      [] OTHER ->                   \* an earlier connection gives way, else the find is dropped
           IF h.last < d.first THEN HoldOrReport(Release(a, d.key), ReportAlone(h), d)
           ELSE IF d.needs_confirmation THEN Returned(a, {})
           ELSE HoldOrReport(Release(a, d.key), {}, d)

Add(a, s) ==
    LET d == Direction(s)
    IN  CASE ~HasHello(s) -> Returned(IF PlainlyNotTls(s) THEN Refute(a, s) ELSE a, {})
          [] HasHello(s) /\ d.needs_confirmation /\ Refuted(a, d) -> Returned(a, {})
          [] OTHER -> IF a.pending[d.key] = None THEN HoldOrReport(a, {}, d)
                      ELSE Meet(a, a.pending[d.key], d)

Finish(a) == [table |-> NoTable, rows |-> UNION {ReportAlone(a.pending[k]) : k \in HeldKeys(a)}]
=============================================================================
