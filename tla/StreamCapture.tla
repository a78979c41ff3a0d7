--------------------------- MODULE StreamCapture ---------------------------
(***************************************************************************)
(* One sender's stream as a capture sees it: any of its segments, in any   *)
(* order, retransmitted, overlapping, cut by the snapshot length, wrapping *)
(* around the sequence space, with or without the SYN and the FIN, and     *)
(* possibly with retransmissions whose bytes differ.  The reference that   *)
(* StreamAssembly's reconstruction is checked against: `position' records  *)
(* where in the stream each captured segment really was.                   *)
(***************************************************************************)
EXTENDS DnsTcpFramer

CONSTANTS
    StartSeqs,      \* sequence numbers the SYN may carry
    Pieces,         \* <<position, declared length>> of the segments it was sent in
    StreamLength,   \* bytes the sender sent
    FrameSizes,     \* lengths of the DNS messages it may have framed in them
    MaxCaptured     \* bound: segments captured

VARIABLES start, sizes, flow, position
vars == <<start, sizes, flow, position>>

\* Where the sender's k-th frame starts, and the frame that position q is in.
FrameStart(k) ==
    LET at[j \in 1 .. k] == IF j = 1 THEN 0 ELSE at[j - 1] + 2 + sizes[j - 1] IN at[k]
FrameOf(q) == Max({k \in DOMAIN sizes : FrameStart(k) <= q})

\* The byte sent at stream position q: half of a length, or payload.  And the
\* one a rewritten retransmission carries.
Sent(q) ==
    CASE q - FrameStart(FrameOf(q)) = 0 -> sizes[FrameOf(q)] \div Radix
      [] q - FrameStart(FrameOf(q)) = 1 -> sizes[FrameOf(q)] % Radix
      [] OTHER -> q % Radix
Rewritten(q) == (Sent(q) + 1) % Radix

Init ==
    /\ start \in StartSeqs /\ sizes \in FrameSizes
    /\ flow = [syn |-> NoSeq, fin |-> NoSeq, failure |-> "ok", segments |-> <<>>]
    /\ position = <<>>

CaptureSyn ==
    /\ ~HasSyn(flow)
    /\ flow' = [flow EXCEPT !.syn = start]
    /\ UNCHANGED <<start, sizes, position>>

CaptureFin ==
    /\ ~HasFin(flow)
    /\ flow' = [flow EXCEPT !.fin = Wrap(start + 1 + StreamLength)]
    /\ UNCHANGED <<start, sizes, position>>

\* A segment of `declared' bytes from position q, of which `captured' were kept.
Capture(q, declared, captured, rewritten) ==
    /\ Len(position) < MaxCaptured
    /\ q + declared <= StreamLength /\ captured <= declared
    /\ flow' = [flow EXCEPT !.segments = Append(@,
            [sequence |-> Wrap(start + 1 + q), declared |-> declared,
             bytes |-> [k \in 1..captured |-> IF rewritten THEN Rewritten(q + k - 1) ELSE Sent(q + k - 1)]])]
    /\ position' = Append(position, q)
    /\ UNCHANGED <<start, sizes>>

Next ==
    \/ CaptureSyn \/ CaptureFin
    \/ \E p \in Pieces : \E c \in {p[2], p[2] - 1} : Capture(p[1], p[2], c, FALSE)
    \/ \E p \in Pieces : Capture(p[1], p[2], p[2], TRUE)
Spec == Init /\ [][Next]_vars

-----------------------------------------------------------------------------
Segments == DOMAIN flow.segments
\* The stream position of offset zero.
Shift == IF HasSyn(flow) THEN 0 ELSE Min({position[i] : i \in Segments})
\* The bytes captured for stream position q.
Seen(q) == {flow.segments[i].bytes[q - position[i] + 1] :
               i \in {j \in Segments : q - position[j] \in 0..Len(flow.segments[j].bytes) - 1}}
Covered == {q \in 0..StreamLength : Seen(q) # {}}
\* Everything captured, and the FIN, lies within the reassembly window.
InWindow ==
    /\ \A i \in Segments : position[i] + flow.segments[i].declared - Shift <= max_stream_bytes
    /\ HasFin(flow) => StreamLength - Shift <= max_stream_bytes

\* Emit cuts the stream into chunks and gaps without hole or overlap, and every chunk
\* into origins the same way: what Provenance asserts of the origins it walks.
RunsPartition ==
    LET Exactly(runs, S) == \A p \in S : Cardinality({r \in runs : p \in r[1]..r[2]}) = 1
    IN  /\ Exactly(Chunks(flow) \cup Gaps(flow), Offsets(flow))
        /\ \A c \in Chunks(flow) : Exactly({o[2] : o \in Origins(flow, c)}, c[1]..c[2])

\* A stream that is reported with data has every captured byte at its own offset, and
\* no other: wraparound, arrival order, overlap and a missing SYN misplace nothing.
Reconstructs ==
    Finish(flow) \cap {"contiguous", "gapped", "unanchored"} # {} =>
        /\ {p + Shift : p \in Owned(flow)} = Covered
        /\ \A p \in Owned(flow) : Seen(p + Shift) = {ByteOf(flow, Owner(flow, p), p)}
        /\ RunsPartition

\* Inside the window the status is decided by what was captured alone: a conflict
\* exactly when two captures of one position differ, contiguous exactly when nothing
\* up to the end is missing and the SYN was seen.
StatusExact ==
    flow.segments # <<>> /\ InWindow =>
        LET end == IF HasFin(flow) THEN StreamLength ELSE Max({position[i] + flow.segments[i].declared : i \in Segments})
        IN  Finish(flow) = {CASE \E q \in Covered : Cardinality(Seen(q)) > 1 -> "conflict"
                              [] (\A q \in Covered : Cardinality(Seen(q)) = 1) /\ ~HasSyn(flow) -> "unanchored"
                              [] (\A q \in Covered : Cardinality(Seen(q)) = 1) /\ HasSyn(flow) ->
                                    IF Covered = 0..end - 1 THEN "contiguous" ELSE "gapped"}

\* A stream is reconstructed, and called, what was captured of it (Reconstructs,
\* StatusExact).
StreamExact == Reconstructs /\ StatusExact

\* The sender's frames that are wholly within the positions captured without a
\* hole from the start, up to one that is too short to be a message.
Leading == Max({n \in 0 .. StreamLength : 0 .. n - 1 \subseteq Covered})
Starts(k) == IF k > Len(sizes) THEN StreamLength ELSE FrameStart(k)
Framed == Max({0} \cup {k \in DOMAIN sizes :
              /\ Starts(k) + 2 + sizes[k] <= Leading
              /\ \A j \in 1 .. k : sizes[j] >= MinLength})

\* Where nothing was rewritten, the DNS messages of an anchored stream are the
\* sender's own up to the first hole: in order, numbered from 1, with their
\* sequence numbers, bytes and the packets that carried them; one diagnostic
\* follows exactly when more was sent, and a stream with too many messages
\* yields the diagnostic alone.
MessagesExact ==
    /\ Finish(flow) \cap {"contiguous", "gapped"} # {}
    /\ \A q \in Covered : Seen(q) = {Sent(q)}
    => LET status == CHOOSE t \in Finish(flow) : TRUE
           rows == FrameTcpDns(Delivered(flow, status))
           complete == {k \in DOMAIN rows : rows[k].status = "complete"}
           Carried(k) == {Min({i \in Segments : q - position[i] \in 0 .. Len(flow.segments[i].bytes) - 1}) :
                              q \in FrameStart(k) .. FrameStart(k) + 1 + sizes[k]}
       IN  IF Framed > max_messages THEN Len(rows) = 1 /\ rows[1].status = "limit"
           ELSE /\ complete = 1 .. Framed
                /\ \A k \in complete :
                     /\ rows[k].number = k
                     /\ rows[k].sequence = Wrap(start + 1 + FrameStart(k))
                     /\ rows[k].data = [b \in 1 .. sizes[k] |-> Sent(FrameStart(k) + 1 + b)]
                     /\ rows[k].first = Min(Carried(k)) /\ rows[k].last = Max(Carried(k))
                /\ Len(rows) = Framed + (IF Extent(flow) = Starts(Framed + 1) THEN 0 ELSE 1)

=============================================================================
