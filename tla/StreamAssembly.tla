-------------------------- MODULE StreamAssembly ---------------------------
(***************************************************************************)
(* What TcpReassembler::Finish makes of one direction: the placement of    *)
(* the buffered segments on stream offsets, the overlay of their bytes,    *)
(* and the status of the stream that is reported.  Pure operators on the   *)
(* record of a direction; TcpReassembly extends them with the life of the  *)
(* directions.  Source: src/src/tcp_reassembly.cpp.                        *)
(***************************************************************************)
EXTENDS Integers, Sequences, FiniteSets, FiniteSetsExt

CONSTANTS
    SeqSpace,           \* size of the sequence number space: 2^32 in the code
    max_stream_bytes,   \* TcpReassemblyLimits::max_stream_bytes
    NoSeq               \* no SYN, no FIN

ASSUME AssemblyAssumption ==
    /\ SeqSpace \in Nat \ {0} /\ max_stream_bytes \in Nat
    /\ NoSeq \notin Int

SeqNums == 0..SeqSpace - 1
Wrap(n) == n % SeqSpace

\* A segment: sequence number, declared length, and the captured bytes.
HasSyn(flow) == flow.syn # NoSeq
HasFin(flow) == flow.fin # NoSeq

\* Mutant of RelativeSequence: unsigned difference, as if the space never wrapped.
RelativeUnwrapped(sequence, base) == sequence - base

\* The signed distance from base to sequence: half of the space is behind base.
RelativeSequence(sequence, base) ==
    LET difference == Wrap(sequence - base)
    IN  IF difference < SeqSpace \div 2 THEN difference ELSE difference - SeqSpace

\* The sequence number of stream offset zero.
StreamBase(flow) ==
    IF HasSyn(flow) THEN Wrap(flow.syn + 1)
    ELSE LET first == Head(flow.segments).sequence
             offsets == {RelativeSequence(flow.segments[i].sequence, first) : i \in DOMAIN flow.segments}
         IN  Wrap(first + Min(offsets \cup {0}))

Offset(flow, i) == RelativeSequence(flow.segments[i].sequence, StreamBase(flow))

\* The end of the data as the segments and the FIN place it.
DataEnd(flow) == Max({0} \cup {Offset(flow, i) + flow.segments[i].declared : i \in DOMAIN flow.segments})
FinEnd(flow) == RelativeSequence(flow.fin, StreamBase(flow))
Extent(flow) == IF HasFin(flow) THEN FinEnd(flow) ELSE DataEnd(flow)

\* Measure: the error that stops it, in the order the code looks for them.
Measure(flow) ==
    CASE \E i \in DOMAIN flow.segments :
            \/ Offset(flow, i) < 0
            \/ Offset(flow, i) + flow.segments[i].declared > max_stream_bytes -> "limit"
      [] HasFin(flow) /\ (FinEnd(flow) < 0 \/ FinEnd(flow) > max_stream_bytes) -> "limit"
      [] HasFin(flow) /\ FinEnd(flow) < DataEnd(flow) -> "conflict"
      [] OTHER -> "ok"

\* Segment i captured the byte at offset p, and which byte it was.
Supplies(flow, i, p) == p - Offset(flow, i) \in 0..Len(flow.segments[i].bytes) - 1
ByteOf(flow, i, p) == flow.segments[i].bytes[p - Offset(flow, i) + 1]
Suppliers(flow, p) == {i \in DOMAIN flow.segments : Supplies(flow, i, p)}

Offsets(flow) == 0..Extent(flow) - 1

\* Overlay: whether overlapping segments agree, and who supplied each byte first.
Disagree(flow) ==
    \E p \in Offsets(flow) : \E i, j \in Suppliers(flow, p) : ByteOf(flow, i, p) # ByteOf(flow, j, p)
Owned(flow) == {p \in Offsets(flow) : Suppliers(flow, p) # {}}
Owner(flow, p) == Min(Suppliers(flow, p))

\* Emit: the maximal runs of missing and of captured offsets, and of offsets of one owner.
Runs(S) == {r \in S \X S : /\ r[1] <= r[2] /\ r[1]..r[2] \subseteq S
                            /\ r[1] - 1 \notin S /\ r[2] + 1 \notin S}
Gaps(flow) == Runs(Offsets(flow) \ Owned(flow))
Chunks(flow) == Runs(Owned(flow))
Origins(flow, chunk) ==
    UNION {{<<i, r>> : r \in Runs({p \in chunk[1]..chunk[2] : Owner(flow, p) = i})} :
               i \in DOMAIN flow.segments}

\* Finish: the status of the one stream reported, or nothing.
Finish(flow) ==
    IF flow.failure # "ok" THEN {flow.failure}
    ELSE IF flow.segments = <<>> /\ (~HasFin(flow) \/ ~HasSyn(flow)) THEN {}
    ELSE LET measured == Measure(flow)
         IN  CASE measured # "ok" -> {measured}
               [] measured = "ok" /\ Disagree(flow) -> {"conflict"}
               [] measured = "ok" /\ ~Disagree(flow) /\ Extent(flow) = 0 -> {}
               [] OTHER -> {IF ~HasSyn(flow) THEN "unanchored"
                            ELSE IF Gaps(flow) # {} THEN "gapped" ELSE "contiguous"}
=============================================================================
