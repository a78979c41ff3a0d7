---------------------------- MODULE DnsTcpFramer ----------------------------
(***************************************************************************)
(* FrameTcpDns: the DNS messages of one reconstructed direction.  The      *)
(* stream is what StreamAssembly's Finish makes of a direction; a message  *)
(* keeps its bytes' place in the stream and the first and last packet that *)
(* supplied one of them.  Source: src/src/dns_tcp_framer.cpp.              *)
(***************************************************************************)
EXTENDS StreamAssembly

CONSTANTS
    Radix,          \* values of a byte: 256 in the code
    MinLength,      \* length of the DNS header: 12 in the code
    max_messages    \* DnsFramingLimits::max_messages

\* What FrameTcpDns reads of a TcpStream: the chunk at offset zero, up to the first gap,
\* with the packet that supplied each byte; nothing of a stream that failed.
Delivered(flow, status) ==
    LET failed == status \in {"conflict", "limit"}
        owned == IF failed THEN {} ELSE Owned(flow)
        leading == Cardinality({p \in owned : 0 .. p \subseteq owned})
    IN  [status |-> status, syn_seen |-> HasSyn(flow),
         sequence |-> IF failed THEN Wrap((IF HasSyn(flow) THEN flow.syn ELSE 0) + 1) ELSE StreamBase(flow),
         expected_bytes |-> IF failed THEN 0 ELSE Extent(flow),
         data |-> [k \in 1 .. leading |-> ByteOf(flow, Owner(flow, k - 1), k - 1)],
         origins |-> [k \in 1 .. leading |-> Owner(flow, k - 1)]]

\* Mutant of LengthAt: the length is read in little-endian order.
LengthSwapped(stream, o) == stream.data[o + 1] + stream.data[o + 2] * Radix

\* The two-byte length before a message.
LengthAt(stream, o) == stream.data[o + 1] * Radix + stream.data[o + 2]

HasLength(stream, o) == Len(stream.data) - o >= 2
IsInvalid(stream, o) == HasLength(stream, o) /\ LengthAt(stream, o) < MinLength
IsWhole(stream, o) ==
    /\ HasLength(stream, o) /\ ~IsInvalid(stream, o)
    /\ LengthAt(stream, o) <= Len(stream.data) - o - 2
FrameEnd(stream, o) == o + 2 + LengthAt(stream, o)

\* The offsets of the frames the loop consumes.
FrameOffsets(stream) ==
    LET from[o \in 0 .. Len(stream.data)] ==
            IF IsWhole(stream, o) THEN <<o>> \o from[FrameEnd(stream, o)] ELSE <<>>
    IN  from[0]

\* The packets that supplied the bytes of a frame, by arrival.
Provenance(stream, o) == {stream.origins[p] : p \in o + 1 .. FrameEnd(stream, o)}

\* A row with a status, at an offset of the stream.
Diagnostic(stream, status, o) ==
    [status |-> status, number |-> 0, sequence |-> Wrap(stream.sequence + o), first |-> 0, last |-> 0,
     data |-> <<>>]
CompleteMessage(stream, number, o) ==
    LET packets == Provenance(stream, o)
    IN  [Diagnostic(stream, "complete", o) EXCEPT
            !.number = number, !.first = Min(packets), !.last = Max(packets),
            !.data = SubSeq(stream.data, o + 3, FrameEnd(stream, o))]

\* The rows of one direction.
FrameTcpDns(stream) ==
    LET frames == FrameOffsets(stream)
        stop == IF frames = <<>> THEN 0 ELSE FrameEnd(stream, frames[Len(frames)])
        messages == [k \in DOMAIN frames |-> CompleteMessage(stream, k, frames[k])]
    IN  CASE stream.status \in {"conflict", "limit"} -> <<Diagnostic(stream, stream.status, 0)>>
          [] stream.status \notin {"conflict", "limit"} /\ ~stream.syn_seen -> <<Diagnostic(stream, "unanchored", 0)>>
          [] OTHER ->
                IF Len(frames) > max_messages THEN <<Diagnostic(stream, "limit", 0)>>
                ELSE IF IsInvalid(stream, stop) THEN Append(messages, Diagnostic(stream, "invalid", stop))
                ELSE IF stop # stream.expected_bytes THEN Append(messages, Diagnostic(stream, "incomplete", stop))
                ELSE messages
============================================================================
