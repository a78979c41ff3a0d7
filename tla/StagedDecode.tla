---------------------------- MODULE StagedDecode ----------------------------
(***************************************************************************)
(* What a scan reads and decodes of each packet.  The columns a query uses *)
(* and the filters pushed into the scan are turned into stages; a packet   *)
(* goes through them in order and is dropped at the first filter it fails, *)
(* the rest of its bytes skipped.  One record is used for every packet.    *)
(*                                                                         *)
(* A packet is one of PacketDecoder with, besides, its timestamp, its      *)
(* bytes (`data', a value) and its payload.  A column stands for those     *)
(* that share its stage and the condition under which they are NULL.       *)
(* Source: src/src/packetquapture_extension.cpp (PlanDecodeStages,         *)
(* PushPacketFilters, ReadPacketData), src/src/tls_record.cpp.             *)
(***************************************************************************)
EXTENDS PacketDecoder

CONSTANTS
    Queries,    \* [scan, projected, filters]
    Captures    \* sequences of packets

VARIABLES
    query, capture,
    n,          \* the packet being read, or read last
    pc,         \* where ReadPacketData is
    depth,      \* decode depths already passed
    record,     \* the record of the scanning thread
    prefix,     \* bytes of the packet in packet_prefix
    skipped,    \* bytes of the packet skipped
    whole       \* not in the code: the packet decoded in full, for the properties

stagedVars == <<query, capture, n, pc, depth, record, prefix, skipped, whole>>

PACKET == 0
DNS == 4
TLS == 5
PACKET_DATA == 6

\* The stage each bind gives its columns: read_pcap's, read_packets' after them, and
\* read_dns' after those.
PcapColumns == [timestamp |-> PACKET, packet_data |-> PACKET_DATA]
PacketsColumns ==
    [ether_type |-> LINK, vlan_ids |-> LINK, ip_protocol |-> NETWORK, ip_id |-> NETWORK, src_port |-> TRANSPORT,
     tcp_flags |-> TRANSPORT, udp_length |-> TRANSPORT, payload_length |-> TRANSPORT,
     is_tls |-> TLS, tls_sni |-> TLS, tls_truncated |-> TLS]
DnsColumns == [dns_id |-> DNS]
StageOf == PcapColumns @@ PacketsColumns @@ DnsColumns
BaseColumns == DOMAIN StageOf

-----------------------------------------------------------------------------
(* The plan of a scan. *)

\* The columns DuckDB asks of the scan: those of the output, and those only filters use.
ColumnIds(q) == q.projected \cup {f.column : f \in q.filters}

\* Mutant of Planned: filter-only columns do not count.
PlannedProjected(q) == {StageOf[c] : c \in q.projected \cap BaseColumns}

Planned(q) == {StageOf[c] : c \in ColumnIds(q) \cap BaseColumns}

\* PlanDecodeStages: a stage past the decode ladder needs the payload located.
DecodeDepth(q) ==
    LET depths == {Lesser(TRANSPORT, s) : s \in Planned(q) \ {PACKET, PACKET_DATA}}
    IN  IF q.scan # "packets" THEN TRANSPORT ELSE Max(depths \cup {0})

\* SupportsPacketFilter, and the kinds of filter that are only advice.
SupportsPacketFilter(c) == c \in BaseColumns \ {"vlan_ids"}
Pushed(q) == {f \in q.filters : ~f.advisory /\ SupportsPacketFilter(f.column)}
FilterStages(q) == {StageOf[f.column] : f \in Pushed(q)}

-----------------------------------------------------------------------------
(* The record and its columns. *)

NoDns == [valid |-> FALSE, id |-> 0]
NoTls == [valid |-> FALSE, client_hello |-> FALSE, truncated |-> FALSE, sni |-> Null]

\* ResetRecord, and the fields every reader sets before the packet's bytes are read.
Fresh(p) == [timestamp |-> p.timestamp, decoded |-> Undecoded, dns |-> NoDns, tls |-> NoTls,
             packet_data |-> "", transport_data |-> "", selected |-> TRUE]

If(present, value) == IF present THEN value ELSE Null

\* SetDecodedValue: a layer that was not decoded leaves its columns NULL.
DecodedValue(c, d) ==
    CASE c = "ether_type" -> If(d.ethernet, d.ether_type)
      [] c = "vlan_ids" -> If(d.ethernet, d.vlan_ids)
      [] c = "ip_protocol" -> If(d.network, d.ip_protocol)
      [] c = "ip_id" -> If(d.network, d.ip_id)
      [] c = "src_port" -> If(d.transport, d.port)
      [] c = "payload_length" -> If(d.transport, d.payload_length)
      [] c = "tcp_flags" -> If(d.tcp, d.tcp)
      [] c = "udp_length" -> If(d.udp, d.udp_length)

TlsValue(c, t) ==
    CASE c = "is_tls" -> IF t.valid THEN "true" ELSE "false"
      [] c = "tls_sni" -> t.sni
      [] c = "tls_truncated" -> If(t.client_hello, t.truncated)

DnsValue(c, m) == If(m.valid, m.id)

\* The cells SetRecordValue writes.
ValueOf(c, r) ==
    CASE c = "timestamp" -> r.timestamp
      [] c = "packet_data" -> r.packet_data
      [] StageOf[c] \in LINK..TRANSPORT -> DecodedValue(c, r.decoded)
      [] StageOf[c] = TLS -> TlsValue(c, r.tls)
      [] StageOf[c] = DNS -> DnsValue(c, r.dns)

\* PacketFilter::Matches, for IS NULL, IS NOT NULL and a comparison.
Matches(f, r) ==
    LET v == ValueOf(f.column, r)
    IN  CASE f.op = "null" -> v = Null
          [] f.op = "not_null" -> v # Null
          [] f.op = "equals" -> v # Null /\ v = f.value

\* Accept: FiltersMatch for the filters of one stage.
Accepts(q, r, stage) == \A f \in Pushed(q) : StageOf[f.column] = stage => Matches(f, r)

-----------------------------------------------------------------------------
(* The payload of one packet. *)

\* One record that must fit the payload; a ClientHello larger than its record, or whose
\* body is broken, has no name and is called truncated.
DecodeTlsRecord(t, size) ==
    LET handshake == t.type = "handshake" /\ t.length >= 4
        hello == handshake /\ t.message = "client_hello"
        cut == t.message_length + 4 > t.length \/ t.body = "broken"
    IN  IF size < 5 \/ t.type = "not_tls" \/ t.length + 5 > size THEN NoTls
        ELSE [valid |-> TRUE, client_hello |-> hello, truncated |-> hello /\ cut,
              sni |-> IF hello /\ ~cut /\ t.body = "named" THEN t.sni ELSE Null]

\* Over TCP exactly one length-prefixed message, over UDP the whole datagram; `dns' is
\* the identifier of the message that starts there, or Null if it is not valid.
DecodeDnsPayload(p, d) ==
    LET framed == IF d.tcp THEN d.payload_length >= 2 /\ p.payload.prefix = d.payload_length - 2
                  ELSE d.payload_length = d.udp_length - 8
    IN  IF framed /\ p.payload.dns # Null THEN [valid |-> TRUE, id |-> p.payload.dns] ELSE NoDns

DnsPacket(d) == d.transport /\ d.port = 53 /\ d.payload_length > 0

\* What a reassembling scan takes: every TCP segment, or port 53.
Reassembled(scan, d) == d.transport /\ (IF scan = "tcp_streams" THEN d.tcp ELSE d.port = 53)

\* Everything the stages could find in a packet with no filter in their way, and the
\* prefix each depth asks for.
Whole(p) ==
    LET DecodedBy(d) ==
            [Fresh(p) EXCEPT !.decoded = d, !.packet_data = p.data,
                             !.dns = IF DnsPacket(d) THEN DecodeDnsPayload(p, d) ELSE NoDns,
                             !.tls = IF d.tcp /\ d.payload_length > 0
                                     THEN DecodeTlsRecord(p.payload.tls, d.payload_length) ELSE NoTls]
    IN  [record |-> DecodedBy(DecodePacket(p, TRANSPORT).packet),
         headers |-> [s \in PACKET..TRANSPORT |-> IF s = PACKET THEN 0 ELSE DecodePacket(p, s).read]]

-----------------------------------------------------------------------------
(* CaptureReader::ReadPacketData, stage by stage. *)

current == capture[n]
MaxDepth == DecodeDepth(query)

StagedStart ==
    /\ n = 0 /\ pc = "returned" /\ depth = 0 /\ prefix = 0 /\ skipped = 0
    /\ record = [none |-> TRUE] /\ whole = [none |-> TRUE]
StagedInit == capture \in Captures /\ query \in Queries /\ StagedStart

SamePacket == UNCHANGED <<query, capture, n, whole>>

\* The record fails a filter, or is done: the rest of the packet is skipped.
Return(r, read) ==
    /\ record' = r /\ prefix' = read /\ skipped' = current.size - read /\ pc' = "returned"
Deselected(r) == [r EXCEPT !.selected = FALSE]

\* Accept, and on to the next stage or out.
Stage(r, read, stage, after) ==
    IF Accepts(query, r, stage)
    THEN record' = r /\ prefix' = read /\ pc' = after /\ UNCHANGED skipped
    ELSE Return(Deselected(r), read)

\* Next: the record of the next packet, and the filters that need none of its bytes.
Begin ==
    LET fresh == Fresh(capture[n + 1])
    IN  /\ pc = "returned" /\ n < Len(capture)
        /\ n' = n + 1 /\ whole' = Whole(capture[n + 1]) /\ depth' = 0 /\ prefix' = 0
        /\ IF Accepts(query, fresh, PACKET)
           THEN record' = fresh /\ skipped' = 0 /\ pc' = "decode"
           ELSE record' = Deselected(fresh) /\ skipped' = capture[n + 1].size /\ pc' = "returned"
        /\ UNCHANGED <<query, capture>>

\* One pass of the loop over the depths: a depth that no filter looks at is passed over
\* unless it is the last, and every other one decodes anew from the link layer.
Decode ==
    LET stage == depth + 1
        done == DecodePacket(current, stage)
        read == IF done.read > prefix THEN done.read ELSE prefix
        r == [record EXCEPT !.decoded = done.packet]
    IN  /\ pc = "decode" /\ depth < MaxDepth
        /\ depth' = stage
        /\ IF stage # MaxDepth /\ stage \notin FilterStages(query) THEN UNCHANGED <<record, prefix, skipped, pc>>
           ELSE Stage(r, read, stage, "decode")
        /\ SamePacket

Decoded == pc = "decode" /\ depth = MaxDepth
PayloadEnd == record.decoded.payload_offset + record.decoded.payload_length

\* reassemble_tcp and reassemble_dns: the payload, and no further stage.
Reassemble ==
    /\ Decoded /\ query.scan \in {"tcp_streams", "dns_messages"}
    /\ \/ /\ ~Reassembled(query.scan, record.decoded)
          /\ Return(Deselected(record), prefix)
       \/ /\ Reassembled(query.scan, record.decoded) /\ record.decoded.payload_length = 0
          /\ Return(record, prefix)
       \/ /\ Reassembled(query.scan, record.decoded) /\ record.decoded.payload_length > 0
          /\ Return([record EXCEPT !.transport_data = current.data], PayloadEnd)
    /\ SamePacket /\ UNCHANGED depth

\* Mutant of ReadDns: the message is decoded before the packet is known to be DNS.
ReadDnsEagerly ==
    LET decodes == DNS \in Planned(query)
        r == IF decodes THEN [record EXCEPT !.dns = DecodeDnsPayload(current, record.decoded)] ELSE record
    IN  /\ Decoded /\ query.scan = "dns"
        /\ IF ~DnsPacket(record.decoded) THEN Return(Deselected(record), Lesser(current.size, PayloadEnd))
           ELSE Stage(r, IF decodes THEN PayloadEnd ELSE prefix, DNS, "tls")
        /\ SamePacket /\ UNCHANGED depth

\* read_dns: only DNS packets, decoded if a DNS column is used.
ReadDns ==
    LET decodes == DNS \in Planned(query)
        r == IF decodes THEN [record EXCEPT !.dns = DecodeDnsPayload(current, record.decoded)] ELSE record
    IN  /\ Decoded /\ query.scan = "dns"
        /\ IF ~DnsPacket(record.decoded) THEN Return(Deselected(record), prefix)
           ELSE Stage(r, IF decodes THEN PayloadEnd ELSE prefix, DNS, "tls")
        /\ SamePacket /\ UNCHANGED depth

\* decode_tls, for the payload of a TCP segment.
ReadTls ==
    LET payload == record.decoded.tcp /\ record.decoded.payload_length > 0
        r == IF payload THEN [record EXCEPT !.tls = DecodeTlsRecord(current.payload.tls, record.decoded.payload_length)]
             ELSE record
        read == IF payload /\ PayloadEnd > prefix THEN PayloadEnd ELSE prefix
    IN  /\ \/ pc = "tls" \/ (Decoded /\ query.scan = "packets")
        /\ IF TLS \in Planned(query) THEN Stage(r, read, TLS, "data")
           ELSE pc' = "data" /\ UNCHANGED <<record, prefix, skipped>>
        /\ SamePacket /\ UNCHANGED depth

\* materialize_packet_data, and the end.
ReadData ==
    LET r == [record EXCEPT !.packet_data = current.data]
    IN  /\ pc = "data"
        /\ IF PACKET_DATA \notin Planned(query) THEN Return(record, prefix)
           ELSE Return([r EXCEPT !.selected = Accepts(query, r, PACKET_DATA)], current.size)
        /\ SamePacket /\ UNCHANGED depth

StagedDone == pc = "returned" /\ n = Len(capture)
StagedNext == Begin \/ Decode \/ Reassemble \/ ReadDns \/ ReadTls \/ ReadData

-----------------------------------------------------------------------------
(* Properties. *)

Wanted(q, r) ==
    /\ q.scan = "dns" => DnsPacket(r.decoded)
    /\ q.scan \in {"tcp_streams", "dns_messages"} => Reassembled(q.scan, r.decoded)
    /\ \A f \in Pushed(q) : Matches(f, r)

\* A packet is selected exactly if every filter left to the scan holds of the packet
\* decoded in full, and a selected record's columns are those of the full decoding: no
\* filter is decided on a field that a smaller depth, or the packet before, left there.
StagedExact ==
    pc = "returned" /\ n > 0 =>
        /\ record.selected <=> Wanted(query, whole.record)
        /\ record.selected =>
            /\ \A c \in query.projected \cap BaseColumns : ValueOf(c, record) = ValueOf(c, whole.record)
            /\ query.scan \in {"tcp_streams", "dns_messages"} =>
                   record.transport_data = IF whole.record.decoded.payload_length > 0 THEN current.data ELSE ""

\* Every packet's bytes are read or skipped, once: the reader stands at the record's
\* end whichever stage returned, and never asks for more than was captured.
BytesExact ==
    n > 0 => /\ prefix + skipped <= current.size
             /\ pc = "returned" => prefix + skipped = current.size

\* "a filtered scan reads and decodes no more than the filter needs": bytes past the
\* headers of a depth are read only once the filters of that depth hold, the payload only
\* for a stage that uses it, and what follows the payload only for packet_data.
LazyReads ==
    LET d == whole.record.decoded
        uses == query.scan \in {"tcp_streams", "dns_messages"} \/ {DNS, TLS, PACKET_DATA} \cap Planned(query) # {}
    IN  n > 0 =>
        /\ \A s \in PACKET..TRANSPORT : prefix > whole.headers[s] =>
               \A f \in Pushed(query) : StageOf[f.column] <= s => Matches(f, whole.record)
        /\ prefix > whole.headers[TRANSPORT] =>
               uses /\ (query.scan = "dns" => DnsPacket(d))
        /\ prefix > whole.headers[TRANSPORT] /\ prefix > d.payload_offset + d.payload_length =>
               PACKET_DATA \in Planned(query)

\* A packet is read as far as its stages need, and exactly to its end (BytesExact,
\* LazyReads).
ReadsExact == BytesExact /\ LazyReads
=============================================================================
