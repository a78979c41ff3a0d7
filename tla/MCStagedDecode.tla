--------------------------- MODULE MCStagedDecode ---------------------------
(* Instance of StagedDecode for TLC. *)
EXTENDS StagedDecode, TLC

HelloPayload == [type |-> "handshake", length |-> 15, message |-> "client_hello", message_length |-> 11,
          body |-> "named", sni |-> "a.example"]
NotTls == [HelloPayload EXCEPT !.type = "not_tls"]
Payload(t, framed, id) == [tls |-> t, prefix |-> framed, dns |-> id]

\* A TCP segment on Ethernet with 20 bytes of payload and 4 of padding.
Tcp == [size |-> 78, link |-> 1, tags |-> 0, type |-> "ip4", version |-> 4, header |-> 20, total |-> 60,
        extensions |-> <<>>, protocol |-> "tcp", id |-> 7, fragment |-> 0, more |-> FALSE, length |-> 20,
        port |-> 443, timestamp |-> 5, data |-> "x", payload |-> Payload(HelloPayload, 0, Null)]
Udp == [Tcp EXCEPT !.protocol = "udp", !.length = 40, !.port = 53, !.payload = Payload(NotTls, 0, 9)]
TcpDns == [Tcp EXCEPT !.port = 53, !.payload = Payload(NotTls, 18, 9)]
Tcp6 == [Tcp EXCEPT !.type = "ip6", !.version = 6, !.size = 98, !.total = 40]

WithTls(t) == [Tcp EXCEPT !.payload.tls = t]
WithExtensions(xs) ==
    [Tcp6 EXCEPT !.extensions = xs, !.size = 98 + 8 * Len(xs), !.total = 40 + 8 * Len(xs)]
Hop == [kind |-> "hop", length |-> 8]
Frag == [kind |-> "fragment", length |-> 8]
Auth == [kind |-> "auth", length |-> 8]

\* Captured lengths that end within each header, within the payload, and before it.
Cuts == {[Tcp EXCEPT !.size = s] : s \in {0, 13, 14, 33, 34, 53, 54, 58, 60, 74}}
Tagged == {[Tcp EXCEPT !.tags = t, !.size = 78 + 4 * t] : t \in 1..VLAN_CAPACITY + 1} \cup {[Tcp EXCEPT !.tags = 1, !.size = 16]}
Links == {[Tcp EXCEPT !.link = 101, !.size = 60], [Tcp EXCEPT !.link = 101, !.version = 0, !.size = 60],
          [Tcp EXCEPT !.link = 228, !.size = 60], [Tcp6 EXCEPT !.link = 229, !.size = 80],
          [Tcp EXCEPT !.link = 113, !.size = 76], [Tcp EXCEPT !.link = 276, !.size = 19],
          [Tcp EXCEPT !.link = 9]}
Networks == {[Tcp EXCEPT !.type = "other"], [Tcp EXCEPT !.version = 6], [Tcp EXCEPT !.header = 16],
             [Tcp EXCEPT !.header = 24], [Tcp EXCEPT !.header = 24, !.total = 20], [Tcp EXCEPT !.more = TRUE],
             [Tcp EXCEPT !.fragment = 8], [Tcp EXCEPT !.protocol = "other"]}
Sixes == {WithExtensions(xs) : xs \in {<<>>, <<Hop>>, <<Frag>>, <<Frag, Frag>>, <<Hop, Auth>>, <<Hop, Frag, Hop>>}}
         \cup {[WithExtensions(<<Frag>>) EXCEPT !.fragment = 8], [WithExtensions(<<Frag, Frag>>) EXCEPT !.fragment = 8],
               [WithExtensions(<<Hop>>) EXCEPT !.total = 4], [WithExtensions(<<Hop>>) EXCEPT !.size = 58]}
Transports == {[Tcp EXCEPT !.length = 16], [Tcp EXCEPT !.length = 44], [Tcp EXCEPT !.total = 40],
               [Udp EXCEPT !.length = 7], [Udp EXCEPT !.length = 41], [Udp EXCEPT !.length = 8],
               [Udp EXCEPT !.size = 70], [Udp EXCEPT !.port = 99], [Udp EXCEPT !.payload.dns = Null],
               [TcpDns EXCEPT !.payload.prefix = 9], [TcpDns EXCEPT !.total = 41]}
TlsShapes == {WithTls([HelloPayload EXCEPT !.type = "other"]), WithTls([HelloPayload EXCEPT !.message = "other"]),
              WithTls([HelloPayload EXCEPT !.length = 3]), WithTls([HelloPayload EXCEPT !.message_length = 12]),
              WithTls([HelloPayload EXCEPT !.body = "broken"]), WithTls([HelloPayload EXCEPT !.length = 16]),
              WithTls([HelloPayload EXCEPT !.body = "unnamed"]), [Tcp EXCEPT !.timestamp = Null, !.data = "y"]}
AllPackets == Cuts \cup Tagged \cup Links \cup Networks \cup Sixes \cup Transports \cup TlsShapes
              \cup {Tcp, Udp, TcpDns}

\* A packet alone, and after one that left TLS or DNS in the record.
AllCaptures == {<<q>> : q \in AllPackets} \cup {<<Tcp, q>> : q \in AllPackets} \cup {<<Udp, q>> : q \in {Tcp, TcpDns}}

Filter(c, op, value) == [column |-> c, op |-> op, value |-> value, advisory |-> FALSE]
Nullness(c) == {Filter(c, "null", Null), Filter(c, "not_null", Null)}
PacketFilters ==
    UNION {Nullness(c) : c \in {"timestamp", "ether_type", "ip_id", "tcp_flags", "tls_sni"}}
    \cup {Filter("is_tls", "equals", "false"), Filter("packet_data", "equals", "x"), Filter("udp_length", "null", Null),
          Filter("vlan_ids", "not_null", Null), Filter("partition", "null", Null),
          [Filter("src_port", "null", Null) EXCEPT !.advisory = TRUE]}
DnsFilters == Nullness("dns_id") \cup Nullness("timestamp")
              \cup {Filter("tls_sni", "null", Null), Filter("tcp_flags", "not_null", Null), Filter("packet_data", "equals", "x")}

UpToOne(S) == {{}} \cup {{x} : x \in S}
UpToTwo(S) == {{}} \cup {{x, y} : x, y \in S}
Query(scan, projected, filters) == [scan |-> scan, projected |-> projected, filters |-> filters]
AllQueries ==
    {Query("packets", {"tls_sni", "tls_truncated"}, f) : f \in UpToTwo(PacketFilters)}
    \cup {Query("packets", c, f) : c \in {{"ip_id"}, {"packet_data"}}, f \in UpToOne(PacketFilters)}
    \cup {Query("dns", c, f) : c \in {{"payload_length"}, {"dns_id"}}, f \in UpToTwo(DnsFilters)}
    \cup {Query(scan, {}, {}) : scan \in {"tcp_streams", "dns_messages"}}

Finished == StagedDone /\ UNCHANGED stagedVars
=============================================================================
