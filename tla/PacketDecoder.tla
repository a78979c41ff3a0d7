--------------------------- MODULE PacketDecoder ---------------------------
(***************************************************************************)
(* DecodePacket: the link, network and transport headers of one captured   *)
(* packet, to a given depth.  A packet is described by what its headers    *)
(* say, a record with the fields                                           *)
(*   size                         bytes captured                           *)
(*   link, tags, type             link type, VLAN tags, EtherType          *)
(*   version, header, total       the IP version nibble; the IPv4 header   *)
(*                                length; the IPv4 total or IPv6 payload   *)
(*                                length                                   *)
(*   extensions                   the IPv6 extension headers               *)
(*   protocol, id, fragment, more the rest of the IP header                *)
(*   length, port                 the TCP header or UDP datagram length    *)
(* and the decoder sees of it what lies within `size'.  MACs, addresses,   *)
(* TTL and TCP numbers are set together with a field that is modelled and  *)
(* are left out.  Source: src/src/packet_decoder.cpp.                      *)
(***************************************************************************)
EXTENDS Integers, Sequences, SequencesExt

CONSTANTS
    VLAN_CAPACITY,      \* VlanStack::CAPACITY
    EXTENSIONS_MAX,     \* extension headers followed in one packet
    Null

ASSUME DecoderAssumption == VLAN_CAPACITY \in Nat /\ EXTENSIONS_MAX \in Nat

LINK == 1
NETWORK == 2
TRANSPORT == 3

\* DecodedPacket as it is constructed.
Undecoded ==
    [outcome |-> "NOT_REQUESTED", ethernet |-> FALSE, ether_type |-> Null, vlan_ids |-> 0,
     network |-> FALSE, ip_protocol |-> Null, ip_id |-> Null, fragment |-> 0, more |-> FALSE,
     transport |-> FALSE, tcp |-> FALSE, udp |-> FALSE, port |-> 0, udp_length |-> 0,
     payload_offset |-> 0, payload_length |-> 0]

\* The decoded packet so far, the Cursor, and the longest prefix asked of the source.
Cursor == [packet |-> Undecoded, offset |-> 0, end |-> 0, type |-> "none", read |-> 0]

Ends(c, outcome) == [c EXCEPT !.packet.outcome = outcome]
Fits(p, upto) == upto <= p.size
Lesser(a, b) == IF a < b THEN a ELSE b
Reading(c, upto) == [c EXCEPT !.read = IF @ < upto THEN upto ELSE @]

\* A stack of tags that is too deep, or cut, leaves nothing decoded.
DecodeEthernet(p, c) ==
    LET captured == (p.size - 14) \div 4
        tags == Lesser(p.tags, Lesser(VLAN_CAPACITY, captured))
        after == Reading(c, 14 + 4 * tags)
    IN  IF ~Fits(p, 14) THEN Ends(c, "MALFORMED")
        ELSE IF tags < p.tags THEN Ends(after, IF tags = VLAN_CAPACITY THEN "UNSUPPORTED" ELSE "MALFORMED")
        ELSE [after EXCEPT !.offset = 14 + 4 * tags, !.type = p.type,
                           !.packet.outcome = "DECODED", !.packet.ethernet = TRUE,
                           !.packet.ether_type = p.type, !.packet.vlan_ids = tags]

\* Raw IP takes the type from the version nibble; cooked captures carry it.
DecodeLink(p, c) ==
    LET Typed(at, type) == [Reading(c, at) EXCEPT !.packet.outcome = "DECODED", !.type = type]
        cooked == IF p.link = 113 THEN 16 ELSE 20
    IN  CASE p.link = 1 -> DecodeEthernet(p, c)
          [] p.link = 101 ->
               IF ~Fits(p, 1) THEN Ends(c, "MALFORMED")
               ELSE Typed(1, CASE p.version = 4 -> "ip4" [] p.version = 6 -> "ip6" [] OTHER -> "none")
          [] p.link \in {228, 229} -> Typed(0, IF p.link = 228 THEN "ip4" ELSE "ip6")
          [] p.link \in {113, 276} ->
               IF ~Fits(p, cooked) THEN Ends(c, "MALFORMED")
               ELSE [Typed(cooked, p.type) EXCEPT !.offset = cooked]
          [] OTHER -> Ends(c, "UNSUPPORTED")

DecodeIPv4(p, c) ==
    LET first == Reading(c, c.offset + 20)
    IN  IF ~Fits(p, c.offset + 20) THEN Ends(c, "MALFORMED")
        ELSE IF p.version # 4 \/ p.header < 20 \/ p.total < p.header \/ ~Fits(p, c.offset + p.header)
        THEN Ends(first, "MALFORMED")
        ELSE [Reading(first, c.offset + p.header) EXCEPT
                !.end = c.offset + p.total, !.offset = c.offset + p.header,
                !.packet.ip_protocol = p.protocol, !.packet.ip_id = p.id,
                !.packet.fragment = p.fragment, !.packet.more = p.more]

\* The loop over the extension headers, one header at a time: `c.packet.outcome' is
\* "DECODED" while it goes on, and a later fragment ends it.
DecodeIPv6Extension(p, c, i) ==
    LET x == p.extensions[i]
        next == IF i = Len(p.extensions) THEN p.protocol ELSE p.extensions[i + 1].kind
        Within(n) == c.offset + n <= c.end /\ Fits(p, c.offset + n)
        eight == Reading(c, c.offset + 8)
        fragment == x.kind = "fragment"
    IN  IF c.packet.outcome # "DECODED" \/ c.packet.fragment # 0 THEN c
        ELSE IF i > EXTENSIONS_MAX THEN Ends(c, "UNSUPPORTED")
        ELSE IF ~Within(8) THEN Ends(c, "MALFORMED")
        ELSE IF \/ fragment /\ c.packet.ip_id # Null
                \/ x.kind = "auth" /\ x.length < 12
                \/ ~Within(x.length)
        THEN Ends(eight, "MALFORMED")
        ELSE [Reading(eight, c.offset + x.length) EXCEPT
                !.offset = c.offset + x.length, !.packet.ip_protocol = next,
                !.packet.ip_id = IF fragment THEN p.id ELSE @,
                !.packet.fragment = IF fragment THEN p.fragment ELSE @,
                !.packet.more = IF fragment THEN p.more ELSE @]

DecodeIPv6(p, c) ==
    LET first == [Reading(c, c.offset + 40) EXCEPT
                    !.end = c.offset + 40 + p.total, !.offset = c.offset + 40,
                    !.packet.ip_protocol = IF p.extensions = <<>> THEN p.protocol ELSE p.extensions[1].kind]
        Step(d, i) == DecodeIPv6Extension(p, d, i)
    IN  IF ~Fits(p, c.offset + 40) THEN Ends(c, "MALFORMED")
        ELSE IF p.version # 6 THEN Ends(Reading(c, c.offset + 40), "MALFORMED")
        ELSE FoldLeft(Step, first, [i \in DOMAIN p.extensions |-> i])

\* The packet is left as the link layer made it unless the whole chain of headers is valid.
DecodeNetwork(p, c) ==
    LET done == CASE c.type = "ip4" -> DecodeIPv4(p, c)
                  [] c.type = "ip6" -> DecodeIPv6(p, c)
                  [] OTHER -> Ends(c, IF p.link = 101 /\ c.type = "none" THEN "MALFORMED" ELSE "UNSUPPORTED")
    IN  IF done.packet.outcome = "DECODED" THEN [done EXCEPT !.packet.network = TRUE]
        ELSE [c EXCEPT !.read = done.read, !.packet.outcome = done.packet.outcome]

\* The ports and the captured part of the payload.
Located(p, c, header, end) ==
    [c EXCEPT !.packet.transport = TRUE, !.packet.port = p.port,
              !.packet.payload_offset = c.offset + header,
              !.packet.payload_length = Lesser(end, p.size) - c.offset - header]

DecodeTransport(p, c) ==
    LET Within(n) == c.offset + n <= c.end /\ Fits(p, c.offset + n)
    IN  CASE c.packet.ip_protocol = "tcp" ->
               IF ~Within(20) THEN Ends(c, "MALFORMED")
               ELSE IF p.length < 20 \/ ~Within(p.length) THEN Ends(Reading(c, c.offset + 20), "MALFORMED")
               ELSE [Located(p, Reading(c, c.offset + p.length), p.length, c.end) EXCEPT !.packet.tcp = TRUE]
          [] c.packet.ip_protocol = "udp" ->
               IF ~Within(8) THEN Ends(c, "MALFORMED")
               ELSE IF p.length < 8 \/ c.offset + p.length > c.end THEN Ends(Reading(c, c.offset + 8), "MALFORMED")
               ELSE [Located(p, Reading(c, c.offset + 8), 8, c.offset + p.length)
                        EXCEPT !.packet.udp = TRUE, !.packet.udp_length = p.length]
          [] OTHER -> Ends(c, "UNSUPPORTED")

\* The decoded packet, and the prefix that decoding it asked for.
DecodePacket(p, depth) ==
    LET link == DecodeLink(p, Cursor)
        network == DecodeNetwork(p, link)
        fragmented == network.packet.fragment # 0 \/ network.packet.more
    IN  IF depth = LINK /\ p.link # 1 THEN Ends(Cursor, "UNSUPPORTED")
        ELSE IF link.packet.outcome # "DECODED" \/ depth = LINK THEN link
        ELSE IF network.packet.outcome # "DECODED" THEN network
        ELSE IF fragmented THEN Ends(network, "FRAGMENT")
        ELSE IF depth = NETWORK THEN network
        ELSE DecodeTransport(p, network)
=============================================================================
