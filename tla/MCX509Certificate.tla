------------------------- MODULE MCX509Certificate --------------------------
(***************************************************************************)
(* X509Certificate on three families of certificates: every way to leave   *)
(* out, retag or cut off one field; pairs of extensions, and triples whose *)
(* last is a copy of the first's kind; and times around the turns of       *)
(* months, leap years, centuries and eras.                                 *)
(***************************************************************************)
EXTENDS X509Certificate

Node(tag, content) == [tag |-> tag, whole |-> TRUE, octets |-> <<>>, content |-> content]
Leaf(tag, octets) == [tag |-> tag, whole |-> TRUE, octets |-> octets, content |-> <<>>]
Cut(e) == [e EXCEPT !.whole = FALSE]
OidOf(n) == Leaf("oid", <<n>>)
NoOid == Leaf("oid", <<>>)

-----------------------------------------------------------------------------
(* Fields. *)

TwoDigits(n) == <<n \div 10, n % 10>>
Rest5(month, day, h, m, s) == TwoDigits(month) \o TwoDigits(day) \o TwoDigits(h) \o TwoDigits(m) \o TwoDigits(s) \o <<Z>>
Generalized(year, rest) == Leaf("generalized_time", TwoDigits(year \div 100) \o TwoDigits(year % 100) \o rest)
Utc(year, rest) == Leaf("utc_time", TwoDigits(year) \o rest)
Noon == Utc(24, Rest5(2, 29, 12, 0, 59))

Attribute(n) == Node("sequence", <<OidOf(3), Leaf("utf8", <<n>>)>>)
NameWith(sets) == Node("sequence", [i \in DOMAIN sets |-> Node("set", sets[i])])
Plain509 == NameWith(<<<<Attribute(1)>>, <<Attribute(2), Attribute(3)>>>>)
Names509 ==
    {Plain509, NameWith(<<>>), NameWith(<<<<>>>>), NameWith(<<<<Attribute(1)>>, <<Attribute(2), Attribute(3), Attribute(4)>>>>),
     NameWith(<<<<Attribute(1), Cut(Attribute(2))>>>>), NameWith(<<<<Node("sequence", <<NoOid, Leaf("utf8", <<1>>)>>)>>>>),
     Node("set", <<>>), Node("sequence", <<Cut(Node("set", <<Attribute(1)>>))>>)}

Integer(o) == Leaf("integer", o)
KeyInfo(algorithm, key) == Node("sequence", <<Node("sequence", algorithm), key>>)
NoBits == Leaf("bit_string", <<0>>)
Keys ==
    {KeyInfo(<<OidOf(RSA), Leaf("null", <<>>)>>, [NoBits EXCEPT !.content = <<Node("sequence", <<Integer(<<0, 128, 1>>)>>)>>]),
     KeyInfo(<<OidOf(EC), OidOf(7)>>, NoBits), KeyInfo(<<OidOf(EC), OidOf(8)>>, NoBits),
     KeyInfo(<<OidOf(EC), Node("sequence", <<Integer(<<1>>), Node("sequence", <<>>), Node("sequence", <<>>), Leaf("octet_string", <<>>), Integer(<<3, 9>>)>>)>>, NoBits),
     KeyInfo(<<OidOf(DSA), Node("sequence", <<Integer(<<0>>)>>)>>, NoBits), KeyInfo(<<NoOid>>, NoBits), Node("sequence", <<>>)}
AnyKey == CHOOSE k \in Keys : TRUE

Times(before, after) == Node("sequence", <<before, after>>)
Body509(issuer, times, subject, key) == <<Integer(<<7>>), Node("sequence", <<OidOf(RSA)>>), issuer, times, subject, key>>
Sound == Body509(Plain509, Times(Noon, Noon), Plain509, AnyKey)
Whole509(outer) == <<Node("sequence", outer)>>
CertificateOf(tbs) == Whole509(<<Node("sequence", tbs), Node("sequence", <<OidOf(RSA)>>), NoBits>>)

ExtensionsOf(list) == Node("extensions", <<Node("sequence", list)>>)
FullTbs ==
    {v \o Sound \o i \o s \o x : v \in {<<>>, <<Leaf("version", <<2>>)>>}, i \in {<<>>, <<Leaf("issuer_uid", <<>>)>>},
                                 s \in {<<>>, <<Leaf("subject_uid", <<>>)>>}, x \in {<<>>, <<ExtensionsOf(<<>>)>>}}
Without(s, i) == SubSeq(s, 1, i - 1) \o SubSeq(s, i + 1, Len(s))
CutAt(s, i) == Append(SubSeq(s, 1, i - 1), Cut(s[i]))
Retagged(s, i, tag) == [s EXCEPT ![i].tag = tag]
Variants(s) ==
    {s} \cup UNION {{Without(s, i), CutAt(s, i), Retagged(s, i, "set"), Retagged(s, i, "version")} : i \in DOMAIN s}
OuterCertificates ==
    {Whole509(outer) : outer \in Variants(CertificateOf(Sound)[1].content)}
    \cup {<<>>, <<Cut(CertificateOf(Sound)[1])>>, CertificateOf(Sound) \o <<NoBits>>}
FieldTbs ==
    UNION {Variants(t) : t \in FullTbs}
    \cup {Body509(a, Times(Noon, Noon), b, k) : a, b \in Names509, k \in Keys}
    \cup {[Sound EXCEPT ![1].octets = <<>>],
          Append(Sound, Node("extensions", <<Node("sequence", <<>>), NoBits>>)),
          [Sound EXCEPT ![4] = Node("sequence", <<Noon>>)]}

-----------------------------------------------------------------------------
(* Extensions. *)

Value(v) == [Leaf("octet_string", <<>>) EXCEPT !.content = v]
ExtensionOf(k, v) == Node("sequence", <<OidOf(k), Value(v)>>)
Wrapped(list) == <<Node("sequence", list)>>
Ip(n) == Leaf("ip_address", [i \in 1..n |-> i])
Dns == Leaf("dns_name", <<1>>)
Uri(n) == Leaf("uri", <<n>>)
Ca == Leaf("boolean", <<255>>)
AccessTo(n, location) == Node("sequence", <<OidOf(n), location>>)
Point(names) == Node("sequence", <<Node("context_0_set", <<Node("context_0_set", names)>>)>>)
PolicyOf(n, more) == Node("sequence", <<OidOf(n)>> \o more)
Id == Leaf("context_0", <<9>>)
Issuer == Node("context_1_set", <<>>)
SerialNumber == Leaf("context_2", <<1>>)

ValuesOf(k) ==
    CASE k = SAN -> {Wrapped(list) : list \in {<<>>, <<Dns, Uri(1), Ip(4)>>, <<Ip(16), Ip(4), Dns>>, <<Ip(5)>>, <<Dns, Cut(Dns)>>}} \cup {<<>>}
      [] k = BASIC -> {Wrapped(list) : list \in {<<>>, <<Ca>>, <<Leaf("boolean", <<0>>), Integer(<<0, 200>>)>>, <<Integer(<<200>>)>>, <<Integer(<<3>>), Ca>>,
                                                 <<Ca, Integer(<<1, 0, 0, 0, 0>>)>>, <<Ca, Integer(<<0, 1, 0, 0, 0>>)>>, <<Ca, Cut(Integer(<<1>>))>>}}
      [] k = USAGE -> {<<Leaf("bit_string", o)>> : o \in {<<>>, <<0>>, <<1>>, <<5, 160>>, <<7, 1, 128>>, <<8, 1>>, <<0, 3, 255>>}}
      [] k = PURPOSES -> {Wrapped(list) : list \in {<<>>, <<OidOf(1)>>, <<OidOf(1), NoOid>>, <<OidOf(1), OidOf(2), OidOf(3)>>, <<NoOid, OidOf(1), OidOf(2), OidOf(3)>>,
                                                    <<OidOf(1), OidOf(2), OidOf(3), NoOid>>}}
      [] k = SUBJECT_ID -> {<<Leaf("octet_string", <<4>>)>>, <<Leaf("octet_string", <<>>)>>, <<>>}
      [] k = AUTHORITY_ID -> {Wrapped(list) : list \in {<<>>, <<Id>>, <<Id, Issuer, SerialNumber>>, <<Issuer, Id>>, <<Id, Id>>, <<SerialNumber>>, <<Leaf("context_0", <<>>)>>}}
      [] k = ACCESS -> {Wrapped(list) : list \in {<<>>, <<AccessTo(OCSP, Uri(1)), AccessTo(ISSUERS, Uri(2)), AccessTo(OCSP, Uri(3))>>, <<AccessTo(OCSP, Dns), AccessTo(5, Uri(1))>>,
                                                  <<AccessTo(OCSP, Uri(1)), Node("sequence", <<OidOf(OCSP)>>)>>,
                                                  <<AccessTo(OCSP, Uri(1)), AccessTo(OCSP, Uri(2)), AccessTo(OCSP, Uri(3))>>}}
      [] k = CRL -> {Wrapped(list) : list \in {<<>>, <<Point(<<Uri(1), Dns>>), Point(<<Uri(2)>>)>>, <<Point(<<Uri(1), Uri(2)>>), Point(<<Uri(3)>>)>>,
                                               <<Point(<<Uri(1), Cut(Dns)>>)>>, <<Node("sequence", <<Issuer>>), Node("sequence", <<Node("context_0_set", <<Issuer>>)>>)>>,
                                               <<Point(<<Uri(1)>>), Node("sequence", <<Node("context_0_set", <<>>)>>)>>}}
      [] k = POLICIES -> {Wrapped(list) : list \in {<<>>, <<PolicyOf(1, <<>>), PolicyOf(2, <<Node("sequence", <<>>)>>)>>, <<PolicyOf(1, <<Dns>>)>>,
                                                    <<PolicyOf(1, <<>>), PolicyOf(2, <<>>), PolicyOf(3, <<>>)>>}}
OfKind(k) == {ExtensionOf(k, v) : v \in ValuesOf(k)}
Others ==
    {ExtensionOf(99, <<>>), Node("sequence", <<NoOid, Value(<<>>)>>), Node("sequence", <<OidOf(BASIC), Ca, Value(Wrapped(<<Ca>>))>>),
     Node("sequence", <<OidOf(BASIC), Value(<<>>), Ca>>), Cut(ExtensionOf(99, <<>>))}
AnyExtension == Others \cup UNION {OfKind(k) : k \in ReadExtensions}
Pairs == {<<a, b>> : a, b \in AnyExtension}
Triples == UNION {{<<a, b, c>> : a, c \in OfKind(k), b \in OfKind(SUBJECT_ID) \cup OfKind(k)} : k \in ReadExtensions}
ExtensionTbs ==
    {Append(Sound, ExtensionsOf(list)) : list \in Pairs \cup Triples \cup {<<a>> : a \in AnyExtension}}

-----------------------------------------------------------------------------
(* Times. *)

EdgeDays == {0, 1, 28, 29, 30, 31, 32}
Dated(month, day) == Rest5(month, day, 0, 0, 0)
TimesOf ==
    {Generalized(y, Dated(m, d)) : y \in {0, 1, 400, 1600, 1900, 1970, 1999, 2000, 2100}, m \in 0..13, d \in EdgeDays}
    \cup {Generalized(9999, Dated(12, 31))}
    \cup {Utc(y, Dated(m, d)) : y \in {0, 49, 50, 99}, m \in {1, 2, 3, 12}, d \in EdgeDays}
    \cup {Utc(70, Rest5(1, 1, h, m, s)) : h \in {0, 23, 24}, m \in {0, 59, 60}, s \in {0, 59, 60}}
    \cup {Utc(70, Rest5(1, 1, 0, 0, 0) \o <<Z>>), Leaf("utf8", Noon.octets), Utc(70, [Dated(1, 1) EXCEPT ![11] = 0]), Utc(70, [Dated(1, 1) EXCEPT ![2] = Z])}
TimeTbs == {Body509(Plain509, Times(t, Noon), Plain509, AnyKey) : t \in TimesOf}

AllCertificates == {CertificateOf(tbs) : tbs \in FieldTbs \cup TimeTbs \cup ExtensionTbs} \cup OuterCertificates
Parsed509 == x509 # "parsing" /\ UNCHANGED x509Vars
=============================================================================
