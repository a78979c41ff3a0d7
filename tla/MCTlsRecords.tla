---------------------------- MODULE MCTlsRecords ----------------------------
(***************************************************************************)
(* TlsRecords on three families of streams: every way to cut two messages  *)
(* into up to three records, captured up to every byte; hellos with every  *)
(* short list of extensions; and directions with several chains of         *)
(* certificates.                                                           *)
(***************************************************************************)
EXTENDS TlsRecords, TLC

Extension(k, shape, n) == [kind |-> k, shape |-> shape, entries |-> n]
HelloOf(type, length, valid, xs) == [type |-> type, length |-> length, valid |-> valid, extensions |-> xs]
Cert(length, result, text) == [length |-> length, result |-> result, text |-> text]
Chain(framing, cs) == [type |-> "certificate", length |-> 3, framing |-> framing, certificates |-> cs]
Certs == {Cert(1, "OK", 2), Cert(1, "MALFORMED", 5), Cert(2, "OK", 1)}
OtherHandshake == [type |-> "other", length |-> 1]

Client == HelloOf("client_hello", 2, TRUE, <<>>)
Server == HelloOf("server_hello", 2, TRUE, <<>>)
Broken == HelloOf("client_hello", 0, FALSE, <<>>)
Huge == [OtherHandshake EXCEPT !.length = max_message_bytes + 1]
OneCert == Chain("ok", <<Cert(1, "OK", 2)>>)

Record(type, length) == [type |-> type, length |-> length]
BytesIn(ms) == Total(Lengths(ms)) + 4 * Len(ms)
StreamOf(ms, rs, junk, captured, order, transport) ==
    [messages |-> ms, records |-> rs, junk |-> junk, captured |-> captured, packets |-> order, transport |-> transport]
Size(rs, junk) == junk + Total(Lengths(rs)) + 5 * Len(rs)

\* Cut messages into records; `extra' goes between the pieces.
Body(length) == Record("handshake", length)
BodyCuts(n) == {<<Body(n)>>} \cup {<<Body(a), Body(n - a)>> : a \in 0..n}
           \cup {<<Body(a), Body(b), Body(n - a - b)>> : a \in {0, 3, 6}, b \in {0, 1, 3}}
With(extra, cut) == IF extra = "none" THEN cut ELSE <<Head(cut), Record(extra, 1)>> \o Tail(cut)

InOrder == <<1, 2, 3, 4, 5, 6, 7, 8, 9, 10, 11, 12>>
OutOfOrder == <<4, 2, 6, 1, 3, 8, 5, 7, 9, 12, 11, 10>>

CutStreams(ms) ==
    {StreamOf(ms, With(extra, cut), junk, 0..Size(With(extra, cut), junk), OutOfOrder, "CONTIGUOUS") :
        cut \in BodyCuts(BytesIn(ms)), extra \in {"none", "other", "change_cipher_spec"}, junk \in {0, 2}}

Plain(ms, transport) == StreamOf(ms, <<Body(BytesIn(ms))>>, 0, {BytesIn(ms) + 5}, InOrder, transport)

Extensions == {Extension(k, "broken", 1) : k \in Kinds} \cup {Extension(k, "entries", n) : k \in {"groups", "alpn"}, n \in 0..2}
              \cup {Extension("server_name", "entries", 1)}
ExtensionStreams(xss) ==
    {Plain(<<HelloOf(type, 2, TRUE, xs)>>, "UNANCHORED") : type \in {"client_hello", "server_hello"}, xs \in xss}

Chains == {Chain("ok", cs) : cs \in {<<>>} \cup {<<a>> : a \in Certs} \cup {<<a, b>> : a, b \in Certs} \cup {<<a, b, a>> : a, b \in Certs}}
          \cup {Chain("tail", <<Cert(1, "OK", 2)>>), Chain("list", <<>>), Chain("tail", <<Cert(1, "OVER_LIMIT", 0)>>)}
ChainStreams(chains) ==
    {Plain(<<Server, a, Client, b>>, "CONTIGUOUS") : a, b \in chains}
    \cup {Plain(<<Server, a, b, Client, OneCert, Server>>, "CONTIGUOUS") : a, b \in chains}

\* Records before the first handshake record, and streams the transport could not read.
LateStreams(types) ==
    {StreamOf(<<Client, Server>>, <<Record(type, 3), Body(a), Body(12 - a)>>, 0, 0..30, InOrder, transport) :
        type \in types, a \in {4, 6}, transport \in {"UNANCHORED", "GAPPED", "CONFLICT", "LIMIT"}}

AllCuts == UNION {CutStreams(ms) : ms \in {<<Client, OtherHandshake>>, <<Server, OneCert>>, <<Broken, OneCert>>, <<Huge>>}}
AllExtensions ==
    ExtensionStreams({<<>>} \cup {<<a>> : a \in Extensions} \cup {<<a, b>> : a, b \in Extensions}
                     \cup {<<a, b, a>> : a, b \in Extensions})
AllChains == ChainStreams(Chains)
AllStreams ==
    AllChains \cup (AllExtensions \cup (AllCuts \cup LateStreams({"other", "bad"})))

\* Directions to be paired with: sound, cut short, without its SYN, with a hello that did not parse.
Parsed(client, status, hs) ==
    [client |-> client, needs_confirmation |-> status = "UNANCHORED", prefix_bytes |-> 0, status |-> status, handshakes |-> hs]
ParsedHello(client, status) ==
    [server |-> ~client, first |-> 3, last |-> 9, chain |-> Absent, text |-> 0, unparsed |-> FALSE, status |-> status,
     hello |-> [lists |-> NoLists, types |-> IF status = "INVALID" THEN Absent ELSE "present", status |-> status]]
SomePeers ==
    {Parsed(client, status, <<ParsedHello(client, "UNSET")>>) : client \in BOOLEAN, status \in {"UNSET", "INCOMPLETE", "UNANCHORED"}}
    \cup {Parsed(client, "UNSET", <<ParsedHello(client, "INVALID"), ParsedHello(client, "UNSET")>>) : client \in BOOLEAN}

Stopped == step = "merged" /\ UNCHANGED tlsVars
=============================================================================
