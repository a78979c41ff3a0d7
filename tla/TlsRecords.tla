----------------------------- MODULE TlsRecords -----------------------------
(***************************************************************************)
(* TlsHandshakeAssembler::Parse: the handshake messages of one direction,  *)
(* from the first chunk of its reassembled stream.  Handshake messages are *)
(* a byte stream of their own, cut into TLS records without regard to the  *)
(* messages; the records are preceded by what a tunnel said, mixed with    *)
(* other records, and end where the capture, a gap or encryption does.     *)
(*                                                                         *)
(* A stream is given by what its sender sent: `junk' bytes, then `records' *)
(* [type, length], whose handshake bodies carry `messages' one after the   *)
(* other; `captured' bytes of it are in the chunk, and byte b came in      *)
(* packet packets[1 + b \div Mss].  Lengths are real; of the bodies only   *)
(* what the parsers decide on is kept.  The tunnel's own words and the     *)
(* fields copied to the row are left out.                                  *)
(* Source: src/src/tls_handshake.cpp.                                      *)
(***************************************************************************)
EXTENDS Integers, Sequences, SequencesExt, FiniteSetsExt

CONSTANTS
    TlsStreams,             \* the streams that may arrive; `captured' holds the lengths to try
    Mss,                    \* bytes of the stream in one packet
    Peers,                  \* the directions it may be paired with
    max_handshakes, max_message_bytes, max_extensions, max_list_entries,
    max_certificates, max_certificate_bytes, max_direction_certificate_bytes, max_tunnel_prefix_bytes

ASSUME TlsRecordsAssumption ==
    /\ Mss \in Nat \ {0}
    /\ {max_handshakes, max_message_bytes, max_extensions, max_list_entries, max_certificates,
        max_certificate_bytes, max_direction_certificate_bytes, max_tunnel_prefix_bytes} \subseteq Nat

VARIABLES
    stream,
    step,           \* where Parse is
    at,             \* the record CollectHandshakeBytes is at
    spans,          \* record_spans, <<offset in the chunk, length>>
    truncated,
    origin,         \* handshake bytes the sender sent before the first record read
    message_offset, \* in the concatenated bodies
    held,           \* certificate_bytes
    rows,           \* what Merge made of it
    direction       \* [client, needs_confirmation, prefix_bytes, status, handshakes]

tlsVars == <<stream, step, at, spans, truncated, origin, message_offset, held, rows, direction>>

-----------------------------------------------------------------------------
(* Where things lie in the stream. *)

Total(lengths) == FoldLeft(LAMBDA sum, l : sum + l, 0, lengths)
Lengths(rs) == [i \in DOMAIN rs |-> rs[i].length]

\* Offset of record i in the chunk.
RecordAt(s, i) == s.junk + Total(Lengths(SubSeq(s.records, 1, i - 1))) + 5 * (i - 1)
IsHandshake(r) == r.type = "handshake"

\* Handshake bytes the sender had sent before record i; where message m starts.
BodyAt(s, i) == Total(Lengths(SelectSeq(SubSeq(s.records, 1, i - 1), IsHandshake)))
MessageAt(s, m) == Total(Lengths(SubSeq(s.messages, 1, m - 1))) + 4 * (m - 1)
MessageAtBody(s, b) == {m \in DOMAIN s.messages : MessageAt(s, m) = b}

\* A record header starts at the record and is captured; so is its body.
HasHeader(s, i) == i \in DOMAIN s.records /\ s.captured - RecordAt(s, i) >= 5
HasBody(s, i) == s.records[i].length <= s.captured - RecordAt(s, i) - 5

-----------------------------------------------------------------------------
(* The body of a hello: its extensions, kind by kind. *)

Absent == "absent"
Kinds == {"server_name", "groups", "alpn"}
NoLists == [k \in Kinds |-> Absent]

\* ReadServerName, ReadCodes and ReadAlpn: what one copy of an extension gives.
ReadList(client, x) ==
    CASE \/ x.shape = "broken"
         \/ x.kind = "alpn" /\ x.entries = 0
         \/ x.kind = "alpn" /\ ~client /\ x.entries # 1 -> "malformed"
      [] x.kind # "server_name" /\ x.entries > max_list_entries -> "over_limit"
      [] OTHER -> "present"

\* The extensions this layer reads; a server's are fewer.
Reported(client, x) == client \/ x.kind = "alpn"

\* Duplicate: a second copy of an extension makes its list malformed.
WithList(client, lists, x) == [lists EXCEPT ![x.kind] = IF @ = Absent THEN ReadList(client, x) ELSE "malformed"]

\* ParseExtensions, then the status ParseHello gives: the walk stops at the extension past
\* the limit, and an over-long list leaves its mark even if a second copy discards it.
ParseExtensions(client, xs) ==
    LET many == Len(xs) > max_extensions
        read == SelectSeq(SubSeq(xs, 1, IF many THEN max_extensions ELSE Len(xs)), LAMBDA x : Reported(client, x))
        Walk(w, x) == [lists |-> WithList(client, w.lists, x),
                       exceeded |-> \/ w.exceeded
                                    \/ w.lists[x.kind] = Absent /\ ReadList(client, x) = "over_limit"]
        walked == FoldLeft(Walk, [lists |-> NoLists, exceeded |-> many], read)
    IN  [lists |-> walked.lists, types |-> IF many THEN "over_limit" ELSE "present",
         status |-> IF walked.exceeded THEN "LIMIT" ELSE "UNSET"]

\* ParseHello and, for a hello that does not parse, ClearHello.
ParseHello(m) ==
    IF m.valid THEN ParseExtensions(m.type = "client_hello", m.extensions)
    ELSE [lists |-> NoLists, types |-> Absent, status |-> "INVALID"]

IsHello(m) == m.type \in {"client_hello", "server_hello"}

\* HelloAt: a hello lies whole in the record that begins at record i, and parses.
HelloAt(s, i) ==
    /\ HasHeader(s, i) /\ HasBody(s, i)
    /\ IsHandshake(s.records[i])
    /\ \E m \in MessageAtBody(s, BodyAt(s, i)) :
          /\ IsHello(s.messages[m]) /\ s.messages[m].valid
          /\ s.messages[m].length + 4 <= s.records[i].length
          /\ s.messages[m].length <= max_message_bytes

-----------------------------------------------------------------------------
(* A Certificate message. *)

\* One certificate of the chain c = [state, n, held, unparsed]: one too many, one too long, or one
\* whose text is past what the direction may hold drops the chain.
ReadCertificate(c, x) ==
    LET over == \/ c.n >= max_certificates \/ x.length > max_certificate_bytes
                \/ x.result = "OVER_LIMIT"
                \/ x.result = "OK" /\ x.text > max_direction_certificate_bytes - c.held
    IN  IF c.state # "present" THEN c
        ELSE IF over THEN [c EXCEPT !.state = "over_limit"]
        ELSE [c EXCEPT !.n = @ + 1, !.held = IF x.result = "OK" THEN @ + x.text ELSE @,
                       !.unparsed = @ \/ x.result = "MALFORMED"]

\* The chain of message m, when `before' bytes are held: framing is "ok", "list" (its
\* length is wrong) or "tail" (bytes that are no certificate follow the last one).
ReadChain(m, before) ==
    LET c == FoldLeft(ReadCertificate, [state |-> "present", n |-> 0, held |-> before, unparsed |-> FALSE], m.certificates)
    IN  IF m.framing = "list" THEN [c EXCEPT !.state = "malformed", !.unparsed = TRUE]
        ELSE IF c.state = "present" /\ m.framing = "tail" THEN [c EXCEPT !.state = "malformed", !.unparsed = TRUE]
        ELSE c

\* Mutant of ParseCertificates: a chain that is dropped keeps its charge.
ParseCertificatesKept(h, m, before) ==
    LET chain == ReadChain(m, before)
    IN  IF h.chain # Absent
        THEN [handshake |-> [h EXCEPT !.chain = "malformed", !.text = 0, !.unparsed = TRUE], held |-> before - h.text]
        ELSE [handshake |-> [h EXCEPT !.chain = chain.state,
                                      !.text = IF chain.state = "present" THEN chain.held - before ELSE 0,
                                      !.status = IF chain.state = "over_limit" /\ @ = "UNSET" THEN "LIMIT" ELSE @],
              held |-> chain.held]

\* ParseCertificates for the newest handshake h: a second chain drops the first and
\* gives its bytes back, and a chain that is dropped itself holds nothing.
ParseCertificates(h, m, before) ==
    LET chain == ReadChain(m, before)
        kept == IF chain.state = "present" THEN chain.held ELSE before
    IN  IF h.chain # Absent
        THEN [handshake |-> [h EXCEPT !.chain = "malformed", !.text = 0, !.unparsed = TRUE], held |-> before - h.text]
        ELSE [handshake |-> [h EXCEPT !.chain = chain.state, !.text = kept - before,
                                      !.unparsed = chain.unparsed /\ chain.state # "over_limit",
                                      !.status = IF chain.state = "over_limit" /\ @ = "UNSET" THEN "LIMIT" ELSE @],
              held |-> kept]

-----------------------------------------------------------------------------
(* Where the bytes of a message came from. *)

SpanStart(i) == Total([j \in 1..(i - 1) |-> spans[j][2]])
HandshakeBytes == SpanStart(Len(spans) + 1)

\* Mutant of Locate: a message is looked up in the first record it touches only.
LocateFirst(begin, length) ==
    LET index == Max({i \in DOMAIN spans : SpanStart(i) <= begin})
        first == spans[index][1] + begin - SpanStart(index)
    IN  <<first, Min({first + length, spans[index][1] + spans[index][2]})>>

\* RecordLocator::Locate: from where the range starts to where its last span ends it.
Locate(begin, length) ==
    LET index == Max({i \in DOMAIN spans : SpanStart(i) <= begin})
        final == Max({i \in DOMAIN spans : SpanStart(i) < begin + length})
    IN  <<spans[index][1] + begin - SpanStart(index),
          spans[final][1] + Min({spans[final][2], begin + length - SpanStart(final)})>>

\* TcpStreamChunk::Provenance of the bytes from..to-1: the least and greatest packet number.
Provenance(s, from, to) ==
    LET numbers == {s.packets[i] : i \in (1 + from \div Mss)..(1 + (to - 1) \div Mss)}
    IN  <<Min(numbers), Max(numbers)>>

-----------------------------------------------------------------------------
(* Parse, one record or one message to a step. *)

NoDirection == [client |-> FALSE, needs_confirmation |-> FALSE, prefix_bytes |-> 0, status |-> "UNSET", handshakes |-> <<>>]

TlsStart ==
    /\ step = "locate" /\ at = 1 /\ spans = <<>> /\ truncated = FALSE
    /\ origin = 0 /\ message_offset = 0 /\ held = 0 /\ rows = <<>>
    /\ direction = NoDirection
TlsInit ==
    /\ \E s \in TlsStreams : \E length \in s.captured : stream = [s EXCEPT !.captured = length]
    /\ TlsStart

Finish(status) ==
    /\ step' = "parsed"
    /\ direction' = [direction EXCEPT !.status = status]

\* CONFLICT and LIMIT streams are reported as they are; the rest is looked at if it has
\* a chunk that starts at the first byte.
Unreadable ==
    /\ step = "locate"
    /\ stream.transport \in {"CONFLICT", "LIMIT"} \/ stream.captured = 0
    /\ Finish(IF stream.transport \in {"CONFLICT", "LIMIT"} THEN stream.transport ELSE "UNSET")
    /\ UNCHANGED <<stream, at, spans, truncated, origin, message_offset, held, rows>>

StartsWithRecord(s) == s.junk = 0 /\ HasHeader(s, 1) /\ IsHandshake(s.records[1])

\* The first byte begins a handshake record, or a hello follows a short prefix.
FindHello ==
    LET found == {i \in DOMAIN stream.records : /\ RecordAt(stream, i) \in 1..max_tunnel_prefix_bytes
                                                /\ HelloAt(stream, i)}
    IN  /\ step = "locate"
        /\ stream.transport \notin {"CONFLICT", "LIMIT"} /\ stream.captured > 0
        /\ \/ /\ StartsWithRecord(stream)
              /\ step' = "collect"
              /\ UNCHANGED <<at, origin, direction>>
           \/ /\ ~StartsWithRecord(stream) /\ found # {}
              /\ step' = "collect" /\ at' = Min(found) /\ origin' = BodyAt(stream, Min(found))
              /\ direction' = [direction EXCEPT !.needs_confirmation = stream.transport = "UNANCHORED",
                                                !.prefix_bytes = RecordAt(stream, Min(found))]
           \/ /\ ~StartsWithRecord(stream) /\ found = {}
              /\ step' = "parsed"
              /\ direction' = [direction EXCEPT !.needs_confirmation = stream.transport = "UNANCHORED"]
              /\ UNCHANGED <<at, origin>>
        /\ UNCHANGED <<stream, spans, truncated, message_offset, held, rows>>

\* CollectHandshakeBytes: one record, until one that is not captured, not valid, or that
\* says the rest is encrypted.
Collect ==
    LET more == HasHeader(stream, at) /\ stream.records[at].type \notin {"bad", "change_cipher_spec"}
    IN  /\ step = "collect"
        /\ \/ /\ more /\ HasBody(stream, at)
              /\ at' = at + 1
              /\ spans' = IF IsHandshake(stream.records[at])
                          THEN Append(spans, <<RecordAt(stream, at) + 5, stream.records[at].length>>) ELSE spans
              /\ UNCHANGED <<step, truncated>>
           \/ /\ ~(more /\ HasBody(stream, at))
              /\ truncated' = more
              /\ step' = IF HandshakeBytes = 0 THEN "parsed" ELSE "frame"
              /\ UNCHANGED <<at, spans>>
        /\ UNCHANGED <<stream, origin, message_offset, held, rows, direction>>

\* The message at message_offset, whose header is among the bytes collected.
HasMessage == HandshakeBytes - message_offset >= 4
Message == stream.messages[CHOOSE m \in MessageAtBody(stream, origin + message_offset) : TRUE]
Readable == /\ step = "frame" /\ HasMessage
            /\ Message.length <= max_message_bytes
            /\ Message.length <= HandshakeBytes - message_offset - 4

MessageFrom == LET range == Locate(message_offset, Message.length + 4) IN Provenance(stream, range[1], range[2])

Advance ==
    /\ message_offset' = message_offset + 4 + Message.length
    /\ UNCHANGED <<stream, step, at, spans, truncated, origin, rows>>

\* ParseMessages on a hello.
Hello ==
    /\ Readable /\ IsHello(Message)
    /\ Len(direction.handshakes) < max_handshakes
    /\ LET h == [server |-> Message.type = "server_hello", hello |-> ParseHello(Message), first |-> MessageFrom[1],
                 last |-> MessageFrom[2], chain |-> Absent, text |-> 0, unparsed |-> FALSE,
                 status |-> ParseHello(Message).status]
       IN  direction' = [direction EXCEPT !.handshakes = Append(@, h), !.client = @ \/ ~h.server]
    /\ Advance
    /\ UNCHANGED held

\* On a Certificate: it belongs to the newest hello, if that one parsed.
HasOwner == direction.handshakes # <<>> /\ Last(direction.handshakes).status # "INVALID"
Certificate ==
    /\ Readable /\ Message.type = "certificate" /\ HasOwner
    /\ LET parsed == ParseCertificates(Last(direction.handshakes), Message, held)
           h == [parsed.handshake EXCEPT !.last = Max({@, MessageFrom[2]})]
       IN  /\ direction' = [direction EXCEPT !.handshakes = Append(Front(@), h)]
           /\ held' = parsed.held
    /\ Advance

OtherMessage ==
    /\ Readable /\ ~IsHello(Message) /\ ~(Message.type = "certificate" /\ HasOwner)
    /\ Advance
    /\ UNCHANGED <<held, direction>>

\* Nothing more to frame: the bytes end, a message runs past them, or a limit is met.
\* ParseRecords then settles the direction's status.
Settle ==
    LET limit == HasMessage /\ \/ Message.length > max_message_bytes
                               \/ Readable /\ IsHello(Message) /\ Len(direction.handshakes) >= max_handshakes
        cut == HasMessage /\ ~limit
    IN  /\ step = "frame"
        /\ ~Readable \/ limit
        /\ truncated' = (truncated \/ cut)
        /\ Finish(CASE limit -> "LIMIT" [] ~limit /\ truncated' -> "INCOMPLETE"
                    [] OTHER -> IF stream.transport = "UNANCHORED" THEN "UNANCHORED" ELSE "UNSET")
        /\ UNCHANGED <<stream, at, spans, origin, message_offset, held, rows>>

-----------------------------------------------------------------------------
(* Merge: the nth hello of one direction and the nth of the other make a row. *)

\* The most specific status wins: a hello's own, its direction's, then how many there are.
RowStatus(c, s, i) ==
    LET sides == (IF i <= Len(c.handshakes) THEN <<c>> ELSE <<>>) \o (IF i <= Len(s.handshakes) THEN <<s>> ELSE <<>>)
        told == [j \in DOMAIN sides |-> sides[j].handshakes[i].status] \o [j \in DOMAIN sides |-> sides[j].status]
        set == SelectSeq(told, LAMBDA x : x # "UNSET")
    IN  IF set # <<>> THEN Head(set) ELSE IF Len(sides) < 2 THEN "ONE_SIDED" ELSE "COMPLETE"

\* MergeWarnings, for one side.
SideWarnings(side, d, i) ==
    IF i > Len(d.handshakes) THEN {<<side, "hello_missing">>}
    ELSE LET h == d.handshakes[i]
         IN  (IF h.status = "INVALID" THEN {<<side, "hello_invalid">>} ELSE {})
             \cup (IF \E k \in Kinds : h.hello.lists[k] = "malformed" THEN {<<side, "list_malformed">>} ELSE {})
             \cup (IF h.unparsed THEN {<<side, "certificate_malformed">>} ELSE {})
             \cup (IF d.needs_confirmation THEN {<<side, "prefix_unanchored">>} ELSE {})

MergeRow(c, s, i) ==
    LET in == {d.handshakes[i] : d \in {d \in {c, s} : i <= Len(d.handshakes)}}
    IN  [status |-> RowStatus(c, s, i), last |-> Max({h.last : h \in in}),
         first |-> IF i <= Len(c.handshakes) THEN c.handshakes[i].first ELSE s.handshakes[i].first,
         warnings |-> SideWarnings("client", c, i) \cup SideWarnings("server", s, i)]

\* Merge of the direction with its peer, and ReportAlone when there is none.
Merge ==
    /\ step = "parsed"
    /\ \E peer \in Peers \cup {NoDirection} :
        LET c == IF direction.client THEN direction ELSE peer
            s == IF direction.client THEN peer ELSE direction
        IN  /\ direction.handshakes # <<>> => peer.client # direction.client \/ peer = NoDirection
            /\ direction.handshakes = <<>> => peer = NoDirection
            /\ rows' = IF peer = NoDirection /\ direction.needs_confirmation THEN <<>>
                       ELSE [i \in 1..Max({Len(c.handshakes), Len(s.handshakes)}) |-> MergeRow(c, s, i)]
    /\ step' = "merged"
    /\ UNCHANGED <<stream, at, spans, truncated, origin, message_offset, held, direction>>

TlsNext == Unreadable \/ FindHello \/ Collect \/ Hello \/ Certificate \/ OtherMessage \/ Settle \/ Merge

-----------------------------------------------------------------------------
(* What the sender sent, read as a whole. *)

\* The chunk offset of handshake byte b, if it is captured in the clear.
Clear(s, from) == {i \in from..Len(s.records) :
                     \A j \in from..i : /\ HasHeader(s, j) /\ HasBody(s, j)
                                        /\ s.records[j].type \notin {"bad", "change_cipher_spec"}}
ByteAt(s, from, b) ==
    {RecordAt(s, i) + 5 + b - BodyAt(s, i) : i \in {i \in Clear(s, from) :
        IsHandshake(s.records[i]) /\ b \in BodyAt(s, i)..(BodyAt(s, i) + s.records[i].length - 1)}}

\* Where reading starts: 0 when the stream is not read as TLS.
ReadFrom(s) ==
    IF s.transport \in {"CONFLICT", "LIMIT"} THEN 0
    ELSE IF StartsWithRecord(s) THEN 1
    ELSE Min({Len(s.records) + 1} \cup {i \in DOMAIN s.records : RecordAt(s, i) \in 1..max_tunnel_prefix_bytes /\ HelloAt(s, i)})
             % (Len(s.records) + 1)

\* The bytes of message m in the chunk.
BytesOf(s, from, m) ==
    UNION {ByteAt(s, from, b) : b \in MessageAt(s, m)..(MessageAt(s, m) + 3 + s.messages[m].length)}
WholeMessage(s, from, m) == Cardinality(BytesOf(s, from, m)) = 4 + s.messages[m].length

\* The messages read: from the first record on, whole and within the limits.
HellosUpTo(s, from, m) == {k \in 1..m : IsHello(s.messages[k]) /\ MessageAt(s, k) >= BodyAt(s, from)}
Acceptable(s, from, m) ==
    /\ s.messages[m].length <= max_message_bytes
    /\ IsHello(s.messages[m]) => Cardinality(HellosUpTo(s, from, m)) <= max_handshakes
ReadMessages(s, from) ==
    {m \in DOMAIN s.messages :
        \A k \in 1..m : MessageAt(s, k) >= BodyAt(s, from) => WholeMessage(s, from, k) /\ Acceptable(s, from, k)}
        \ {m \in DOMAIN s.messages : MessageAt(s, m) < BodyAt(s, from)}

\* The Certificate messages that belong to the hello m: no hello lies between.
CertificatesOf(s, from, m) ==
    {k \in ReadMessages(s, from) : /\ s.messages[k].type = "certificate" /\ k > m /\ s.messages[m].valid
                                   /\ \A j \in m + 1..k : ~IsHello(s.messages[j])}

PacketsOf(s, from, m) == Provenance(s, Min(BytesOf(s, from, m)), Max(BytesOf(s, from, m)) + 1)

\* The copies of an extension a hello carries, of those that are read.
Copies(m, k) == {i \in DOMAIN m.extensions : /\ i <= max_extensions /\ m.extensions[i].kind = k
                                             /\ Reported(m.type = "client_hello", m.extensions[i])}

\* Handshake messages are framed as their sender sent them, however records cut them up
\* and whatever other records and tunnel bytes surround them (CollectHandshakeBytes,
\* ParseMessages, RecordLocator): the hellos are those captured whole, in order and
\* within the limits; each list is the one copy of its extension, and malformed if there
\* are two; and the packets named are those from the first byte of the hello to the last,
\* its certificates' included.
MessagesFramed ==
    step = "parsed" =>
        LET from == ReadFrom(stream)
            hellos == IF from = 0 THEN {} ELSE {m \in ReadMessages(stream, from) : IsHello(stream.messages[m])}
            order == SetToSortSeq(hellos, <)
        IN  /\ Len(direction.handshakes) = Len(order)
            /\ \A i \in DOMAIN order :
                  LET m == stream.messages[order[i]]
                      h == direction.handshakes[i]
                      ranges == {PacketsOf(stream, from, k) : k \in {order[i]} \cup CertificatesOf(stream, from, order[i])}
                  IN  /\ h.server = (m.type = "server_hello")
                      /\ h.first = PacketsOf(stream, from, order[i])[1]
                      /\ h.last = Max({r[2] : r \in ranges})
                      /\ \A k \in Kinds :
                            h.hello.lists[k] = CASE ~m.valid \/ Copies(m, k) = {} -> Absent
                                                 [] m.valid /\ Cardinality(Copies(m, k)) > 1 -> "malformed"
                                                 [] OTHER -> ReadList(~h.server, m.extensions[Min(Copies(m, k))])

\* The certificate text a direction is charged for is what its rows hold, and no more than
\* its limit, after any sequence of chains kept, dropped and repeated (the `held' of
\* ParseCertificates); a chain is refused for its size only when, with the chains before
\* it, it does not fit.
CertificatesBudgeted ==
    LET Texts(n) == Total([i \in 1..n |-> direction.handshakes[i].text])
        OkText(m) == Total([i \in DOMAIN m.certificates |-> IF m.certificates[i].result = "OK" THEN m.certificates[i].text ELSE 0])
    IN  /\ held = Texts(Len(direction.handshakes))
        /\ held <= max_direction_certificate_bytes
        /\ step = "parsed" /\ ReadFrom(stream) > 0 =>
              LET from == ReadFrom(stream)
                  order == SetToSortSeq({m \in ReadMessages(stream, from) : IsHello(stream.messages[m])}, <)
              IN  \A i \in DOMAIN order :
                    LET h == direction.handshakes[i]
                        own == CertificatesOf(stream, from, order[i])
                        m == stream.messages[Min(own)]
                        fits == /\ Len(m.certificates) <= max_certificates
                                /\ \A j \in DOMAIN m.certificates : /\ m.certificates[j].length <= max_certificate_bytes
                                                                    /\ m.certificates[j].result # "OVER_LIMIT"
                                /\ OkText(m) + Texts(i - 1) <= max_direction_certificate_bytes
                    IN  /\ own = {} => h.chain = Absent
                        /\ Cardinality(own) > 1 => h.chain = "malformed"
                        /\ Cardinality(own) = 1 => /\ h.chain = "present" <=> m.framing = "ok" /\ fits
                                                   /\ h.chain = "over_limit" <=> m.framing # "list" /\ ~fits

\* The status of a direction that was read is limit exactly when the first message not read
\* is past a limit, else incomplete exactly when a record or a message whose header was
\* captured in the clear is not captured whole, else that of the transport (ParseRecords).
\*
\* This is what the code can tell.  A capture, or the bytes before a gap, that end inside a
\* header, or at the border of two records or messages, look like a direction that ends
\* there: their status is not incomplete, though what the sender sent next is missing.
StatusTold ==
    step = "parsed" /\ ReadFrom(stream) > 0 =>
        LET from == ReadFrom(stream)
            next == Max(Clear(stream, from) \cup {from - 1}) + 1
            clear == BodyAt(stream, next)
            record_cut == HasHeader(stream, next) /\ stream.records[next].type \notin {"bad", "change_cipher_spec"}
            unread == {m \in DOMAIN stream.messages : /\ MessageAt(stream, m) >= BodyAt(stream, from)
                                                      /\ MessageAt(stream, m) + 4 <= clear} \ ReadMessages(stream, from)
            first == stream.messages[Min(unread)]
            limit == unread # {} /\ \/ first.length > max_message_bytes
                                    \/ WholeMessage(stream, from, Min(unread))
        IN  clear > BodyAt(stream, from) =>
              direction.status = CASE limit -> "LIMIT"
                                   [] ~limit /\ (record_cut \/ unread # {}) -> "INCOMPLETE"
                                   [] OTHER -> IF stream.transport = "UNANCHORED" THEN "UNANCHORED" ELSE "UNSET"

\* A row says what is wrong with it (Merge, MergeWarnings): it is complete or one-sided
\* only if its own direction was not incomplete, refused, unanchored or unreadable, and a
\* hello that is missing or malformed is named in the warnings whatever the status is.
\* Its packets end no earlier than its hello's, and begin with the client's hello, or the
\* server's where there is none: MergeServer does not widen the span to a server's hello
\* that was captured before its client's.
RowsTell ==
    LET side == IF direction.client THEN "client" ELSE "server"
        Missing(r) == {w \in r.warnings : w[2] = "hello_missing"}
    IN  step = "merged" =>
            /\ Len(rows) < Len(direction.handshakes) => direction.needs_confirmation /\ rows = <<>>
            /\ \A i \in DOMAIN rows :
                  LET here == i <= Len(direction.handshakes)
                      h == direction.handshakes[i]
                      sound == /\ stream.transport # "UNANCHORED" /\ ~truncated
                               /\ h.status = "UNSET" /\ h.hello.types = "present" /\ h.chain # "over_limit"
                  IN  /\ rows[i].status = "COMPLETE" => Missing(rows[i]) = {} /\ here
                      /\ rows[i].status = "ONE_SIDED" => Cardinality(Missing(rows[i])) = 1
                      /\ here => /\ rows[i].status \in {"COMPLETE", "ONE_SIDED"} => sound
                                 /\ h.status = "INVALID" => <<side, "hello_invalid">> \in rows[i].warnings
                                 /\ rows[i].last >= h.last
                                 /\ side = "client" \/ <<"client", "hello_missing">> \in rows[i].warnings
                                       => rows[i].first = h.first
                      /\ ~here => <<side, "hello_missing">> \in rows[i].warnings

\* What was refused or unreadable, and what was cut after its header, shows in the status of
\* the direction and of its rows (StatusTold, RowsTell).
StatusesTell == StatusTold /\ RowsTell

\* The handshakes of a direction and what its rows say of them, together (ParseRecords,
\* ParseMessages, Merge).
HandshakesExact == MessagesFramed /\ StatusesTell
=============================================================================
