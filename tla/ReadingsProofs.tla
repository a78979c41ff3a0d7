--------------------------- MODULE ReadingsProofs ---------------------------
(***************************************************************************)
(* What the decoders make of bytes and segments, for every message, date   *)
(* and segment and all limits: DNS names, X.509 dates, TCP handshakes.     *)
(***************************************************************************)
EXTENDS DnsDecoder, Calendar, FlowHandshake, SequenceTheorems, TLAPS

-----------------------------------------------------------------------------
(* DNS: the loop of Parser::Name never runs out of turns, and nothing is read  *)
(* outside the message.  A turn takes a label or a pointer.  Pointers are      *)
(* capped as they are counted; a label takes at least two octets of a name     *)
(* that has at most NAME_MAX, so the octets counted in `expanded' cap the      *)
(* labels.                                                                     *)

\* The locals of Name between turns, for a message of the given size.
ParserType ==
    [start : Nat, cursor : Nat, segment : Nat, end : Nat, jumped : BOOLEAN,
     expanded : Nat, labels : Nat, pointers : Nat, step : Nat, name : Seq(Seq(0..255))]

Counted ==
    /\ parser.step = parser.labels + parser.pointers
    /\ parser.pointers <= POINTERS_MAX
    /\ parser.expanded >= 1 + 2 * parser.labels
    /\ parser.labels > 0 => parser.expanded <= NAME_MAX

DnsType ==
    /\ message.data \in Seq(0..255) /\ message.counts \in Seq(Nat) /\ Len(message.counts) = 4
    /\ parser \in ParserType
    /\ section \in 1..4 /\ left \in Int /\ work \in Nat

\* No octet outside the message is looked at: while a message is decoded, the place the next
\* record starts at, the cursor of a name and the place after its first pointer are within
\* it (the Has() before every read of Parser and DecodeDns).
InBounds ==
    phase \in {"items", "name"} =>
        /\ offset \in Header..size
        /\ phase = "name" => parser.segment <= size /\ parser.cursor \in Header..size /\ parser.end \in Header..size

DnsInv == DnsType /\ Counted /\ InBounds

-----------------------------------------------------------------------------
(* Reading octets of a message. *)

\* Within the message, an octet is a byte.
LEMMA OctetIsByte ==
    ASSUME NEW d \in Seq(0..255), NEW o \in Nat, o < Len(d)
    PROVE  d[o + 1] \in 0..255
  <1>1. o + 1 \in 1..Len(d)
    OBVIOUS
  <1> QED
    BY <1>1, ElementOfSeq

\* The octets of a label that fits are a sequence of bytes.
LEMMA LabelIsText ==
    ASSUME NEW d \in Seq(0..255), NEW c \in Nat, NEW l \in 1..63, c + 1 + l <= Len(d)
    PROVE  SubSeq(d, c + 2, c + 1 + l) \in Seq(0..255)
  <1> DEFINE a == c + 2
             b == c + 1 + l
  <1>1. a \in 1..(Len(d) + 1) /\ b \in Nat /\ b <= Len(d)
    OBVIOUS
  <1>2. \A i \in a..b : i \in 1..Len(d)
    BY <1>1
  <1> HIDE DEF a, b
  <1>3. \A i \in a..b : d[i] \in 0..255
    BY <1>2, ElementOfSeq, SMTT(30)
  <1>4. SubSeq(d, a, b) \in Seq(0..255)
    BY <1>1, <1>3, SubSeqProperties
  <1> QED
    BY <1>4 DEF a, b

\* A pointer's target is a place.
LEMMA TargetIsNat ==
    ASSUME NEW a \in 0..255, NEW b \in 0..255, a >= 192
    PROVE  256 * (a - 192) + b \in Nat
  OBVIOUS

\* The fields of Name's locals, one by one.
LEMMA ParserFields ==
    ASSUME NEW p \in ParserType
    PROVE  /\ p.cursor \in Nat /\ p.segment \in Nat /\ p.end \in Nat /\ p.expanded \in Nat /\ p.labels \in Nat
           /\ p.pointers \in Nat /\ p.step \in Nat /\ p.name \in Seq(Seq(0..255))
  BY DEF ParserType

\* What a turn does to the locals: the counts are typed first, then put in place.
Pointed(p, t, e) ==
    [p EXCEPT !.cursor = t, !.segment = t, !.pointers = @ + 1, !.step = @ + 1, !.jumped = TRUE, !.end = e]
Labelled(p, l, text) ==
    [p EXCEPT !.cursor = @ + 1 + l, !.expanded = @ + l + 1, !.labels = @ + 1, !.step = @ + 1, !.name = Append(@, text)]

\* What following a pointer does to Name's locals.
LEMMA PointerFields ==
    ASSUME NEW p \in ParserType, NEW t \in Nat, NEW e \in Nat
    PROVE  /\ Pointed(p, t, e) \in ParserType
           /\ Pointed(p, t, e).cursor = t /\ Pointed(p, t, e).segment = t /\ Pointed(p, t, e).end = e
           /\ Pointed(p, t, e).labels = p.labels /\ Pointed(p, t, e).expanded = p.expanded
           /\ Pointed(p, t, e).pointers = p.pointers + 1 /\ Pointed(p, t, e).step = p.step + 1
  <1> DEFINE pointers == p.pointers + 1
             step == p.step + 1
             q == Pointed(p, t, e)
  <1>1. pointers \in Nat /\ step \in Nat
    BY ParserFields
  <1>2. q = [p EXCEPT !.cursor = t, !.segment = t, !.pointers = pointers, !.step = step, !.jumped = TRUE, !.end = e]
    BY DEF Pointed
  <1> HIDE DEF pointers, step, q
  <1>3. /\ q \in ParserType
        /\ q.cursor = t /\ q.segment = t /\ q.labels = p.labels /\ q.expanded = p.expanded
        /\ q.pointers = pointers /\ q.step = step /\ q.end = e
    BY <1>1, <1>2, Zenon DEF ParserType
  <1> QED
    BY <1>3 DEF pointers, step, q

\* What taking a label does to Name's locals.
LEMMA LabelFields ==
    ASSUME NEW p \in ParserType, NEW l \in Nat, NEW text \in Seq(0..255)
    PROVE  /\ Labelled(p, l, text) \in ParserType
           /\ Labelled(p, l, text).cursor = p.cursor + 1 + l /\ Labelled(p, l, text).segment = p.segment
           /\ Labelled(p, l, text).end = p.end /\ Labelled(p, l, text).labels = p.labels + 1
           /\ Labelled(p, l, text).expanded = p.expanded + l + 1
           /\ Labelled(p, l, text).pointers = p.pointers /\ Labelled(p, l, text).step = p.step + 1
  <1> DEFINE cursor == p.cursor + 1 + l
             expanded == p.expanded + l + 1
             labels == p.labels + 1
             step == p.step + 1
             more == Append(p.name, text)
             q == Labelled(p, l, text)
  <1>1. cursor \in Nat /\ expanded \in Nat /\ labels \in Nat /\ step \in Nat
    BY ParserFields, SMTT(30)
  <1>2. more \in Seq(Seq(0..255))
    BY ParserFields, AppendProperties
  <1>3. q = [p EXCEPT !.cursor = cursor, !.expanded = expanded, !.labels = labels, !.step = step, !.name = more]
    BY DEF Labelled
  <1> HIDE DEF cursor, expanded, labels, step, more, q
  <1>4. /\ q \in ParserType
        /\ q.cursor = cursor /\ q.segment = p.segment /\ q.labels = labels /\ q.expanded = expanded
        /\ q.pointers = p.pointers /\ q.step = step /\ q.end = p.end
    BY <1>1, <1>2, <1>3, ZenonT(60) DEF ParserType
  <1> QED
    BY <1>4 DEF cursor, expanded, labels, step, q

\* Name's locals when it starts.
LEMMA NameAtType ==
    ASSUME NEW o \in Nat
    PROVE  /\ NameAt(o) \in ParserType
           /\ NameAt(o).step = 0 /\ NameAt(o).labels = 0 /\ NameAt(o).pointers = 0 /\ NameAt(o).expanded = 1
           /\ NameAt(o).cursor = o /\ NameAt(o).end = o /\ NameAt(o).segment = o
  BY DEF NameAt, ParserType

-----------------------------------------------------------------------------

\* The invariant holds before the message is looked at.
LEMMA InitHolds == DnsInit => DnsInv
  <1> SUFFICES ASSUME DnsInit PROVE DnsInv
    OBVIOUS
  <1>1. Header \in Nat
    BY DEF Header
  <1>2. DnsType
    BY <1>1, NameAtType, DnsAssumption DEF DnsInit, DnsType
  <1>3. Counted
    BY <1>1, NameAtType, DnsAssumption DEF DnsInit, Counted
  <1>4. InBounds
    BY DEF DnsInit, InBounds
  <1> QED
    BY <1>2, <1>3, <1>4 DEF DnsInv

\* A pointer's target is an earlier place of the message.
LEMMA PointerKeeps == DnsInv /\ Pointer => DnsInv'
  <1> SUFFICES ASSUME DnsInv, Pointer PROVE DnsInv'
    OBVIOUS
  <1> USE DEF Header
  <1>1. /\ message' = message /\ phase' = phase /\ phase = "name" /\ offset' = offset /\ section' = section
        /\ left' = left /\ work' = work + 1 /\ Has(parser.cursor + 1, 1) /\ Target >= Header
        /\ Target < parser.segment /\ parser.pointers < POINTERS_MAX
    BY DEF Pointer, Turn, FollowsPointer, CanRead
  <1>2. parser \in ParserType /\ message.data \in Seq(0..255) /\ size \in Nat
    BY DEF DnsInv, DnsType, size
  <1>3. parser.cursor + 2 <= size
    BY <1>1, <1>2 DEF Has, ParserType
  <1>4. Target \in Nat
    <2>1. parser.cursor \in Nat /\ parser.cursor + 1 \in Nat /\ parser.cursor + 1 < Len(message.data)
      BY <1>2, <1>3, ParserFields DEF size
    <2>2. Octet(parser.cursor) \in 0..255 /\ Octet(parser.cursor + 1) \in 0..255
      <3>1. parser.cursor < Len(message.data)
        BY <1>2, <2>1
      <3> QED
        BY <1>2, <2>1, <3>1, OctetIsByte, Zenon DEF Octet
    <2>3. Octet(parser.cursor) >= 192
      BY DEF Pointer, FollowsPointer, IsPointer, Length
    <2> QED
      BY <2>2, <2>3, TargetIsNat, ZenonT(60) DEF Target, Length
  <1> DEFINE e == IF parser.jumped THEN parser.end ELSE parser.cursor + 2
  <1>5. /\ parser'.cursor = Target /\ parser'.segment = Target /\ parser'.labels = parser.labels
        /\ parser'.expanded = parser.expanded /\ parser'.pointers = parser.pointers + 1 /\ parser'.step = parser.step + 1
        /\ parser'.end = e /\ parser' \in ParserType
    <2>1. e \in Nat
      BY <1>2, ParserFields
    <2>2. parser' = Pointed(parser, Target, e)
      BY DEF Pointer, Pointed
    <2> HIDE DEF e
    <2> DEFINE q == Pointed(parser, Target, e)
    <2>3. /\ q \in ParserType /\ q.cursor = Target /\ q.segment = Target /\ q.end = e
          /\ q.labels = parser.labels /\ q.expanded = parser.expanded
          /\ q.pointers = parser.pointers + 1 /\ q.step = parser.step + 1
      BY <1>2, <1>4, <2>1, PointerFields
    <2>4. parser' = q
      BY <2>2
    <2> HIDE DEF q
    <2> QED
      BY <2>3, <2>4
  <1>6. parser.segment <= size
    BY <1>1 DEF DnsInv, InBounds
  <1>7. DnsType'
    BY <1>1, <1>5 DEF DnsInv, DnsType
  <1>8. Counted'
    <2>1. /\ parser.labels \in Nat /\ parser.pointers \in Nat /\ parser.step \in Nat /\ parser.expanded \in Nat
          /\ POINTERS_MAX \in Nat /\ NAME_MAX \in Nat
      BY <1>2, ParserFields, DnsAssumption
    <2>2. Counted
      BY DEF DnsInv
    <2> QED
      BY <1>1, <1>5, <2>1, <2>2 DEF Counted
  <1>9. InBounds'
    <2>1. parser.cursor \in Nat /\ parser.end \in Nat /\ parser.segment \in Nat
      BY <1>2, ParserFields
    <2>2. InBounds /\ size' = size
      BY <1>1 DEF DnsInv, size
    <2>3. Target < parser.segment /\ Target >= Header
      BY DEF Pointer, FollowsPointer
    <2>4. e \in Header..size
      BY <1>1, <1>2, <1>3, <2>1, <2>2, SMTT(30) DEF InBounds
    <2> HIDE DEF e
    <2>5. Target \in Header..size
      BY <1>1, <1>2, <1>4, <1>6, <2>1, <2>3, SMTT(30)
    <2> QED
      BY <1>1, <1>2, <1>4, <1>5, <2>2, <2>4, <2>5, SMTT(30) DEF InBounds
  <1> QED
    BY <1>7, <1>8, <1>9 DEF DnsInv

\* A label taken: its octets are counted before it is appended.
LEMMA LabelKeeps == DnsInv /\ Label => DnsInv'
  <1> SUFFICES ASSUME DnsInv, Label PROVE DnsInv'
    OBVIOUS
  <1> USE DEF Header
  <1> DEFINE l == Length
             text == SubSeq(message.data, parser.cursor + 2, parser.cursor + 1 + l)
  <1>1. /\ message' = message /\ phase' = phase /\ phase = "name" /\ offset' = offset /\ section' = section
        /\ left' = left /\ work' = work + 1 /\ l \in 1..63 /\ Has(parser.cursor + 1, l)
        /\ parser.expanded + l + 1 <= NAME_MAX
    BY DEF Label, Turn, TakesLabel
  <1>2. parser \in ParserType /\ message.data \in Seq(0..255) /\ size \in Nat
    BY DEF DnsInv, DnsType, size
  <1>3. parser.cursor \in Nat /\ parser.cursor + 1 + l <= size
    BY <1>1, <1>2, SMTT(30) DEF Has, ParserType
  <1>4. text \in Seq(0..255)
    BY <1>1, <1>2, <1>3, LabelIsText, Zenon DEF size
  <1> HIDE DEF l, text
  <1>5. parser' = Labelled(parser, l, text)
    BY DEF Label, Labelled, l, text
  <1>6. /\ parser'.cursor = parser.cursor + 1 + l /\ parser'.labels = parser.labels + 1
        /\ parser'.expanded = parser.expanded + l + 1 /\ parser'.pointers = parser.pointers
        /\ parser'.step = parser.step + 1 /\ parser'.end = parser.end /\ parser'.segment = parser.segment
        /\ parser' \in ParserType
    <2>1. l \in Nat
      BY <1>1
    <2> QED
      BY <1>2, <1>4, <1>5, <2>1, LabelFields, ZenonT(60)
  <1>8. DnsType'
    BY <1>1, <1>6 DEF DnsInv, DnsType
  <1>9. Counted'
    <2>1. /\ parser.labels \in Nat /\ parser.pointers \in Nat /\ parser.step \in Nat /\ parser.expanded \in Nat
          /\ POINTERS_MAX \in Nat /\ NAME_MAX \in Nat
      BY <1>2, ParserFields, DnsAssumption
    <2>2. Counted
      BY DEF DnsInv
    <2> QED
      BY <1>1, <1>6, <2>1, <2>2 DEF Counted
  <1>10. InBounds'
    <2>1. parser.cursor \in Nat /\ parser.end \in Nat /\ parser.segment \in Nat /\ l \in Nat
      BY <1>1, <1>2, ParserFields
    <2>2. InBounds /\ size' = size
      BY <1>1 DEF DnsInv, size
    <2> QED
      BY <1>1, <1>2, <1>3, <1>6, <2>1, <2>2 DEF InBounds
  <1> QED
    BY <1>8, <1>9, <1>10 DEF DnsInv

\* The root label is within the message, so the record goes on within it.
LEMMA EndWithin ==
    ASSUME DnsInv, NEW after, RootAt(after)
    PROVE  after \in Header..size /\ message' = message /\ work' = work + 1
  <1> USE DEF Header
  <1>1. phase = "name" /\ Has(parser.cursor, 1)
    BY DEF RootAt, Turn, CanRead
  <1>2. parser \in ParserType /\ size \in Nat
    BY DEF DnsInv, DnsType, size
  <1>3. parser.cursor + 1 <= size
    BY <1>1, <1>2 DEF Has, ParserType
  <1> QED
    BY <1>1, <1>2, <1>3, SMTT(30) DEF RootAt, Turn, DnsInv, InBounds, ParserType

-----------------------------------------------------------------------------
(* The other actions leave Name's locals alone, or start them afresh. *)

\* What is left to show when the locals are kept.
LEMMA KeptParser ==
    ASSUME DnsInv, message' = message, parser' = parser, section' \in 1..4, left' \in Int, work' \in Nat, InBounds'
    PROVE  DnsInv'
  BY DEF DnsInv, DnsType, Counted

\* A rejected message leaves all but the phase as it was.
LEMMA Rejected ==
    ASSUME DnsInv, Reject, message' = message, work' \in Nat
    PROVE  DnsInv'
  BY KeptParser DEF Reject, InBounds, DnsInv, DnsType

\* A name started at o has been counted nothing of.
LEMMA FreshParser ==
    ASSUME DnsInv, NEW o \in Nat, message' = message, parser' = NameAt(o), section' \in 1..4, left' \in Int, work' \in Nat,
           offset' \in Header..size, o \in Header..size
    PROVE  DnsInv'
  <1> USE DEF Header
  <1>1. size' = size
    BY DEF size
  <1>2. NameAt(o) \in ParserType
    BY NameAtType
  <1>3. DnsType'
    BY <1>2 DEF DnsInv, DnsType
  <1>4. Counted'
    BY DnsAssumption DEF Counted, NameAt
  <1>5. size \in Nat
    BY DEF DnsInv, DnsType, size
  <1>6. InBounds'
    BY <1>1, <1>5 DEF InBounds, NameAt
  <1> QED
    BY <1>3, <1>4, <1>6 DEF DnsInv

\* A sixteen-bit field within the message is a number.
LEMMA PairIsNat ==
    ASSUME DnsInv, NEW o \in Nat, o + 1 < size
    PROVE  Pair(o) \in Nat
  <1>1. message.data \in Seq(0..255)
    BY DEF DnsInv, DnsType
  <1>2. o < Len(message.data) /\ o + 1 \in Nat /\ o + 1 < Len(message.data)
    BY <1>1 DEF size
  <1>3. Octet(o) \in 0..255 /\ Octet(o + 1) \in 0..255
    BY <1>1, <1>2, OctetIsByte, Zenon DEF Octet
  <1>4. \A a, b \in 0..255 : 256 * a + b \in Nat
    OBVIOUS
  <1> QED
    BY <1>3, <1>4, Zenon DEF Pair

\* A name that fails rejects the message.
LEMMA BadNameKeeps == DnsInv /\ BadName => DnsInv'
  <1> SUFFICES ASSUME DnsInv, BadName PROVE DnsInv'
    OBVIOUS
  <1>1. Reject /\ message' = message /\ work' \in Nat
    BY DEF BadName, Turn, DnsInv, DnsType
  <1> QED
    BY <1>1, Rejected

\* A question's name has ended: type and class follow.
LEMMA QuestionKeeps == DnsInv /\ Question => DnsInv'
  <1> SUFFICES ASSUME DnsInv, NEW after \in 0..size, RootAt(after),
                      \/ Reject
                      \/ /\ Has(after, 4) /\ phase' = "items" /\ offset' = after + 4 /\ left' = left - 1
                         /\ UNCHANGED <<section, what, parser>>
               PROVE  DnsInv'
    BY DEF Question
  <1>1. after \in Header..size /\ message' = message /\ work' = work + 1 /\ size \in Nat
    BY EndWithin DEF DnsInv, DnsType, size
  <1>2. section \in 1..4 /\ left \in Int /\ work' \in Nat
    BY <1>1 DEF DnsInv, DnsType
  <1>3. CASE Reject
    BY <1>1, <1>2, <1>3, Rejected
  <1>4. CASE Has(after, 4) /\ phase' = "items" /\ offset' = after + 4 /\ left' = left - 1 /\ UNCHANGED <<section, what, parser>>
    <2>1. InBounds'
      BY <1>1, <1>4 DEF InBounds, Has, Header, size
    <2> QED
      BY <1>1, <1>2, <1>4, <2>1, KeptParser, SMTT(30)
  <1> QED
    BY <1>3, <1>4

\* A record's owner has ended: its fields and data follow.
LEMMA OwnerKeeps == DnsInv /\ Owner => DnsInv'
  <1> USE DEF Header
  <1> SUFFICES ASSUME DnsInv, NEW after \in 0..size, RootAt(after),
                      \/ Reject
                      \/ /\ Has(after, 10) /\ Has(after + 10, Pair(after + 8))
                         /\ parser' = NameAt(after + 10) /\ offset' = after + 10 + Pair(after + 8)
                         /\ UNCHANGED <<phase, section, left>>
                      \/ /\ Has(after, 10) /\ Has(after + 10, Pair(after + 8))
                         /\ phase' = "items" /\ offset' = after + 10 + Pair(after + 8) /\ left' = left - 1
                         /\ UNCHANGED <<section, what, parser>>
               PROVE  DnsInv'
    BY DEF Owner
  <1>1. after \in Header..size /\ message' = message /\ work' = work + 1 /\ size \in Nat
    BY EndWithin DEF DnsInv, DnsType, size
  <1>2. section \in 1..4 /\ left \in Int /\ work' \in Nat
    BY <1>1 DEF DnsInv, DnsType
  <1>3. CASE Reject
    BY <1>1, <1>2, <1>3, Rejected
  <1> DEFINE data == after + 10
             length == Pair(after + 8)
  <1>4. ASSUME Has(after, 10), Has(after + 10, Pair(after + 8))
        PROVE  data \in Header..size /\ data + length \in Header..size /\ data \in Nat
    <2>1. after + 8 \in Nat /\ after + 8 + 1 < size /\ data \in Header..size
      BY <1>1, <1>4 DEF Has
    <2>2. length \in Nat
      BY <2>1, PairIsNat
    <2> HIDE DEF length
    <2>3. length <= size - data
      BY <1>4 DEF Has, length
    <2> QED
      BY <1>1, <2>1, <2>2, <2>3, SMTT(30)
  <1>5. CASE /\ Has(after, 10) /\ Has(after + 10, Pair(after + 8))
             /\ parser' = NameAt(after + 10) /\ offset' = after + 10 + Pair(after + 8)
             /\ UNCHANGED <<phase, section, left>>
    BY <1>1, <1>2, <1>4, <1>5, FreshParser, SMTT(30)
  <1>6. CASE /\ Has(after, 10) /\ Has(after + 10, Pair(after + 8))
             /\ phase' = "items" /\ offset' = after + 10 + Pair(after + 8) /\ left' = left - 1
             /\ UNCHANGED <<section, what, parser>>
    <2>1. InBounds'
      BY <1>1, <1>4, <1>6, SMTT(30) DEF InBounds, size
    <2> QED
      BY <1>1, <1>2, <1>6, <2>1, KeptParser, SMTT(30)
  <1> QED
    BY <1>3, <1>5, <1>6

\* A name in a record's data has ended.
LEMMA RDataKeeps == DnsInv /\ RData => DnsInv'
  <1> SUFFICES ASSUME DnsInv, NEW after \in 0..size, RootAt(after),
                      \/ Reject
                      \/ phase' = "items" /\ left' = left - 1 /\ UNCHANGED <<section, offset, what, parser>>
               PROVE  DnsInv'
    BY DEF RData
  <1>1. message' = message /\ work' = work + 1 /\ phase = "name" /\ size' = size
    BY DEF RootAt, Turn, size
  <1>2. section \in 1..4 /\ left \in Int /\ work' \in Nat
    BY <1>1 DEF DnsInv, DnsType
  <1>3. CASE Reject
    BY <1>1, <1>2, <1>3, Rejected, SMTT(30)
  <1>4. CASE phase' = "items" /\ left' = left - 1 /\ UNCHANGED <<section, offset, what, parser>>
    <2>1. InBounds'
      BY <1>1, <1>4 DEF InBounds, DnsInv
    <2> QED
      BY <1>1, <1>2, <1>4, <2>1, KeptParser, SMTT(30)
  <1> QED
    BY <1>3, <1>4

\* The header's checks.
LEMMA StartMessageKeeps == DnsInv /\ StartMessage => DnsInv'
  <1> SUFFICES ASSUME DnsInv, message' = message, work' = work,
                      \/ Reject
                      \/ /\ ~(size < Header) /\ phase' = "items" /\ offset' = Header /\ left' = message.counts[1]
                         /\ UNCHANGED <<section, what, parser>>
               PROVE  DnsInv'
    BY Zenon DEF StartMessage
  <1>1. section \in 1..4 /\ work \in Nat /\ message.counts[1] \in Nat /\ size \in Nat /\ size' = size
    BY ElementOfSeq DEF DnsInv, DnsType, size
  <1>2. CASE Reject
    BY <1>1, <1>2, Rejected
  <1>3. CASE /\ ~(size < Header) /\ phase' = "items" /\ offset' = Header /\ left' = message.counts[1]
             /\ UNCHANGED <<section, what, parser>>
    <2>1. InBounds'
      BY <1>1, <1>3 DEF InBounds, Header
    <2> QED
      BY <1>1, <1>3, <2>1, KeptParser, SMTT(30)
  <1> QED
    BY <1>2, <1>3

\* The next record's name begins.
LEMMA NextNameKeeps == DnsInv /\ NextName => DnsInv'
  <1> SUFFICES ASSUME DnsInv, NextName PROVE DnsInv'
    OBVIOUS
  <1>1. section \in 1..4 /\ left \in Int /\ work \in Nat /\ size \in Nat
    BY DEF DnsInv, DnsType, size
  <1>2. offset \in Header..size /\ offset \in Nat
    BY <1>1 DEF NextName, DnsInv, InBounds, Header
  <1> QED
    BY <1>1, <1>2, FreshParser DEF NextName

\* The next section begins.
LEMMA NextSectionKeeps == DnsInv /\ NextSection => DnsInv'
  <1> SUFFICES ASSUME DnsInv, NextSection PROVE DnsInv'
    OBVIOUS
  <1>1. section + 1 \in 1..4 /\ work \in Nat /\ message.counts[section + 1] \in Nat
    <2>1. section + 1 \in 1..4 /\ section + 1 \in 1..Len(message.counts) /\ work \in Nat
      BY DEF NextSection, DnsInv, DnsType
    <2> QED
      BY <2>1, ElementOfSeq DEF DnsInv, DnsType
  <1>2. InBounds'
    BY DEF NextSection, DnsInv, InBounds, size
  <1> QED
    BY <1>1, <1>2, KeptParser DEF NextSection

\* The sections are read: the message must end here.
LEMMA EndMessageKeeps == DnsInv /\ EndMessage => DnsInv'
  <1> SUFFICES ASSUME DnsInv, EndMessage PROVE DnsInv'
    OBVIOUS
  <1>1. section \in 1..4 /\ left \in Int /\ work \in Nat
    BY DEF DnsInv, DnsType
  <1>2. InBounds'
    BY DEF EndMessage, InBounds
  <1> QED
    BY <1>1, <1>2, KeptParser DEF EndMessage

-----------------------------------------------------------------------------
(* The theorems. *)

\* The inductive invariant of the decoder: Name's cursor and counters stay within the
\* message and its caps, for every message and every value of the caps (Parser::Name).
THEOREM DnsInvariant == DnsSpec => []DnsInv
  <1>1. DnsInv /\ [DnsNext]_dnsVars => DnsInv'
    <2> SUFFICES ASSUME DnsInv, [DnsNext]_dnsVars PROVE DnsInv'
      OBVIOUS
    <2>1. CASE UNCHANGED dnsVars
      BY <2>1 DEF dnsVars, DnsInv, DnsType, Counted, InBounds, size
    <2> QED
      BY SMTT(30), <2>1, StartMessageKeeps, NextNameKeeps, PointerKeeps, LabelKeeps, BadNameKeeps, QuestionKeeps, OwnerKeeps,
         RDataKeeps, NextSectionKeeps, EndMessageKeeps DEF DnsNext
  <1> QED
    BY <1>1, InitHolds, PTL DEF DnsSpec

\* The loop of Parser::Name never runs out of turns and a name never has more labels than
\* the code asserts, whatever the message, its size and the limits, as long as the limits
\* are related as the code's are.
THEOREM StepsAlwaysSuffice == DnsSpec => []StepsSuffice
  <1>1. DnsInv => StepsSuffice
    <2> SUFFICES ASSUME DnsInv PROVE StepsSuffice
      OBVIOUS
    <2>1. /\ parser.labels \in Nat /\ parser.pointers \in Nat /\ parser.step \in Nat /\ parser.expanded \in Nat
          /\ POINTERS_MAX \in Nat /\ NAME_MAX \in Nat /\ LABELS_MAX \in Nat
      BY ParserFields, DnsAssumption DEF DnsInv, DnsType
    <2>2. NAME_MAX <= 2 * LABELS_MAX + 2 /\ STEPS_MAX = LABELS_MAX + POINTERS_MAX + 1
      BY DnsAssumption
    <2>3. Counted
      BY DEF DnsInv
    <2>4. parser.labels <= LABELS_MAX
      BY <2>1, <2>2, <2>3, SMTT(30) DEF Counted
    <2> QED
      BY <2>1, <2>2, <2>3, <2>4 DEF Counted, StepsSuffice
  <1> QED
    BY <1>1, DnsInvariant, PTL

\* DecodeDns looks at no octet outside its message.
THEOREM ReadsInBounds == DnsSpec => []InBounds
  <1>1. DnsInv => InBounds
    BY DEF DnsInv
  <1> QED
    BY <1>1, DnsInvariant, PTL

-----------------------------------------------------------------------------
(* X.509: DaysFromCivil counts days in every year: 1970-01-01 is day 0, and    *)
(* the day after a date is one more.                                           *)

\* The date after a date of the calendar.
Tomorrow(y, m, d) ==
    IF d < MonthDays(y, m) THEN <<y, m, d + 1>>
    ELSE IF m < 12 THEN <<y, m + 1, 1>>
    ELSE <<y + 1, 1, 1>>

\* The days of the years before year y, counted from a first of March, as the code
\* counts them.
DaysBefore(y) ==
    (y \div 400) * 146097 + (y - (y \div 400) * 400) * 365
        + ((y - (y \div 400) * 400) \div 4) - ((y - (y \div 400) * 400) \div 100)

\* The day of a year that begins in March.
DayOfYear(m, d) == (153 * (m + (IF m > 2 THEN -3 ELSE 9)) + 2) \div 5 + d - 1

\* Both are numbers.
LEMMA Numbers ==
    ASSUME NEW y \in Int, NEW m \in 1..12, NEW d \in Int
    PROVE  DaysBefore(y) \in Int /\ DaysBefore(y - 1) \in Int /\ DayOfYear(m, d) \in Int
BY DEF DaysBefore, DayOfYear

\* DaysFromCivil is the sum of the two.
LEMMA CivilSum ==
    ASSUME NEW y \in Int, NEW m \in 1..12, NEW d \in Int
    PROVE  DaysFromCivil(y, m, d) = DaysBefore(IF m <= 2 THEN y - 1 ELSE y) + DayOfYear(m, d) - 719468
<1>1. CASE m <= 2 BY <1>1 DEF DaysFromCivil, DaysBefore, DayOfYear
<1>2. CASE m > 2 BY <1>2 DEF DaysFromCivil, DaysBefore, DayOfYear
<1> QED BY <1>1, <1>2

\* The year before a year, in eras of 400.
LEMMA EraStep ==
    ASSUME NEW e \in Int, NEW r \in 0..399
    PROVE  /\ (400 * e + r) \div 400 = e
           /\ r > 0 => (400 * e + r - 1) \div 400 = e
           /\ r = 0 => (400 * e - 1) \div 400 = e - 1
OBVIOUS

\* A year has 366 days when its February has 29.
LEMMA YearLength ==
    ASSUME NEW y \in Int
    PROVE  DaysBefore(y) - DaysBefore(y - 1) = IF IsLeap(y) THEN 366 ELSE 365
<1> DEFINE e == y \div 400
           r == y - 400 * e
<1>1. e \in Int /\ r \in 0..399 /\ y = 400 * e + r OBVIOUS
<1> HIDE DEF e, r
<1>2. y \div 400 = e BY <1>1, EraStep
<1>3. IsLeap(y) <=> (r % 4 = 0 /\ r % 100 # 0) \/ r = 0 BY <1>1 DEF IsLeap
<1>4. CASE r = 0
  <2>1. (y - 1) \div 400 = e - 1 BY <1>1, <1>4, EraStep
  <2> QED BY <1>1, <1>2, <1>3, <1>4, <2>1, SMTT(30) DEF DaysBefore
<1>5. CASE r > 0
  <2>1. (y - 1) \div 400 = e BY <1>1, <1>5, EraStep
  <2>2. r \div 4 = ((r - 1) \div 4) + (IF r % 4 = 0 THEN 1 ELSE 0) BY <1>1, <1>5
  <2>3. r \div 100 = ((r - 1) \div 100) + (IF r % 100 = 0 THEN 1 ELSE 0) BY <1>1, <1>5
  <2>4. r % 100 = 0 => r % 4 = 0 BY <1>1
  <2>5. DaysBefore(y) = e * 146097 + r * 365 + (r \div 4) - (r \div 100) BY <1>1, <1>2 DEF DaysBefore
  <2>6. DaysBefore(y - 1) = e * 146097 + (r - 1) * 365 + ((r - 1) \div 4) - ((r - 1) \div 100) BY <1>1, <2>1 DEF DaysBefore
  <2> QED BY <1>1, <1>3, <1>5, <2>2, <2>3, <2>4, <2>5, <2>6, SMTT(30)
<1> QED BY <1>1, <1>4, <1>5

\* The months of the year that begins in March follow each other without a hole.
LEMMA MonthStep ==
    ASSUME NEW m \in 1..12, m # 2
    PROVE  DayOfYear(IF m = 12 THEN 1 ELSE m + 1, 1) = DayOfYear(m, month_days[m]) + 1
<1>1. m \in {1, 3, 4, 5, 6, 7, 8, 9, 10, 11, 12} OBVIOUS
<1> QED BY <1>1 DEF DayOfYear, month_days

\* The day after a date is numbered one more, at the end of every month of every year
\* (DaysFromCivil).
THEOREM DaysCount ==
    ASSUME NEW y \in Int, NEW m \in 1..12, NEW d \in 1..MonthDays(y, m)
    PROVE  LET t == Tomorrow(y, m, d)
           IN  DaysFromCivil(t[1], t[2], t[3]) = DaysFromCivil(y, m, d) + 1
<1> DEFINE t == Tomorrow(y, m, d)
<1>1. month_days[m] \in Int /\ MonthDays(y, m) \in Int /\ d \in Int
  <2>1. m \in {1, 2, 3, 4, 5, 6, 7, 8, 9, 10, 11, 12} OBVIOUS
  <2> QED BY <2>1 DEF MonthDays, month_days
<1>2. CASE d < MonthDays(y, m)
  <2>1. t = <<y, m, d + 1>> BY <1>2 DEF Tomorrow
  <2>2. DayOfYear(m, d + 1) = DayOfYear(m, d) + 1 BY <1>1 DEF DayOfYear
  <2>3. DaysFromCivil(y, m, d + 1) = DaysBefore(IF m <= 2 THEN y - 1 ELSE y) + DayOfYear(m, d + 1) - 719468 BY <1>1, CivilSum
  <2>4. DaysFromCivil(y, m, d) = DaysBefore(IF m <= 2 THEN y - 1 ELSE y) + DayOfYear(m, d) - 719468 BY <1>1, CivilSum
  <2>5. DaysBefore(IF m <= 2 THEN y - 1 ELSE y) \in Int /\ DayOfYear(m, d) \in Int BY <1>1, Numbers, ZenonT(30)
  <2> QED BY <2>1, <2>2, <2>3, <2>4, <2>5, SMTT(30)
<1>3. CASE d = MonthDays(y, m) /\ m # 2
  <2>1. d = month_days[m] BY <1>3 DEF MonthDays
  <2>2. DayOfYear(IF m = 12 THEN 1 ELSE m + 1, 1) = DayOfYear(m, d) + 1 BY <1>3, <2>1, MonthStep
  <2>3. CASE m = 12
    <3>1. t = <<y + 1, 1, 1>> BY <1>1, <1>3, <2>3 DEF Tomorrow
    <3>2. DaysFromCivil(y + 1, 1, 1) = DaysBefore(y) + DayOfYear(1, 1) - 719468 BY CivilSum
    <3>3. DaysFromCivil(y, m, d) = DaysBefore(y) + DayOfYear(m, d) - 719468 BY <1>1, <2>3, CivilSum, SMTT(30)
    <3>4. DaysBefore(y) \in Int /\ DayOfYear(m, d) \in Int BY <1>1, Numbers, ZenonT(30)
    <3> QED BY <2>2, <2>3, <3>1, <3>2, <3>3, <3>4
  <2>4. CASE m < 12
    <3>1. t = <<y, m + 1, 1>> BY <1>1, <1>3, <2>4 DEF Tomorrow
    <3>2. (m <= 2) = (m + 1 <= 2) BY <1>3
    <3>3. DaysFromCivil(y, m + 1, 1) = DaysBefore(IF m <= 2 THEN y - 1 ELSE y) + DayOfYear(m + 1, 1) - 719468
      BY <2>4, <3>2, CivilSum, SMTT(30)
    <3>4. DaysFromCivil(y, m, d) = DaysBefore(IF m <= 2 THEN y - 1 ELSE y) + DayOfYear(m, d) - 719468 BY <1>1, CivilSum
    <3>5. DaysBefore(IF m <= 2 THEN y - 1 ELSE y) \in Int /\ DayOfYear(m, d) \in Int BY <1>1, Numbers, ZenonT(30)
    <3> QED BY <2>2, <2>4, <3>1, <3>3, <3>4, <3>5
  <2> QED BY <2>3, <2>4
<1>4. CASE d = MonthDays(y, m) /\ m = 2
  <2>1. t = <<y, 3, 1>> BY <1>1, <1>4 DEF Tomorrow
  <2>2. d = IF IsLeap(y) THEN 29 ELSE 28 BY <1>4 DEF MonthDays, month_days
  <2>3. DayOfYear(3, 1) = 0 /\ DayOfYear(2, d) = 336 + d BY <1>1 DEF DayOfYear
  <2>4. DaysFromCivil(y, 3, 1) = DaysBefore(y) + DayOfYear(3, 1) - 719468 BY CivilSum
  <2>5. DaysFromCivil(y, 2, d) = DaysBefore(y - 1) + DayOfYear(2, d) - 719468 BY <1>1, CivilSum
  <2>6. DaysBefore(y) \in Int /\ DaysBefore(y - 1) \in Int BY Numbers
  <2> QED BY <1>1, <1>4, <2>1, <2>2, <2>3, <2>4, <2>5, <2>6, YearLength, SMTT(30)
<1> QED BY <1>1, <1>2, <1>3, <1>4

\* Day 0 is the first of January 1970 (DaysFromCivil).
THEOREM Epoch == DaysFromCivil(1970, 1, 1) = 0
BY DEF DaysFromCivil

-----------------------------------------------------------------------------
(* Flows: the handshake a session reports is one its segments made.            *)

\* What a session s remembers of its handshake, and the packets it stands for: its
\* SYNs, the SYNs answered, and whether a handshake was completed.
HandshakeOK(s, before, pairs, done) ==
    /\ s \in Session /\ before \subseteq {0, 1} \X (0..SeqSpace - 1)
    /\ \A x \in before : s.syn[x[1]] /\ x[2] = s.sequence[x[1]]
    /\ \A d \in {0, 1} : s.syn[d] => <<d, s.sequence[d]>> \in before
    /\ \A d \in {0, 1} : s.syn_ack[d] => s.syn[1 - d] /\ <<1 - d, s.sequence[1 - d], s.sequence[d]>> \in pairs
    /\ s.simultaneous_open <=> s.syn[0] /\ s.syn[1]
    /\ s.handshake_complete => done

HandshakeInv == open => HandshakeOK(st, syns, answered, complete)

LEMMA SidesOf ==
    ASSUME NEW s, NEW in
    PROVE  /\ SideOf(s, in) \in {0, 1} /\ 1 - SideOf(s, in) \in {0, 1}
           /\ 1 - (1 - SideOf(s, in)) = SideOf(s, in) /\ 1 - SideOf(s, in) # SideOf(s, in)
           /\ \A d \in {0, 1} : d = SideOf(s, in) \/ d = 1 - SideOf(s, in)
BY DEF SideOf

\* Evidence, one field at a time: a SYN, a SYN-ACK and any other packet from a side.
EvidenceAs(s, in, side, other, new) ==
    /\ new \in Session
    /\ InitiatingSyn(in) =>
         /\ new.syn = [s.syn EXCEPT ![side] = TRUE] /\ new.sequence = [s.sequence EXCEPT ![side] = in.seq]
         /\ new.syn_ack = s.syn_ack /\ new.handshake_complete = s.handshake_complete
         /\ new.simultaneous_open <=> s.simultaneous_open \/ s.syn[other]
    /\ Flag(in, "S") /\ Flag(in, "A") =>
         /\ new.syn = s.syn /\ new.handshake_complete = s.handshake_complete
         /\ new.simultaneous_open = s.simultaneous_open
         /\ \/ new.syn_ack = s.syn_ack /\ new.sequence = s.sequence
            \/ /\ s.syn[other] /\ in.ack = Following(s.sequence[other])
               /\ new.syn_ack = [s.syn_ack EXCEPT ![side] = TRUE]
               /\ new.sequence = [s.sequence EXCEPT ![side] = in.seq]
    /\ ~Flag(in, "S") =>
         /\ new.syn = s.syn /\ new.syn_ack = s.syn_ack /\ new.sequence = s.sequence
         /\ new.simultaneous_open = s.simultaneous_open
         /\ new.handshake_complete => \/ s.handshake_complete
                                      \/ /\ Flag(in, "A") /\ s.syn[side] /\ s.syn_ack[other]
                                         /\ in.ack = Following(s.sequence[other])
                                         /\ in.seq = Following(s.sequence[side])

LEMMA EvidenceFields ==
    ASSUME NEW s \in Session, NEW in \in SegmentType
    PROVE  EvidenceAs(s, in, SideOf(s, in), 1 - SideOf(s, in), Evidence(s, in))
<1> DEFINE side == SideOf(s, in)
           other == 1 - side
           new == Evidence(s, in)
<1> SUFFICES EvidenceAs(s, in, side, other, new)
  OBVIOUS
<1> DEFINE seen == [s EXCEPT !.handshake_closed = @ \/ (~Flag(in, "S") /\ (Flag(in, "A") \/ in.payload)),
                             !.fin_seen = @ \/ Flag(in, "F"), !.reset_seen = @ \/ Flag(in, "R")]
<1>1. side \in {0, 1} /\ other \in {0, 1}
  BY SidesOf
<1>2. in.seq \in 0..SeqSpace - 1
  BY DEF SegmentType
<1>3. /\ seen \in Session /\ seen.syn = s.syn /\ seen.syn_ack = s.syn_ack /\ seen.sequence = s.sequence
      /\ seen.simultaneous_open = s.simultaneous_open /\ seen.handshake_complete = s.handshake_complete
  BY DEF Session, Flag
<1>5. CASE InitiatingSyn(in)
  <2>1. Flag(in, "S") /\ ~Flag(in, "A")
    BY <1>5 DEF InitiatingSyn
  <2>2. new = [seen EXCEPT !.simultaneous_open = @ \/ s.syn[other], !.syn[side] = TRUE, !.sequence[side] = in.seq]
    BY <1>5, <2>1 DEF Evidence
  <2> HIDE DEF seen
  <2>3. new \in Session
    <3>1. ASSUME NEW b \in BOOLEAN
          PROVE  [seen EXCEPT !.simultaneous_open = b, !.syn[side] = TRUE, !.sequence[side] = in.seq] \in Session
      BY <1>1, <1>2, <1>3 DEF Session
    <3>2. (seen.simultaneous_open \/ s.syn[other]) \in BOOLEAN
      OBVIOUS
    <3>3. QED
      BY <2>2, <3>1, <3>2
  <2>4. /\ new.syn = [s.syn EXCEPT ![side] = TRUE] /\ new.sequence = [s.sequence EXCEPT ![side] = in.seq]
        /\ new.syn_ack = s.syn_ack /\ new.handshake_complete = s.handshake_complete
    BY <1>3, <2>2, ZenonT(40) DEF Session
  <2>5. new.simultaneous_open <=> s.simultaneous_open \/ s.syn[other]
    BY <1>3, <2>2 DEF Session
  <2>6. QED
    BY <2>1, <2>3, <2>4, <2>5 DEF EvidenceAs
<1>6. CASE Flag(in, "S") /\ Flag(in, "A")
  <2>1. new = IF s.syn[other] /\ in.ack = Following(s.sequence[other])
              THEN [seen EXCEPT !.syn_ack[side] = TRUE, !.sequence[side] = in.seq] ELSE seen
    BY <1>6 DEF Evidence, InitiatingSyn, Following
  <2> HIDE DEF seen
  <2>2. CASE ~(s.syn[other] /\ in.ack = Following(s.sequence[other]))
    <3>1. new = seen
      BY <2>1, <2>2
    <3>2. QED
      BY <3>1, <1>3, <1>6 DEF InitiatingSyn, EvidenceAs
  <2>3. CASE s.syn[other] /\ in.ack = Following(s.sequence[other])
    <3>1. new = [seen EXCEPT !.syn_ack[side] = TRUE, !.sequence[side] = in.seq]
      BY <2>1, <2>3
    <3>2. new \in Session
      <4>1. [seen EXCEPT !.syn_ack[side] = TRUE, !.sequence[side] = in.seq] \in Session
        BY <1>1, <1>2, <1>3 DEF Session
      <4>2. QED
        BY <3>1, <4>1
    <3>3. /\ new.syn = s.syn /\ new.handshake_complete = s.handshake_complete
          /\ new.simultaneous_open = s.simultaneous_open
          /\ new.syn_ack = [s.syn_ack EXCEPT ![side] = TRUE] /\ new.sequence = [s.sequence EXCEPT ![side] = in.seq]
      BY <1>3, <3>1 DEF Session
    <3>4. QED
      BY <2>3, <3>2, <3>3, <1>6 DEF InitiatingSyn, EvidenceAs
  <2>4. QED
    BY <2>2, <2>3
<1>7. CASE ~Flag(in, "S")
  <2> DEFINE completes == /\ Flag(in, "A") /\ s.syn[side] /\ s.syn_ack[other]
                          /\ in.ack = Following(s.sequence[other]) /\ in.seq = Following(s.sequence[side])
  <2>1. new = [seen EXCEPT !.handshake_complete = @ \/ completes]
    BY <1>7 DEF Evidence, InitiatingSyn, Following
  <2> HIDE DEF seen, completes
  <2>2. new \in Session
    BY <1>3, <2>1 DEF Session
  <2>3. /\ new.syn = s.syn /\ new.syn_ack = s.syn_ack /\ new.sequence = s.sequence
        /\ new.simultaneous_open = s.simultaneous_open
    BY <1>3, <2>1 DEF Session
  <2>4. new.handshake_complete => s.handshake_complete \/ completes
    BY <1>3, <2>1 DEF Session
  <2>5. QED
    BY <1>7, <2>2, <2>3, <2>4 DEF InitiatingSyn, completes, EvidenceAs
<1>8. QED
  BY <1>5, <1>6, <1>7 DEF InitiatingSyn

\* One packet of a session keeps the account, if a SYN is a retransmission or the
\* first of its side, and a SYN-ACK has the number of its side's SYN.
LEMMA PacketKeeps ==
    ASSUME NEW s, NEW in \in SegmentType, NEW before, NEW pairs, NEW done, NEW side,
           HandshakeOK(s, before, pairs, done), side = SideOf(s, in), Remember(side, in, before, pairs, done),
           InitiatingSyn(in) => \/ s.syn[side] /\ s.sequence[side] = in.seq
                                \/ ~s.syn[side] /\ ~s.syn_ack[side],
           Flag(in, "S") /\ Flag(in, "A") => \A x \in before : x[1] = side => x[2] = in.seq
    PROVE  HandshakeOK(Evidence(s, in), syns', answered', complete')
<1> DEFINE other == 1 - side
           new == Evidence(s, in)
<1>1. /\ side \in {0, 1} /\ other \in {0, 1} /\ 1 - other = side /\ other # side
      /\ \A d \in {0, 1} : d = side \/ d = other
  BY SidesOf
<1>2. s \in Session /\ in.seq \in 0..SeqSpace - 1
  BY DEF HandshakeOK, SegmentType
<1>3. s.syn \in [{0, 1} -> BOOLEAN] /\ s.syn_ack \in [{0, 1} -> BOOLEAN] /\ s.sequence \in [{0, 1} -> 0..SeqSpace - 1]
  BY <1>2 DEF Session
<1>4. s.simultaneous_open <=> s.syn[side] /\ s.syn[other]
  BY <1>1, SMTT(30) DEF HandshakeOK
<1> HIDE DEF new
<1>5. EvidenceAs(s, in, side, other, new) /\ new \in Session
  BY <1>2, EvidenceFields DEF EvidenceAs, new
<1>6. pairs \subseteq answered' /\ (done => complete')
  BY DEF Remember
<1>7. CASE InitiatingSyn(in)
  <2>1. /\ new.syn = [s.syn EXCEPT ![side] = TRUE] /\ new.sequence = [s.sequence EXCEPT ![side] = in.seq]
        /\ new.syn_ack = s.syn_ack /\ new.handshake_complete = s.handshake_complete
        /\ new.simultaneous_open <=> s.simultaneous_open \/ s.syn[other]
    BY <1>5, <1>7 DEF EvidenceAs
  <2>2. syns' = before \cup {<<side, in.seq>>}
    BY <1>7 DEF Remember
  <2> HIDE DEF other
  <2>3. /\ new.syn[side] = TRUE /\ new.syn[other] = s.syn[other]
        /\ new.sequence[side] = in.seq /\ new.sequence[other] = s.sequence[other]
    BY <1>1, <1>3, <2>1
  <2>4. syns' \subseteq {0, 1} \X (0..SeqSpace - 1)
    BY <1>1, <1>2, <2>2 DEF HandshakeOK
  <2>5. \A x \in syns' : new.syn[x[1]] /\ x[2] = new.sequence[x[1]]
    <3>1. ASSUME NEW x \in before PROVE new.syn[x[1]] /\ x[2] = new.sequence[x[1]]
      <4>1. s.syn[x[1]] /\ x[2] = s.sequence[x[1]] /\ x[1] \in {0, 1}
        BY DEF HandshakeOK
      <4>2. CASE x[1] = side
        BY <4>1, <4>2, <2>3, <1>7
      <4>3. CASE x[1] = other
        BY <4>1, <4>3, <2>3
      <4>4. QED
        BY <1>1, <4>1, <4>2, <4>3
    <3>2. QED
      BY <2>2, <2>3, <3>1
  <2>6. \A d \in {0, 1} : new.syn[d] => <<d, new.sequence[d]>> \in syns'
    BY <1>1, <2>2, <2>3 DEF HandshakeOK
  <2>7. \A d \in {0, 1} : new.syn_ack[d] => new.syn[1 - d] /\ <<1 - d, new.sequence[1 - d], new.sequence[d]>> \in answered'
    <3>1. s.syn_ack[other] => s.syn[side] /\ <<side, s.sequence[side], s.sequence[other]>> \in pairs
      BY <1>1 DEF HandshakeOK
    <3>2. s.syn_ack[side] => s.syn[other] /\ <<other, s.sequence[other], s.sequence[side]>> \in pairs
      BY <1>1 DEF HandshakeOK, other
    <3>3. new.syn_ack[other] => new.syn[side] /\ <<side, new.sequence[side], new.sequence[other]>> \in answered'
      BY <3>1, <2>1, <2>3, <1>6, <1>7
    <3>4. new.syn_ack[side] => new.syn[other] /\ <<other, new.sequence[other], new.sequence[side]>> \in answered'
      <4>1. s.syn_ack[side] => s.sequence[side] = in.seq
        BY <1>7
      <4>2. QED
        BY <4>1, <3>2, <2>1, <2>3, <1>6
    <3>5. QED
      BY <1>1, <3>3, <3>4 DEF other
  <2>8. new.simultaneous_open <=> new.syn[0] /\ new.syn[1]
    <3>1. new.simultaneous_open <=> new.syn[side] /\ new.syn[other]
      BY <1>4, <2>1, <2>3
    <3>2. QED
      BY <1>1, <3>1
  <2>9. new.handshake_complete => complete'
    BY <1>6, <2>1 DEF HandshakeOK
  <2>10. QED
    BY <1>5, <2>4, <2>5, <2>6, <2>7, <2>8, <2>9 DEF HandshakeOK, new
<1>8. CASE ~InitiatingSyn(in)
  <2>1. new.syn = s.syn /\ new.simultaneous_open = s.simultaneous_open
    BY <1>5, <1>8 DEF InitiatingSyn, EvidenceAs
  <2>2. syns' = before
    BY <1>8, SMTT(30) DEF Remember
  <2>3. new.handshake_complete => complete'
    <3>1. CASE Flag(in, "S")
      <4>1. new.handshake_complete = s.handshake_complete
        BY <1>5, <1>8, <3>1 DEF InitiatingSyn, EvidenceAs
      <4>2. QED
        BY <4>1, <1>6 DEF HandshakeOK
    <3>2. CASE ~Flag(in, "S")
      <4>1. new.handshake_complete =>
                \/ s.handshake_complete
                \/ /\ Flag(in, "A") /\ s.syn[side] /\ s.syn_ack[other]
                   /\ in.ack = Following(s.sequence[other]) /\ in.seq = Following(s.sequence[side])
        BY <1>5, <3>2 DEF EvidenceAs
      <4>2. s.syn_ack[other] => <<side, s.sequence[side], s.sequence[other]>> \in pairs
        BY <1>1 DEF HandshakeOK
      <4>3. QED
        BY <4>1, <4>2, <3>2, <1>6 DEF HandshakeOK, Remember
    <3>3. QED
      BY <3>1, <3>2
  <2>4. \/ new.syn_ack = s.syn_ack /\ new.sequence = s.sequence
        \/ /\ Flag(in, "S") /\ Flag(in, "A") /\ s.syn[other] /\ in.ack = Following(s.sequence[other])
           /\ new.syn_ack = [s.syn_ack EXCEPT ![side] = TRUE]
           /\ new.sequence = [s.sequence EXCEPT ![side] = in.seq]
    BY <1>5, <1>8, SMTT(30) DEF InitiatingSyn, EvidenceAs
  <2>5. CASE new.syn_ack = s.syn_ack /\ new.sequence = s.sequence
    BY <1>5, <1>6, <2>1, <2>2, <2>3, <2>5, SMTT(30) DEF HandshakeOK, new
  <2>6. CASE /\ Flag(in, "S") /\ Flag(in, "A") /\ s.syn[other] /\ in.ack = Following(s.sequence[other])
             /\ new.syn_ack = [s.syn_ack EXCEPT ![side] = TRUE]
             /\ new.sequence = [s.sequence EXCEPT ![side] = in.seq]
    <3>1. /\ new.syn_ack[side] = TRUE /\ new.syn_ack[other] = s.syn_ack[other]
          /\ new.sequence[side] = in.seq /\ new.sequence[other] = s.sequence[other]
      BY <1>1, <1>3, <2>6
    <3>2. s.syn[side] => s.sequence[side] = in.seq
      <4>1. s.syn[side] => <<side, s.sequence[side]>> \in before
        BY <1>1 DEF HandshakeOK
      <4>2. QED
        BY <4>1, <2>6
    <3>3. <<other, s.sequence[other], in.seq>> \in answered'
      <4>1. <<other, s.sequence[other]>> \in before
        BY <1>1, <2>6 DEF HandshakeOK
      <4>2. QED
        BY <4>1, <1>1, <2>6 DEF Remember
    <3> HIDE DEF other
    <3>4. \A d \in {0, 1} : new.syn[d] => <<d, new.sequence[d]>> \in syns'
      <4>1. \A d \in {0, 1} : s.syn[d] => <<d, s.sequence[d]>> \in before
        BY DEF HandshakeOK
      <4>2. QED
        BY <4>1, <1>1, <2>1, <2>2, <3>1, <3>2
    <3>5. \A x \in syns' : new.syn[x[1]] /\ x[2] = new.sequence[x[1]]
      <4>1. \A x \in before : x[1] \in {0, 1} /\ s.syn[x[1]] /\ x[2] = s.sequence[x[1]]
        BY DEF HandshakeOK
      <4>2. QED
        BY <4>1, <1>1, <2>1, <2>2, <3>1, <3>2
    <3>6. new.syn_ack[other] => new.syn[side] /\ <<side, new.sequence[side], new.sequence[other]>> \in answered'
      <4>1. s.syn_ack[other] => s.syn[side] /\ <<side, s.sequence[side], s.sequence[other]>> \in pairs
        BY <1>1 DEF HandshakeOK
      <4>2. QED
        BY <4>1, <1>6, <2>1, <3>1, <3>2
    <3>7. new.syn[other] /\ <<other, new.sequence[other], new.sequence[side]>> \in answered'
      BY <2>1, <2>6, <3>1, <3>3
    <3>8. \A d \in {0, 1} : new.syn_ack[d] => new.syn[1 - d] /\ <<1 - d, new.sequence[1 - d], new.sequence[d]>> \in answered'
      BY <1>1, <3>6, <3>7 DEF other
    <3>9. syns' \subseteq {0, 1} \X (0..SeqSpace - 1) /\ (new.simultaneous_open <=> new.syn[0] /\ new.syn[1])
      BY <2>1, <2>2 DEF HandshakeOK
    <3>10. QED
      BY <1>5, <2>3, <3>4, <3>5, <3>8, <3>9 DEF HandshakeOK, new
  <2>7. QED
    BY <2>4, <2>5, <2>6
<1>9. QED
  BY <1>7, <1>8

\* A session begins without evidence.
LEMMA OpenedOK ==
    ASSUME NEW in \in SegmentType
    PROVE  /\ HandshakeOK(Opened(in, 1), {}, {}, FALSE)
           /\ \A d \in {0, 1} : ~Opened(in, 1).syn[d] /\ ~Opened(in, 1).syn_ack[d]
<1> DEFINE new == Opened(in, 1)
<1>1. in.low \in BOOLEAN /\ 0 \in 0..SeqSpace - 1
  BY SessionAssumption DEF SegmentType
<1>2. /\ [d \in {0, 1} |-> {}] \in [{0, 1} -> SUBSET Nat]
      /\ [d \in {0, 1} |-> FALSE] \in [{0, 1} -> BOOLEAN] /\ [d \in {0, 1} |-> 0] \in [{0, 1} -> 0..SeqSpace - 1]
  BY <1>1
<1>3. new.orig_is_low \in BOOLEAN
  BY <1>1 DEF Opened
<1>4. new \in Session
  BY <1>1, <1>2, <1>3 DEF Opened, Session
<1>5. /\ \A d \in {0, 1} : ~new.syn[d] /\ ~new.syn_ack[d]
      /\ ~new.simultaneous_open /\ ~new.handshake_complete
  BY DEF Opened
<1>6. QED
  BY <1>4, <1>5 DEF HandshakeOK

LEMMA StartKeeps == ASSUME NEW in \in Segments, Start(in) PROVE HandshakeInv'
<1>1. in \in SegmentType
  BY HandshakeAssumption
<1>2. SideOf(Opened(in, 1), in) \in {0, 1}
  BY SidesOf, SMTT(30)
<1>3. HandshakeOK(Evidence(Opened(in, 1), in), syns', answered', complete')
  BY <1>1, <1>2, OpenedOK, PacketKeeps DEF Start
<1>4. QED
  BY <1>3 DEF Start, HandshakeInv

LEMMA ContinueKeeps ==
    ASSUME SameNumber, HandshakeInv, NEW in \in Segments, Continue(in) PROVE HandshakeInv'
<1> DEFINE side == SideOf(st, in)
<1>1. in \in SegmentType /\ HandshakeOK(st, syns, answered, complete)
  BY HandshakeAssumption DEF HandshakeInv, Continue
<1>2. /\ ~(InitiatingSyn(in) /\ Reused(st, in)) /\ Sent(side, in)
      /\ Remember(side, in, syns, answered, complete) /\ st' = Evidence(st, in) /\ open' = open
  BY DEF Continue
<1>3. InitiatingSyn(in) => \/ st.syn[side] /\ st.sequence[side] = in.seq
                           \/ ~st.syn[side] /\ ~st.syn_ack[side]
  BY <1>2 DEF Reused
<1>4. Flag(in, "S") /\ Flag(in, "A") => \A x \in syns : x[1] = side => x[2] = in.seq
  BY <1>2, SMTT(30) DEF Sent
<1> HIDE DEF side
<1>5. HandshakeOK(Evidence(st, in), syns', answered', complete')
  BY <1>1, <1>2, <1>3, <1>4, PacketKeeps DEF side
<1>6. QED
  BY <1>2, <1>5 DEF HandshakeInv

LEMMA HandshakeStep == ASSUME SameNumber, HandshakeInv, [HandshakeNext]_handshakeVars PROVE HandshakeInv'
<1>1. CASE Close
  BY <1>1 DEF Close, HandshakeInv
<1>2. CASE \E in \in Segments : Start(in) \/ Continue(in)
  BY <1>2, StartKeeps, ContinueKeeps
<1>3. CASE UNCHANGED handshakeVars
  BY <1>3 DEF handshakeVars, HandshakeInv
<1>4. QED
  BY <1>1, <1>2, <1>3 DEF HandshakeNext

LEMMA EvidenceFollows == ASSUME HandshakeInv PROVE EvidenceExact
<1>1. HandshakeSound
  BY DEF HandshakeInv, HandshakeOK, HandshakeSound
<1>2. SynsExplained
  <2>1. SUFFICES ASSUME open
                 PROVE  /\ \A x, y \in syns : x[1] = y[1] => x = y
                        /\ st.simultaneous_open <=> \E x, y \in syns : x[1] # y[1]
    BY DEF SynsExplained
  <2>2. HandshakeOK(st, syns, answered, complete)
    BY <2>1 DEF HandshakeInv
  <2>3. \A x \in syns : x = <<x[1], st.sequence[x[1]]>> /\ x[1] \in {0, 1} /\ st.syn[x[1]]
    BY <2>2 DEF HandshakeOK
  <2>4. \A x, y \in syns : x[1] = y[1] => x = y
    BY <2>3
  <2>5. (\E x, y \in syns : x[1] # y[1]) => st.syn[0] /\ st.syn[1]
    BY <2>3
  <2>6. st.syn[0] /\ st.syn[1] => <<0, st.sequence[0]>> \in syns /\ <<1, st.sequence[1]>> \in syns
    BY <2>2 DEF HandshakeOK
  <2>7. st.syn[0] /\ st.syn[1] => \E x, y \in syns : x[1] # y[1]
    <3>1. <<0, st.sequence[0]>>[1] # <<1, st.sequence[1]>>[1]
      OBVIOUS
    <3>2. QED
      BY <2>6, <3>1
  <2>8. st.simultaneous_open <=> st.syn[0] /\ st.syn[1]
    BY <2>2 DEF HandshakeOK
  <2>9. QED
    BY <2>4, <2>5, <2>7, <2>8
<1>3. QED
  BY <1>1, <1>2 DEF EvidenceExact

\* When hosts answer under the number of their own SYN, handshake_complete is set only
\* for a SYN, an opposite SYN-ACK that acknowledges it and an ACK that continues both,
\* and simultaneous_open exactly when both sides sent a SYN.
THEOREM HandshakeEvidence == ASSUME SameNumber PROVE HandshakeSpec => []EvidenceExact
<1>1. HandshakeInit => HandshakeInv
  BY DEF HandshakeInit, HandshakeInv
<1>2. HandshakeInv /\ [HandshakeNext]_handshakeVars => HandshakeInv'
  BY HandshakeStep
<1>3. HandshakeInv => EvidenceExact
  BY EvidenceFollows
<1>4. QED
  BY <1>1, <1>2, <1>3, PTL DEF HandshakeSpec
=============================================================================
