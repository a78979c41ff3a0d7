----------------------------- MODULE DnsDecoder -----------------------------
(***************************************************************************)
(* DecodeDns: one DNS message, its names followed octet by octet through   *)
(* compression pointers.  A message is [data, counts]: its octets, and the *)
(* four section counts of its header.  The text of names and addresses,    *)
(* and the fields copied to the row, are left out.                         *)
(* Source: src/src/dns_decoder.cpp.                                        *)
(***************************************************************************)
EXTENDS Integers, Sequences, Functions

CONSTANTS
    DnsMessages,                        \* the messages decoded
    NAME_MAX, LABELS_MAX, POINTERS_MAX, \* 255 octets, 127 labels, 127 pointers
    STEPS_MAX, WORK_MAX, COUNT_MAX, SIZE_MAX

ASSUME DnsAssumption ==
    /\ {NAME_MAX, LABELS_MAX, POINTERS_MAX, WORK_MAX, COUNT_MAX, SIZE_MAX} \subseteq Nat
    /\ NAME_MAX <= 2 * LABELS_MAX + 2
    /\ STEPS_MAX = LABELS_MAX + POINTERS_MAX + 1
    /\ \A m \in DnsMessages : m.data \in Seq(0..255) /\ m.counts \in Seq(Nat) /\ Len(m.counts) = 4

VARIABLES
    message,
    phase,      \* "start", "items", "name", "invalid", "valid"
    section,    \* 1 for questions, 2..4 for answers, authorities, additionals
    left,       \* records of the section still to read
    offset,     \* where the next record begins, and, in one, where its name did
    what,       \* the name being read: "question", "owner" or "rdata"
    parser,     \* Name's locals
    work,       \* Parser::work
    names       \* the names read so far

dnsVars == <<message, phase, section, left, offset, what, parser, work, names>>

Header == 12
size == Len(message.data)
Octet(o) == message.data[o + 1]
Pair(o) == 256 * Octet(o) + Octet(o + 1)
Has(o, length) == o <= size /\ length <= size - o

\* The locals of Name when it starts at o.
NameAt(o) == [start |-> o, cursor |-> o, segment |-> o, end |-> o, jumped |-> FALSE,
              expanded |-> 1, labels |-> 0, pointers |-> 0, step |-> 0, name |-> <<>>]

DnsInit ==
    /\ message \in DnsMessages
    /\ phase = "start" /\ section = 1 /\ left = 0 /\ offset = Header /\ what = "question"
    /\ parser = NameAt(Header) /\ work = 0 /\ names = <<>>

Reject == phase' = "invalid" /\ UNCHANGED <<section, left, offset, what, parser, names>>

-----------------------------------------------------------------------------
(* Name, one label or pointer to a step. *)

Length == Octet(parser.cursor)
IsPointer == Length >= 192
Target == 256 * (Length - 192) + Octet(parser.cursor + 1)

\* Every turn is counted against the work of the whole message.
Turn ==
    /\ phase = "name" /\ parser.step < STEPS_MAX
    /\ work' = work + 1
    /\ UNCHANGED message
CanRead == work' <= WORK_MAX /\ Has(parser.cursor, 1)

\* Mutant of FollowsPointer: a pointer need only lead before itself.
FollowsPointerBack ==
    /\ CanRead /\ IsPointer /\ Has(parser.cursor + 1, 1)
    /\ Target >= Header /\ Target < parser.cursor
    /\ parser.pointers < POINTERS_MAX

\* A pointer is followed to a place before the segment it is in.
FollowsPointer ==
    /\ CanRead /\ IsPointer /\ Has(parser.cursor + 1, 1)
    /\ Target >= Header /\ Target < parser.segment
    /\ parser.pointers < POINTERS_MAX

Pointer ==
    /\ Turn /\ FollowsPointer
    /\ parser' = [parser EXCEPT !.cursor = Target, !.segment = Target, !.pointers = @ + 1, !.step = @ + 1,
                                !.jumped = TRUE, !.end = IF parser.jumped THEN @ ELSE parser.cursor + 2]
    /\ UNCHANGED <<phase, section, left, offset, what, names>>

TakesLabel ==
    /\ CanRead /\ Length \in 1..63 /\ Has(parser.cursor + 1, Length)
    /\ parser.expanded + Length + 1 <= NAME_MAX

\* Mutant of Label: the length octet is not counted.
LabelUncounted ==
    /\ Turn /\ TakesLabel
    /\ parser' = [parser EXCEPT !.cursor = @ + 1 + Length, !.expanded = @ + Length, !.labels = @ + 1, !.step = @ + 1,
                                !.name = Append(@, SubSeq(message.data, parser.cursor + 2, parser.cursor + 1 + Length))]
    /\ UNCHANGED <<phase, section, left, offset, what, names>>

Label ==
    /\ Turn /\ TakesLabel
    /\ parser' = [parser EXCEPT !.cursor = @ + 1 + Length, !.expanded = @ + Length + 1, !.labels = @ + 1, !.step = @ + 1,
                                !.name = Append(@, SubSeq(message.data, parser.cursor + 2, parser.cursor + 1 + Length))]
    /\ UNCHANGED <<phase, section, left, offset, what, names>>

\* The name fails, and the message with it.
BadName ==
    /\ Turn
    /\ ~FollowsPointer /\ ~TakesLabel /\ ~(CanRead /\ Length = 0)
    /\ Reject

-----------------------------------------------------------------------------
(* What follows a name: the rest of DecodeDns' loop, and of Records'. *)

\* The root label ends the name at `after'.
RootAt(after) ==
    /\ Turn /\ CanRead /\ Length = 0
    /\ after = IF parser.jumped THEN parser.end ELSE parser.cursor + 1

Read(after) == Append(names, [start |-> parser.start, end |-> after, name |-> parser.name])

Question ==
    \E after \in 0..size :
        /\ RootAt(after) /\ what = "question"
        /\ IF Has(after, 4)
           THEN /\ names' = Read(after) /\ phase' = "items" /\ offset' = after + 4 /\ left' = left - 1
                /\ UNCHANGED <<section, what, parser>>
           ELSE Reject

\* The record's type, class and data; a name server, alias or pointer has a name for data.
A == 1
AAAA == 28
NamedTypes == {2, 5, 12}
BadAddress(type, klass, length) ==
    klass = 1 /\ ((type = A /\ length # 4) \/ (type = AAAA /\ length # 16))

Owner ==
    \E after \in 0..size :
        LET data == after + 10
            length == Pair(after + 8)
        IN  /\ RootAt(after) /\ what = "owner"
            /\ IF ~Has(after, 10) THEN Reject
               ELSE IF ~Has(data, length) \/ BadAddress(Pair(after), Pair(after + 2), length) THEN Reject
               ELSE /\ names' = Read(after)
                    /\ IF Pair(after) \in NamedTypes
                       THEN /\ parser' = NameAt(data) /\ what' = "rdata" /\ offset' = data + length
                            /\ UNCHANGED <<phase, section, left>>
                       ELSE /\ phase' = "items" /\ offset' = data + length /\ left' = left - 1
                            /\ UNCHANGED <<section, what, parser>>

\* The name must fill the data it is in.
RData ==
    \E after \in 0..size :
        /\ RootAt(after) /\ what = "rdata"
        /\ IF after = offset
           THEN /\ names' = Read(after) /\ phase' = "items" /\ left' = left - 1
                /\ UNCHANGED <<section, offset, what, parser>>
           ELSE Reject

-----------------------------------------------------------------------------
(* DecodeDns. *)

StartMessage ==
    /\ phase = "start"
    /\ IF size < Header \/ size > SIZE_MAX \/ SumFunction(message.counts) > COUNT_MAX THEN Reject
       ELSE /\ phase' = "items" /\ offset' = Header /\ left' = message.counts[1]
            /\ UNCHANGED <<section, what, parser, names>>
    /\ UNCHANGED <<message, work>>

NextName ==
    /\ phase = "items" /\ left > 0
    /\ phase' = "name" /\ parser' = NameAt(offset) /\ what' = IF section = 1 THEN "question" ELSE "owner"
    /\ UNCHANGED <<message, section, left, offset, work, names>>

NextSection ==
    /\ phase = "items" /\ left = 0 /\ section < 4
    /\ section' = section + 1 /\ left' = message.counts[section + 1]
    /\ UNCHANGED <<message, phase, offset, what, parser, work, names>>

EndMessage ==
    /\ phase = "items" /\ left = 0 /\ section = 4
    /\ phase' = IF offset = size THEN "valid" ELSE "invalid"
    /\ UNCHANGED <<message, section, left, offset, what, parser, work, names>>

DnsNext == StartMessage \/ NextName \/ Pointer \/ Label \/ BadName \/ Question \/ Owner \/ RData \/ NextSection \/ EndMessage
DnsSpec == DnsInit /\ [][DnsNext]_dnsVars

-----------------------------------------------------------------------------
(* Properties. *)

\* The name at octet o: what each place on its way holds.  One with more places than the
\* limits leave room for is not followed to its end.
Place(o) ==
    IF ~Has(o, 1) THEN [at |-> o, holds |-> "bad", next |-> o]
    ELSE IF Octet(o) = 0 THEN [at |-> o, holds |-> "root", next |-> o]
    ELSE IF Octet(o) <= 63 /\ Has(o + 1, Octet(o)) THEN [at |-> o, holds |-> "label", next |-> o + 1 + Octet(o)]
    ELSE IF Octet(o) >= 192 /\ Has(o + 1, 1) THEN [at |-> o, holds |-> "pointer", next |-> 256 * (Octet(o) - 192) + Octet(o + 1)]
    ELSE [at |-> o, holds |-> "bad", next |-> o]
PathOf(o) ==
    LET path[n \in 0..(NAME_MAX + POINTERS_MAX)] ==
            IF n = 0 THEN <<Place(o)>>
            ELSE LET before == path[n - 1]
                     end == before[Len(before)]
                 IN  IF end.holds \in {"root", "bad"} THEN before ELSE Append(before, Place(end.next))
    IN  path[NAME_MAX + POINTERS_MAX]

Labels(path) == SelectSeq(path, LAMBDA x : x.holds = "label")
Pointers(path) == SelectSeq(path, LAMBDA x : x.holds = "pointer")

\* A legal name ends, is short enough, has few enough pointers, and each of them leads
\* before the place the pointer before it led to, or before the name itself.
\* Labels and pointers are bounded apart, as in the code: a walk of labels and pointers
\* together has no bound of its own, so a name of 127 labels through a pointer is legal.
Legal(path) ==
    LET ps == Pointers(path)
        ls == Labels(path)
    IN  /\ path[Len(path)].holds = "root"
        /\ 1 + SumFunction([i \in DOMAIN ls |-> ls[i].next - ls[i].at]) <= NAME_MAX
        /\ Len(ps) <= POINTERS_MAX
        /\ \A i \in DOMAIN ps : /\ ps[i].next >= Header
                                /\ ps[i].next < IF i = 1 THEN path[1].at ELSE ps[i - 1].next

\* Where the record goes on: past the name, or past its first pointer.
EndOf(path) == IF Pointers(path) = <<>> THEN path[Len(path)].at + 1 ELSE Pointers(path)[1].at + 2

\* A name is read exactly when it is legal and the message's work allows it, and it is
\* read as what its labels and pointers spell, and as ending where its record goes on
\* (Parser::Name).  A walk of more than 128 steps is not refused for its length: docs/DNS.md
\* says it is, the code and its unit test read a name of 129 steps.
NamesExact ==
    [][/\ BadName => ~Legal(PathOf(parser.start)) \/ work' > WORK_MAX
       /\ names' # names =>
            LET n == names'[Len(names')]
                path == PathOf(n.start)
                labels == Labels(path)
            IN  /\ Legal(path) /\ n.end = EndOf(path)
                /\ n.name = [i \in DOMAIN labels |-> SubSeq(message.data, labels[i].at + 2, labels[i].next)]]_dnsVars

\* "Every label and pointer is counted against a cap that returns first": the loop of
\* Name never runs out of its STEPS_MAX turns, and a name never has more than LABELS_MAX
\* labels, which the code asserts.
StepsSuffice == phase = "name" => parser.step < STEPS_MAX /\ parser.labels <= LABELS_MAX
=============================================================================
