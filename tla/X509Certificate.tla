-------------------------- MODULE X509Certificate ---------------------------
(***************************************************************************)
(* ParseX509Certificate: one certificate, its fields in order and then its *)
(* extensions one at a time.                                               *)
(*                                                                         *)
(* DER is a tree here.  An element is [tag, whole, octets, content]: its   *)
(* tag, whether its length is legal and within the value it is in, and its *)
(* contents, read as octets or as the elements of a constructed value.  A  *)
(* broken element is the last of its value.  An OID is one number, or no   *)
(* octet at all where its octets are no OID.  The octets of a time are     *)
(* relative to '0'.  The names of algorithms and of curves, and the        *)
(* escaping of text, are left out.                                         *)
(* Source: src/src/x509_certificate.cpp.                                   *)
(***************************************************************************)
EXTENDS Calendar, Sequences, SequencesExt, FiniteSets, FiniteSetsExt

CONSTANTS
    Certificates,           \* the certificates read, each the elements of one message
    max_entries,            \* names, purposes, policies and addresses kept
    MAX_NAME_ATTRIBUTES     \* 256

VARIABLES
    certificate,
    extension,      \* the next extension, 0 before they are reached
    copies,         \* ExtensionCopies
    parsed,         \* the certificate being filled in, and then the one returned
    x509            \* "parsing", or the X509Result

x509Vars == <<certificate, extension, copies, parsed, x509>>

-----------------------------------------------------------------------------
(* Der: the elements s of a value, the i-th next. *)

Framed(s, i) == i \in DOMAIN s /\ s[i].whole
PeekTag(s, i) == IF i \in DOMAIN s THEN s[i].tag ELSE "none"
Expect(s, i, tag) == Framed(s, i) /\ s[i].tag = tag
Only(s, tag) == Expect(s, 1, tag) /\ Len(s) = 1
DecodeOid(s, i) == Expect(s, i, "oid") /\ s[i].octets # <<>>
Oid(e) == e.octets[1]

\* The loops over a list: an entry that is bad ends it, one without a target is passed
\* over, and one that its target has no room for is over the limit.
NoEntries == [result |-> "OK", list |-> <<>>]
Entry(acc, e, bad, target, limit) ==
    IF acc.result # "OK" THEN acc
    ELSE IF bad THEN [acc EXCEPT !.result = "MALFORMED"]
    ELSE IF target = "" THEN acc
    ELSE IF Len(SelectSeq(acc.list, LAMBDA x : x.target = target)) >= limit THEN [acc EXCEPT !.result = "OVER_LIMIT"]
    ELSE [acc EXCEPT !.list = Append(@, [target |-> target, octets |-> e.octets])]
Flat(entries, target) ==
    LET own == SelectSeq(entries, LAMBDA x : x.target = target) IN [i \in DOMAIN own |-> own[i].octets]

-----------------------------------------------------------------------------
(* Names, times and keys. *)

\* DecodeName: the attributes of each set in turn, written last first.
BadAttribute(e) ==
    \/ ~e.whole \/ e.tag # "sequence"
    \/ ~DecodeOid(e.content, 1) \/ ~Framed(e.content, 2) \/ Len(e.content) # 2
DecodeName(name) ==
    LET Attribute(acc, e) == Entry(acc, e.content[2], BadAttribute(e), "name", MAX_NAME_ATTRIBUTES)
        Set(acc, e) ==
            IF ~e.whole \/ e.tag # "set" \/ e.content = <<>> THEN Entry(acc, e, TRUE, "", 0)
            ELSE FoldLeft(Attribute, acc, e.content)
        read == FoldLeft(Set, NoEntries, name.content)
    IN  IF name.tag # "sequence" THEN [result |-> "MALFORMED", name |-> <<>>]
        ELSE [result |-> read.result, name |-> Reverse(Flat(read.list, "name"))]

\* Digits: the number that n octets from the i-th on spell.
AreDigits(o, from, to) == \A i \in from..to : o[i] \in 0..9
Digits(o, from, n) == FoldLeft(LAMBDA sum, x : sum * 10 + x, 0, SubSeq(o, from, from + n - 1))
Z == 42

\* DecodeTime: the day and the second of the day; a UTCTime has two digits of the year.
DecodeTime(e) ==
    LET o == e.octets
        n == IF e.tag = "utc_time" THEN 2 ELSE 4
        At(k) == Digits(o, n + 1 + 2 * k, 2)
        spelt == Digits(o, 1, n)
        year == IF n = 4 THEN spelt ELSE IF spelt < 50 THEN 2000 + spelt ELSE 1900 + spelt
        month == At(0)
        day == At(1)
    IN  IF /\ e.tag \in {"utc_time", "generalized_time"} /\ Len(o) = n + 11
           /\ AreDigits(o, 1, n + 10) /\ o[n + 11] = Z
           /\ month \in 1..12
           /\ day >= 1 /\ day <= month_days[month] + (IF month = 2 /\ IsLeap(year) THEN 1 ELSE 0)
           /\ At(2) <= 23 /\ At(3) <= 59 /\ At(4) <= 59
        THEN <<DaysFromCivil(year, month, day), At(2) * 3600 + At(3) * 60 + At(4)>>
        ELSE <<>>

\* IntegerBits: the significant bits of an integer.
IntegerBits(e) ==
    LET ones == {i \in DOMAIN e.octets : e.octets[i] # 0}
        top == e.octets[Min(ones)]
    IN  IF ones = {} THEN 0
        ELSE (Len(e.octets) - Min(ones)) * 8 + Min({b \in 1..8 : top < 2^b})

EC == 1
RSA == 2
DSA == 3
NamedCurves == [c \in {7, 34} |-> IF c = 7 THEN 256 ELSE 384]
ECParameters == <<"integer", "sequence", "sequence", "octet_string", "integer">>

\* The bits of a key; what cannot be read of it stays unknown, 0, and fails nothing.
DecodePublicKey(info) ==
    LET algorithm == info.content[1].content
        key == info.content[2]
        Parameter(tag) == Expect(algorithm, 2, tag)
        values == algorithm[2].content
        modulus == key.content[1].content
    IN  IF ~Expect(info.content, 1, "sequence") \/ ~Expect(info.content, 2, "bit_string") \/ ~DecodeOid(algorithm, 1) THEN 0
        ELSE CASE Oid(algorithm[1]) = EC /\ DecodeOid(algorithm, 2) ->
                    IF Oid(algorithm[2]) \in DOMAIN NamedCurves THEN NamedCurves[Oid(algorithm[2])] ELSE 0
               [] Oid(algorithm[1]) = EC /\ Parameter("sequence") /\ (\A i \in 1..5 : Expect(values, i, ECParameters[i])) ->
                    IntegerBits(values[5])
               [] Oid(algorithm[1]) = DSA /\ Parameter("sequence") /\ Expect(values, 1, "integer") -> IntegerBits(values[1])
               [] Oid(algorithm[1]) = RSA /\ key.octets = <<0>> /\ Expect(key.content, 1, "sequence") /\ Expect(modulus, 1, "integer") ->
                    IntegerBits(modulus[1])
               [] OTHER -> 0

-----------------------------------------------------------------------------
(* The extensions that are read, by the last number of their OID.  A decoder is given *)
(* the elements of the extension's value, and what it writes into its fields.         *)

SAN == 17
BASIC == 19
USAGE == 15
PURPOSES == 37
SUBJECT_ID == 14
AUTHORITY_ID == 35
ACCESS == 1
CRL == 31
POLICIES == 32
ReadExtensions == {SAN, BASIC, USAGE, PURPOSES, SUBJECT_ID, AUTHORITY_ID, ACCESS, CRL, POLICIES}

Unknown == [has |-> FALSE, ca |-> FALSE, path |-> <<>>, list |-> <<>>]
Malformed == [result |-> "MALFORMED", field |-> Unknown]
Field(ok, field) == [result |-> IF ok THEN "OK" ELSE "MALFORMED", field |-> field]
ListField(entries) == [result |-> entries.result, field |-> [Unknown EXCEPT !.has = TRUE, !.list = entries.list]]

\* cA, then pathLenConstraint, non-negative and of 32 bits; either may be missing.
FitsPath(o) == o # <<>> /\ o[1] < 128 /\ Len(o) - (IF o[1] = 0 THEN 1 ELSE 0) <= 4
DecodeBasicConstraints(v) ==
    LET f == v[1].content
        has_ca == PeekTag(f, 1) = "boolean"
        next == IF has_ca THEN 2 ELSE 1
        has_path == PeekTag(f, next) = "integer"
    IN  IF ~Only(v, "sequence") THEN Malformed
        ELSE Field(/\ has_ca => f[1].whole /\ Len(f[1].octets) = 1
                   /\ has_path => f[next].whole /\ FitsPath(f[next].octets)
                   /\ Len(f) = IF has_path THEN next ELSE next - 1,
                   [Unknown EXCEPT !.has = TRUE, !.ca = has_ca /\ f[1].octets # <<0>>,
                                   !.path = IF has_path THEN f[next].octets ELSE <<>>])

\* The first octet counts the bits that are not used in the last; nine bits have names.
UsageBits(o) == {b \in 0..8 : b < (Len(o) - 1) * 8 - o[1] /\ (o[2 + b \div 8] \div 2^(7 - (b % 8))) % 2 = 1}
DecodeKeyUsage(v) ==
    LET o == v[1].octets
    IN  IF ~Only(v, "bit_string") \/ o = <<>> \/ o[1] > 7 \/ (Len(o) = 1 /\ o[1] # 0) THEN Malformed
        ELSE Field(TRUE, [Unknown EXCEPT !.has = TRUE, !.list = SetToSortSeq(UsageBits(o), <)])

\* A list of purposes must not be empty.
DecodeExtendedKeyUsage(v) ==
    LET read == FoldLeft(LAMBDA acc, e : Entry(acc, e, ~DecodeOid(<<e>>, 1), "purpose", max_entries), NoEntries, v[1].content)
    IN  IF ~Only(v, "sequence") \/ v[1].content = <<>> THEN Malformed ELSE ListField(read)

\* DNS names and addresses share the limit; other names are passed over.
BadGeneralName(e) == ~e.whole \/ (e.tag = "ip_address" /\ Len(e.octets) \notin {4, 16})
DecodeSubjectAltName(v) ==
    LET Target(e) == IF e.tag \in {"dns_name", "ip_address"} THEN "name" ELSE ""
    IN  IF ~Only(v, "sequence") THEN Malformed
        ELSE ListField(FoldLeft(LAMBDA acc, e : Entry(acc, e, BadGeneralName(e), Target(e), max_entries), NoEntries, v[1].content))

KeyId(octets) == [Unknown EXCEPT !.has = octets # <<>>, !.list = IF octets = <<>> THEN <<>> ELSE <<octets>>]
DecodeSubjectKeyId(v) ==
    IF ~Only(v, "octet_string") \/ v[1].octets = <<>> THEN Malformed ELSE Field(TRUE, KeyId(v[1].octets))

\* The three fields are each optional and in order; only the first is kept.
AuthorityTags == <<"context_0", "context_1_set", "context_2">>
DecodeAuthorityKeyId(v) ==
    LET f == v[1].content
        Number(i) == CHOOSE n \in 1..3 : AuthorityTags[n] = f[i].tag
    IN  IF ~Only(v, "sequence") THEN Malformed
        ELSE Field(/\ \A i \in DOMAIN f : f[i].whole /\ f[i].tag \in Range(AuthorityTags)
                   /\ \A i, j \in DOMAIN f : i < j => Number(i) < Number(j)
                   /\ PeekTag(f, 1) = "context_0" => f[1].octets # <<>>,
                   KeyId(IF PeekTag(f, 1) = "context_0" THEN f[1].octets ELSE <<>>))

OCSP == 48
ISSUERS == 49
BadAccess(e) ==
    \/ ~e.whole \/ e.tag # "sequence"
    \/ ~DecodeOid(e.content, 1) \/ ~Framed(e.content, 2) \/ Len(e.content) # 2
AccessTarget(e) ==
    CASE Oid(e.content[1]) = OCSP /\ e.content[2].tag = "uri" -> "ocsp"
      [] Oid(e.content[1]) = ISSUERS /\ e.content[2].tag = "uri" -> "ca_issuers"
      [] OTHER -> ""
DecodeAuthorityInfoAccess(v) ==
    LET Access(acc, e) == Entry(acc, e.content[2], BadAccess(e), AccessTarget(e), max_entries)
    IN  IF ~Only(v, "sequence") THEN Malformed ELSE ListField(FoldLeft(Access, NoEntries, v[1].content))

\* Only the addresses of a full name are kept; the points share one list.
BadPoint(e) ==
    \/ ~e.whole \/ e.tag # "sequence"
    \/ /\ PeekTag(e.content, 1) = "context_0_set"
       /\ ~e.content[1].whole \/ ~Framed(e.content[1].content, 1) \/ Len(e.content[1].content) # 1
FullName(e) ==
    IF PeekTag(e.content, 1) = "context_0_set" /\ e.content[1].content[1].tag = "context_0_set"
    THEN e.content[1].content[1].content ELSE <<>>
GeneralNameUris(acc, names) ==
    FoldLeft(LAMBDA a, n : Entry(a, n, ~n.whole, IF n.tag = "uri" THEN "uri" ELSE "", max_entries), acc, names)
DecodeCrlDistributionPoints(v) ==
    LET Point(acc, e) == IF BadPoint(e) THEN Entry(acc, e, TRUE, "", 0) ELSE GeneralNameUris(acc, FullName(e))
    IN  IF ~Only(v, "sequence") THEN Malformed ELSE ListField(FoldLeft(Point, NoEntries, v[1].content))

BadPolicy(e) ==
    \/ ~e.whole \/ e.tag # "sequence" \/ ~DecodeOid(e.content, 1)
    \/ Len(e.content) > 1 /\ (~Expect(e.content, 2, "sequence") \/ Len(e.content) > 2)
DecodePolicies(v) ==
    LET Policy(acc, e) == Entry(acc, e.content[1], BadPolicy(e), "policy", max_entries)
    IN  IF ~Only(v, "sequence") THEN Malformed ELSE ListField(FoldLeft(Policy, NoEntries, v[1].content))

DecodedBy(k, v) ==
    CASE k = SAN -> DecodeSubjectAltName(v)
      [] k = BASIC -> DecodeBasicConstraints(v)
      [] k = USAGE -> DecodeKeyUsage(v)
      [] k = PURPOSES -> DecodeExtendedKeyUsage(v)
      [] k = SUBJECT_ID -> DecodeSubjectKeyId(v)
      [] k = AUTHORITY_ID -> DecodeAuthorityKeyId(v)
      [] k = ACCESS -> DecodeAuthorityInfoAccess(v)
      [] k = CRL -> DecodeCrlDistributionPoints(v)
      [] k = POLICIES -> DecodePolicies(v)

-----------------------------------------------------------------------------
(* Parse, DecodeTbs and DecodeExtensions. *)

NoCertificate ==
    [serial |-> <<>>, issuer |-> <<>>, subject |-> <<>>, not_before |-> <<>>, not_after |-> <<>>,
     public_key_bits |-> 0, extension_oids |-> <<>>, fields |-> [k \in ReadExtensions |-> Unknown]]

X509Start ==
    /\ extension = 0 /\ copies = [k \in ReadExtensions |-> 0]
    /\ parsed = NoCertificate /\ x509 = "parsing"
X509Init == certificate \in Certificates /\ X509Start

\* ParseX509Certificate returns a certificate or none of it.
Returned(result, out) ==
    /\ x509' = result /\ parsed' = IF result = "OK" THEN out ELSE NoCertificate
    /\ UNCHANGED extension

Outer == certificate[1].content
Tbs == Outer[1].content
\* Where the serial number is, and the extensions, if any.
Serial == IF PeekTag(Tbs, 1) = "version" THEN 2 ELSE 1
SubjectUid == Serial + (IF PeekTag(Tbs, Serial + 6) = "issuer_uid" THEN 7 ELSE 6)
Wrapper == SubjectUid + (IF PeekTag(Tbs, SubjectUid) = "subject_uid" THEN 1 ELSE 0)
Validity == Tbs[Serial + 3].content
ExtensionList == Tbs[Wrapper].content[1].content

\* The fields in order, up to the extensions.
DecodeTbs ==
    LET issuer == DecodeName(Tbs[Serial + 2])
        subject == DecodeName(Tbs[Serial + 4])
    IN  IF \/ Serial = 2 /\ ~Framed(Tbs, 1)
           \/ ~Expect(Tbs, Serial, "integer") \/ Tbs[Serial].octets = <<>>
           \/ ~Expect(Tbs, Serial + 1, "sequence") \/ ~Framed(Tbs, Serial + 2) THEN "MALFORMED"
        ELSE IF issuer.result # "OK" THEN issuer.result
        ELSE IF \/ ~Expect(Tbs, Serial + 3, "sequence") \/ ~Framed(Validity, 1) \/ ~Framed(Validity, 2) \/ Len(Validity) # 2
                \/ DecodeTime(Validity[1]) = <<>> \/ DecodeTime(Validity[2]) = <<>>
                \/ ~Framed(Tbs, Serial + 4) THEN "MALFORMED"
        ELSE IF subject.result # "OK" THEN subject.result
        ELSE IF \/ ~Expect(Tbs, Serial + 5, "sequence")
                \/ \E i \in Serial + 6..Wrapper - 1 : ~Framed(Tbs, i)
                \/ /\ Wrapper <= Len(Tbs)
                   /\ ~Expect(Tbs, Wrapper, "extensions") \/ Len(Tbs) # Wrapper \/ ~Only(Tbs[Wrapper].content, "sequence")
        THEN "MALFORMED"
        ELSE "OK"

Parse ==
    /\ x509 = "parsing" /\ extension = 0
    /\ IF \/ ~Only(certificate, "sequence")
          \/ ~Expect(Outer, 1, "sequence") \/ ~Expect(Outer, 2, "sequence") \/ ~Framed(Outer, 3) \/ Len(Outer) # 3
       THEN Returned("MALFORMED", parsed)
       ELSE IF DecodeTbs # "OK" THEN Returned(DecodeTbs, parsed)
       ELSE LET out == [parsed EXCEPT !.serial = Tbs[Serial].octets,
                                      !.issuer = DecodeName(Tbs[Serial + 2]).name, !.subject = DecodeName(Tbs[Serial + 4]).name,
                                      !.not_before = DecodeTime(Validity[1]), !.not_after = DecodeTime(Validity[2]),
                                      !.public_key_bits = DecodePublicKey(Tbs[Serial + 5])]
            IN  IF Wrapper > Len(Tbs) THEN Returned("OK", out)
                ELSE extension' = 1 /\ parsed' = out /\ UNCHANGED x509
    /\ UNCHANGED <<certificate, copies>>

\* An OID, whether it is critical, and a value.
FrameExtension(e) ==
    LET value == IF PeekTag(e.content, 2) = "boolean" THEN 3 ELSE 2
    IN  /\ e.whole /\ e.tag = "sequence" /\ DecodeOid(e.content, 1)
        /\ value = 3 => e.content[2].whole
        /\ Expect(e.content, value, "octet_string") /\ Len(e.content) = value
ExtensionOid(e) == Oid(e.content[1])
ExtensionValue(e) == Last(e.content).content

\* Mutant of Decided: the last copy of an extension counts.
DecidedLast(k, read) == IF read.result = "OK" THEN read.field ELSE Unknown

\* A field is known only while its extension was met once and read.
Decided(k, read) == IF copies[k] = 0 /\ read.result = "OK" THEN read.field ELSE Unknown

\* Only the subjectAltName, or too many purposes, fail the certificate.
DecodeExtension ==
    /\ x509 = "parsing" /\ extension > 0 /\ extension <= Len(ExtensionList)
    /\ LET e == ExtensionList[extension]
           k == ExtensionOid(e)
           read == DecodedBy(k, ExtensionValue(e))
           Go(out) == extension' = extension + 1 /\ parsed' = out /\ UNCHANGED x509
           out == [parsed EXCEPT !.extension_oids = Append(@, k)]
       IN  IF ~FrameExtension(e) THEN Returned("MALFORMED", parsed) /\ UNCHANGED copies
           ELSE IF k \notin ReadExtensions THEN Go(out) /\ UNCHANGED copies
           ELSE /\ copies' = [copies EXCEPT ![k] = @ + 1]
                /\ IF k = SAN /\ copies[k] > 0 THEN Returned("MALFORMED", parsed)
                   ELSE IF k = SAN /\ read.result # "OK" THEN Returned(read.result, parsed)
                   ELSE IF k = PURPOSES /\ copies[k] = 0 /\ read.result = "OVER_LIMIT" THEN Returned(read.result, parsed)
                   ELSE Go([out EXCEPT !.fields[k] = Decided(k, read)])
    /\ UNCHANGED certificate

EndExtensions ==
    /\ x509 = "parsing" /\ extension > 0 /\ extension > Len(ExtensionList)
    /\ Returned("OK", parsed)
    /\ UNCHANGED <<certificate, copies>>

X509Next == Parse \/ DecodeExtension \/ EndExtensions

-----------------------------------------------------------------------------
(* Properties. *)

\* The fields of a certificate (RFC 5280), those in an Optional set possibly missing.
Optional(tag) == {<<>>, <<tag>>}
TbsGrammar ==
    {v \o <<"integer", "sequence", "sequence", "sequence", "sequence", "sequence">> \o i \o s \o x :
        v \in Optional("version"), i \in Optional("issuer_uid"), s \in Optional("subject_uid"), x \in Optional("extensions")}
Tags(s) == [i \in DOMAIN s |-> s[i].tag]
Unbroken(s) == \A i \in DOMAIN s : s[i].whole
Follows(s, grammar) == Unbroken(s) /\ Tags(s) \in grammar

\* The attributes of a name, its last set first.
Attributes(name) == FlattenSeq([i \in DOMAIN name.content |-> name.content[i].content])
LegalName(name) ==
    /\ name.tag = "sequence"
    /\ \A i \in DOMAIN name.content : name.content[i].whole /\ name.content[i].tag = "set" /\ name.content[i].content # <<>>
    /\ \A i \in DOMAIN Attributes(name) : ~BadAttribute(Attributes(name)[i])
CrowdedName(name) == Len(Attributes(name)) > MAX_NAME_ATTRIBUTES
NameOf(name) ==
    LET a == Attributes(name) IN [i \in DOMAIN a |-> a[Len(a) + 1 - i].content[2].octets]

\* The bits of a key: of the number that is its size, where its algorithm is one whose
\* number is known, or of the curve it names; 0 if it has neither.
SizeOf(e) == Min({b \in 0..8 * Len(e.octets) : FoldLeft(LAMBDA n, o : 256 * n + o, 0, e.octets) < 2^b})
Numbers(s) == IF Unbroken(s) THEN SelectSeq(s, LAMBDA e : e.tag = "integer") ELSE <<>>
KeyBits(info) ==
    LET algorithm == info.content[1].content
        named == algorithm[1].octets
        parameters == IF Len(algorithm) = 2 THEN algorithm[2] ELSE [tag |-> "none", octets |-> <<>>, content |-> <<>>]
        sizes == CASE named = <<RSA>> -> Numbers(FlattenSeq([i \in DOMAIN info.content[2].content |-> info.content[2].content[i].content]))
                   [] named = <<DSA>> -> Numbers(parameters.content)
                   [] named = <<EC>> -> SubSeq(Numbers(parameters.content), 2, 2)
                   [] OTHER -> <<>>
    IN  IF ~Follows(info.content, {<<"sequence", "bit_string">>}) THEN 0
        ELSE IF named = <<EC>> /\ parameters.tag = "oid" THEN MapThenSumSet(LAMBDA c : NamedCurves[c], {Oid(parameters)} \cap DOMAIN NamedCurves)
        ELSE IF sizes = <<>> THEN 0 ELSE SizeOf(sizes[1])

\* The moments a time can spell, by the calendar.
DayNumber(year, month, day) ==
    365 * year + Cardinality({y \in 0..year - 1 : IsLeap(y)}) + MapThenSumSet(LAMBDA m : MonthDays(year, m), 1..month - 1) + day
Spells(o, year, month, day, second) ==
    LET Two(n) == <<n \div 10, n % 10>>
    IN  o = year \o Two(month) \o Two(day) \o Two(second \div 3600) \o Two((second \div 60) % 60) \o Two(second % 60) \o <<Z>>
YearsOf(e) ==
    CASE e.tag = "generalized_time" -> {Digits(e.octets, 1, 4)}
      [] e.tag = "utc_time" -> {y \in 1950..2049 : y % 100 = Digits(e.octets, 1, 2)}
      [] OTHER -> {}
Moments(e) ==
    LET length == IF e.tag = "utc_time" THEN 2 ELSE 4
        digits == SubSeq(e.octets, length + 1, length + 10)
        month == Digits(digits, 1, 2)
        day == Digits(digits, 3, 2)
        second == Digits(digits, 5, 2) * 3600 + Digits(digits, 7, 2) * 60 + Digits(digits, 9, 2)
    IN  {<<DayNumber(y, month, day) - DayNumber(1970, 1, 1), second>> :
            y \in {z \in YearsOf(e) : /\ Len(e.octets) = length + 11 /\ AreDigits(e.octets, 1, length)
                                      /\ month \in 1..12 /\ day \in 1..MonthDays(z, month) /\ second < 86400
                                      /\ Spells(e.octets, SubSeq(e.octets, 1, length), month, day, second)}}

\* The entries of a list, each bad or for a target.
EntryOf(e, bad, target) == [bad |-> bad, target |-> IF bad THEN "" ELSE target, octets |-> IF bad THEN <<>> ELSE e.octets]
PointEntries(e) ==
    IF BadPoint(e) THEN <<EntryOf(e, TRUE, "")>>
    ELSE [i \in DOMAIN FullName(e) |-> EntryOf(FullName(e)[i], ~FullName(e)[i].whole, IF FullName(e)[i].tag = "uri" THEN "uri" ELSE "")]
EntriesOf(k, list) ==
    FlattenSeq([i \in DOMAIN list |->
        LET e == list[i]
        IN  CASE k = SAN -> <<EntryOf(e, BadGeneralName(e), IF e.tag \in {"dns_name", "ip_address"} THEN "name" ELSE "")>>
              [] k = PURPOSES -> <<EntryOf(e, ~DecodeOid(list, i), "purpose")>>
              [] k = ACCESS -> <<IF BadAccess(e) THEN EntryOf(e, TRUE, "") ELSE EntryOf(e.content[2], FALSE, AccessTarget(e))>>
              [] k = POLICIES -> <<IF BadPolicy(e) THEN EntryOf(e, TRUE, "") ELSE EntryOf(e.content[1], FALSE, "policy")>>
              [] k = CRL -> PointEntries(e)])
Lists == {SAN, PURPOSES, ACCESS, CRL, POLICIES}
KeptOf(k, v) ==
    LET kept == SelectSeq(EntriesOf(k, v[1].content), LAMBDA x : x.target # "")
    IN  [i \in DOMAIN kept |-> [target |-> kept[i].target, octets |-> kept[i].octets]]
Crowded(k, v) == \E x \in Range(KeptOf(k, v)) : Cardinality({i \in DOMAIN KeptOf(k, v) : KeptOf(k, v)[i].target = x.target}) > max_entries

\* The bits of a bit string, whose first octet says how many to leave off the end.
BitsOf(o) == [i \in 1..8 * (Len(o) - 1) - o[1] |-> (o[2 + (i - 1) \div 8] \div 2^((8 - i) % 8)) % 2]

\* What an extension must hold to be read, and what it then says.
LegalValue(k, v) ==
    IF k \in Lists
    THEN /\ Only(v, "sequence") /\ (k = PURPOSES => v[1].content # <<>>)
         /\ \A x \in Range(EntriesOf(k, v[1].content)) : ~x.bad
         /\ ~Crowded(k, v)
    ELSE CASE k = BASIC ->
                /\ Only(v, "sequence") /\ Follows(v[1].content, {b \o p : b \in Optional("boolean"), p \in Optional("integer")})
                /\ \A e \in Range(v[1].content) : IF e.tag = "boolean" THEN Len(e.octets) = 1 ELSE FitsPath(e.octets)
           [] k = USAGE -> /\ Only(v, "bit_string") /\ v[1].octets # <<>> /\ v[1].octets[1] <= 7
                           /\ v[1].octets[1] <= 8 * (Len(v[1].octets) - 1)
           [] k = SUBJECT_ID -> Only(v, "octet_string") /\ v[1].octets # <<>>
           [] k = AUTHORITY_ID ->
                /\ Only(v, "sequence")
                /\ Follows(v[1].content, {a \o b \o c : a \in Optional("context_0"), b \in Optional("context_1_set"), c \in Optional("context_2")})
                /\ \A e \in Range(v[1].content) : e.tag = "context_0" => e.octets # <<>>
Says(k, v) ==
    LET Those(tag) == SelectSeq(v[1].content, LAMBDA e : e.tag = tag)
    IN  CASE k \in Lists -> [Unknown EXCEPT !.has = TRUE, !.list = KeptOf(k, v)]
          [] k = BASIC -> [Unknown EXCEPT !.has = TRUE, !.ca = \E e \in Range(Those("boolean")) : e.octets # <<0>>,
                                          !.path = FlattenSeq([i \in DOMAIN Those("integer") |-> Those("integer")[i].octets])]
          [] k = USAGE -> [Unknown EXCEPT !.has = TRUE, !.list = SelectSeq(<<0, 1, 2, 3, 4, 5, 6, 7, 8>>,
                                LAMBDA b : b + 1 \in DOMAIN BitsOf(v[1].octets) /\ BitsOf(v[1].octets)[b + 1] = 1)]
          [] k = SUBJECT_ID -> KeyId(v[1].octets)
          [] k = AUTHORITY_ID -> KeyId(FlattenSeq([i \in DOMAIN Those("context_0") |-> Those("context_0")[i].octets]))

CopiesSent(k) == {i \in DOMAIN ExtensionList : FrameExtension(ExtensionList[i]) /\ ExtensionOid(ExtensionList[i]) = k}
FirstValue(k) == ExtensionValue(ExtensionList[Min(CopiesSent(k))])
HasExtensions == Last(Tbs).tag = "extensions"

\* A certificate is well formed up to its extensions; a list in it is too long.
LegalFields ==
    /\ Follows(certificate, {<<"sequence">>})
    /\ Unbroken(Outer) /\ Len(Outer) = 3 /\ Outer[1].tag = "sequence" /\ Outer[2].tag = "sequence"
    /\ Follows(Tbs, TbsGrammar)
    /\ Tbs[Serial].octets # <<>>
    /\ LegalName(Tbs[Serial + 2]) /\ LegalName(Tbs[Serial + 4])
    /\ Unbroken(Validity) /\ Len(Validity) = 2 /\ \A i \in 1..2 : Moments(Validity[i]) # {}
    /\ HasExtensions => Follows(Last(Tbs).content, {<<"sequence">>})
LegalExtensions ==
    HasExtensions =>
        /\ \A e \in Range(ExtensionList) : FrameExtension(e)
        /\ CopiesSent(SAN) # {} => Cardinality(CopiesSent(SAN)) = 1 /\ LegalValue(SAN, FirstValue(SAN))
ManyPurposes ==
    /\ HasExtensions /\ CopiesSent(PURPOSES) # {} /\ Only(FirstValue(PURPOSES), "sequence")
    /\ LET list == FirstValue(PURPOSES)[1].content
       IN  Len(list) > max_entries /\ \A i \in 1..max_entries + 1 : DecodeOid(list, i)

\* A certificate is read exactly when its fields are legal, its alternative names, met at
\* most once, are, and no list that counts is too long; one that is not read leaves nothing
\* behind.  One that is read has the serial number, names and moments it spells, the size
\* of its key, unknown where the key cannot be read, and of every other extension what it
\* says, or, if it is missing, repeated or unreadable, wherever among the others its copies
\* are, that it is unknown (ParseX509Certificate, DecodeTbs, DecodePublicKey,
\* DecodeExtension, DaysFromCivil).
CertificateExact ==
    x509 # "parsing" =>
        /\ x509 = "OK" <=> /\ LegalFields /\ ~CrowdedName(Tbs[Serial + 2]) /\ ~CrowdedName(Tbs[Serial + 4])
                           /\ LegalExtensions /\ ~ManyPurposes
        /\ x509 # "OK" => parsed = NoCertificate
        /\ x509 = "OVER_LIMIT" => \/ CrowdedName(Tbs[Serial + 2]) \/ CrowdedName(Tbs[Serial + 4])
                                  \/ ManyPurposes \/ Crowded(SAN, FirstValue(SAN))
        /\ x509 = "OK" =>
              /\ parsed.serial = SelectSeq(Tbs, LAMBDA e : e.tag = "integer")[1].octets
              /\ parsed.public_key_bits = KeyBits(Tbs[Serial + 5])
              /\ parsed.issuer = NameOf(Tbs[Serial + 2]) /\ parsed.subject = NameOf(Tbs[Serial + 4])
              /\ {parsed.not_before} = Moments(Validity[1]) /\ {parsed.not_after} = Moments(Validity[2])
              /\ \A k \in ReadExtensions :
                    parsed.fields[k] = IF HasExtensions /\ Cardinality(CopiesSent(k)) = 1 /\ LegalValue(k, FirstValue(k))
                                       THEN Says(k, FirstValue(k)) ELSE Unknown
=============================================================================
