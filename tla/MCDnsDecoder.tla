---------------------------- MODULE MCDnsDecoder ----------------------------
(***************************************************************************)
(* DnsDecoder on chains of questions that end in five arbitrary octets,    *)
(* and on messages of up to two records whose names share, chain and cross *)
(* their pointers.                                                         *)
(***************************************************************************)
EXTENDS DnsDecoder

Zeros(n) == SubSeq(<<0, 0, 0, 0, 0, 0, 0, 0, 0, 0, 0, 0, 0>>, 1, n)
MessageOf(body, counts) == [data |-> Zeros(Header) \o body, counts |-> counts]

\* Questions at octets 12, 19 and 25 that chain their pointers, and one of any octets.
Octets == {0, 1, 19, 25, 32, 192}
Asked == <<0, 1, 0, 1>>
Ptr(o) == <<192, o>>
Questions ==
    {MessageOf(<<1, 97, 0>> \o Asked \o Ptr(12) \o Asked \o Ptr(q) \o Asked \o <<a, b, c, d, e>> \o Asked, <<4, 0, 0, 0>>) :
        q \in {14, 19}, a, b, c, d, e \in Octets}

\* Names at octets 12 and after.
Names == {<<0>>, <<1, 97, 0>>, <<1, 97, 1, 98, 0>>, Ptr(12), <<1, 99>> \o Ptr(12), Ptr(14)}
RecordOf(name, type, length, data) == name \o <<0, type, 0, 1, 0, 0, 0, 0, 0, length>> \o data
Records(owners, data) ==
    {RecordOf(n, type, length, d) : n \in owners, type \in {1, 5, 28, 16}, length \in {0, 2, 4, 5}, d \in data}
Answers ==
    {MessageOf(<<1, 97, 0, 0, 1, 0, 1>> \o r, counts) :
        r \in Records(Names, Names \cup {<<1, 1, 1, 1>>, Ptr(19), Ptr(33)}), counts \in {<<1, 1, 0, 0>>, <<1, 0, 0, 1>>}}
TwoAnswers ==
    {MessageOf(r \o q, <<0, 1, 1, 0>>) : r \in {RecordOf(<<1, 97, 0>>, 5, 4, <<1, 98>> \o Ptr(12)), RecordOf(<<0>>, 1, 4, <<1, 1, 1, 1>>)},
                                        q \in {RecordOf(n, 5, 2, d) : n \in {Ptr(25), Ptr(12), <<0>>}, d \in {Ptr(25), Ptr(29), Ptr(12)}}}
Odd == {[data |-> Zeros(n), counts |-> c] : n \in {0, 11, 12, 13}, c \in {<<0, 0, 0, 0>>, <<2, 1, 1, 1>>, <<1, 0, 0, 0>>}}

AllMessages == Questions \cup (Answers \cup TwoAnswers \cup Odd)

MessageDone == phase \in {"valid", "invalid"} /\ UNCHANGED dnsVars
=============================================================================
