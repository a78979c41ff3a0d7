--------------------------- MODULE TunnelDialogue ---------------------------
(***************************************************************************)
(* A client and a server talk until TLS begins, in one of the exchanges    *)
(* docs/TLS_HANDSHAKES.md lists ("Tunnels"), and perhaps stray from it.    *)
(* Each side's part is what its direction of the stream holds before the   *)
(* hello, which TunnelPrefix reads without seeing the other side.          *)
(***************************************************************************)
EXTENDS TunnelPrefix

CONSTANT MaxTurns       \* exchanges before the upgrade

VARIABLES
    protocol,
    said, replied,     \* the prefixes of the two directions
    turns,
    asked,              \* the destination the client asks for
    strayed,            \* the sides that left the exchange
    upgraded

tunnelVars == <<protocol, said, replied, turns, asked, strayed, upgraded>>

LinesOf(s) == [octets |-> <<>>, lines |-> s]
OctetsOf(s) == [octets |-> s, lines |-> <<>>]
Joined(p, q) == [octets |-> p.octets \o q.octets, lines |-> p.lines \o q.lines]
Talk(says, answers) == [says |-> says, answers |-> answers]
Talks(says, replies) == {Talk(LinesOf(says), LinesOf(r)) : r \in replies}

OK == Say(<<"+OK", "text">>)
Dot == Say(<<".">>)
TaggedLine(word) == Say(<<"a1", word>>)
UntaggedLine(word) == Say(<<"*", word>>)
Status(code) == [Say(<<"HTTP/1.1">>) EXCEPT !.number = code]
ContentLength(n) == [Say(<<"content-length:">>) EXCEPT !.number = n]
Connect(target) == <<Say(<<"CONNECT", target, "HTTP/1.1">>), Say(<<"host:", target>>), Blank>>
Refusal(body) == <<Status(407), ContentLength(Len(body)), Blank>> \o body

\* A SOCKS address and its port: an IPv4 address, a name of two octets, an IPv6 address.
Addresses == {<<1, 10, 0, 0, 1, 1, 187>>, <<3, 2, 97, 98, 1, 187>>, <<4>> \o [i \in 1..16 |-> i] \o <<1, 187>>}
Login == <<1, 1, 117, 2, 112, 112>>

\* What is said before the upgrade, and the answers to it.
Exchanges ==
    CASE protocol = "smtp" ->
            Talks(<<Say(<<IF turns = 0 THEN "EHLO" ELSE "NOOP", "text">>)>>, {<<Reply(250)>>, <<More(250), More(250), Reply(250)>>, <<Reply(500)>>})
            \cup Talks(<<Say(<<"HELO", "text">>)>>, {<<Reply(250)>>})
      [] protocol = "ftp" ->
            Talks(<<Say(<<"FEAT">>)>>, {<<More(211), Say(<<"text">>), Blank, Reply(200), Reply(211)>>, <<Reply(500)>>})
            \cup Talks(<<Say(<<"AUTH", "SSL">>)>>, {<<Reply(504)>>}) \cup Talks(<<Say(<<"NOOP">>)>>, {<<Reply(220)>>})
      [] protocol = "pop3" -> Talks(<<Say(<<"CAPA">>)>>, {<<OK, Say(<<"STLS">>), Dot>>, <<OK, Dot>>, <<Say(<<"-ERR">>)>>})
      [] protocol = "imap" ->
            Talks(<<TaggedLine("CAPABILITY")>>, {<<UntaggedLine("CAPABILITY"), TaggedLine("OK")>>, <<TaggedLine("BAD")>>})
            \cup Talks(<<TaggedLine("NOOP")>>, {<<TaggedLine("OK")>>})
      [] protocol = "http_connect" ->
            Talks(Connect("host"), {Refusal(<<>>), Refusal(<<Raw>>), Refusal(<<Status(200), Blank>>), Refusal(<<Blank, Raw>>)})
      [] protocol = "socks5" ->
            {Talk(OctetsOf(<<5, 1, 0>>), OctetsOf(<<5, 0>>)), Talk(OctetsOf(<<5, 2, 0, 2>>), OctetsOf(<<5, 0>>)),
             Talk(OctetsOf(<<5, 2, 0, 2>> \o Login), OctetsOf(<<5, 2, 1, 0>>))}
      [] OTHER -> {}

\* The request that ends the exchange, and its acceptance.
Upgrades ==
    CASE protocol = "smtp" -> Talks(<<Say(<<"STARTTLS">>)>>, {<<Reply(220)>>})
      [] protocol = "ftp" -> Talks(<<Say(<<"AUTH", "TLS">>)>>, {<<Reply(234)>>, <<More(234), Say(<<"text">>), Reply(234)>>})
      [] protocol = "pop3" -> Talks(<<Say(<<"STLS">>)>>, {<<OK>>})
      [] protocol = "imap" -> Talks(<<TaggedLine("STARTTLS")>>, {<<TaggedLine("OK")>>, <<UntaggedLine("OK"), TaggedLine("OK")>>})
      [] protocol = "http_connect" -> Talks(Connect("host"), {<<Status(200), Blank>>, <<Status(200), ContentLength(2), Blank>>})
      [] protocol = "socks5" -> {Talk(OctetsOf(<<5, 1, 0>> \o asked), OctetsOf(<<5, 0, 0>> \o a)) : a \in Addresses}
      [] protocol = "socks4" -> {Talk(OctetsOf(<<4, 1, 1, 187, 10, 0, 0, 1>> \o user \o <<0>>), OctetsOf(<<0, 90, 0, 0, 0, 0, 0, 0>>)) : user \in {<<>>, <<117>>}}
      [] protocol = "socks4a" -> {Talk(OctetsOf(<<4, 1, 1, 187, 0, 0, 0, 1, 117, 0, 97, 98, 0>>), OctetsOf(<<0, 90, 0, 0, 0, 0, 0, 0>>))}

\* The server speaks first.
Greetings ==
    CASE protocol \in {"smtp", "ftp"} -> {<<Reply(220)>>, <<More(220), Reply(220)>>}
      [] protocol = "pop3" -> {<<OK>>}
      [] protocol = "imap" -> {<<UntaggedLine("OK")>>}
      [] OTHER -> {<<>>}

\* The destinations a client may ask for.
Targets ==
    CASE protocol = "http_connect" -> {<<"host">>}
      [] protocol = "socks5" -> Addresses
      [] protocol = "socks4" -> {<<10, 0, 0, 1, 1, 187>>}
      [] protocol = "socks4a" -> {<<97, 98, 1, 187>>}
      [] OTHER -> {<<>>}

\* What is no part of the exchange.
Strays(side) ==
    CASE protocol \in {"socks5", "socks4", "socks4a"} -> {OctetsOf(<<9>>)}
      [] protocol = "http_connect" ->
            {LinesOf(<<Raw>>), LinesOf(IF side = "client" THEN Connect("other") ELSE <<Status(407), Say(<<"transfer-encoding:">>), Blank>>)}
      [] protocol = "imap" -> {LinesOf(<<Raw>>), LinesOf(<<IF side = "client" THEN TaggedLine("LOGIN") ELSE UntaggedLine("BYE")>>)}
      [] protocol = "pop3" -> {LinesOf(<<Raw>>)}
      [] OTHER -> {LinesOf(<<Raw>>), LinesOf(<<IF side = "client" THEN Say(<<"MAIL", "text">>) ELSE Reply(354)>>)}

TunnelInit ==
    /\ protocol \in {"smtp", "ftp", "pop3", "imap", "http_connect", "socks5", "socks4", "socks4a"}
    /\ said = LinesOf(<<>>)
    /\ \E greeting \in Greetings : replied = LinesOf(greeting)
    /\ asked \in Targets
    /\ turns = 0 /\ strayed = {} /\ upgraded = FALSE

Converse(t) ==
    /\ said' = Joined(said, t.says) /\ replied' = Joined(replied, t.answers)
    /\ UNCHANGED <<protocol, asked, strayed>>

Exchange ==
    /\ ~upgraded
    /\ turns < IF protocol = "socks5" THEN 1 ELSE MaxTurns
    /\ \E t \in Exchanges : Converse(t)
    /\ turns' = turns + 1
    /\ UNCHANGED upgraded

\* SMTP upgrades after a hello it took; SOCKS5 after its method was agreed on.
MayUpgrade ==
    /\ protocol = "smtp" => Reply(250) \in {replied.lines[i] : i \in DOMAIN replied.lines}
    /\ protocol = "socks5" => turns = 1
Upgrade ==
    /\ ~upgraded /\ MayUpgrade
    /\ \E t \in Upgrades : Converse(t)
    /\ upgraded' = TRUE
    /\ UNCHANGED turns

StrayFrom(side) ==
    /\ side \notin strayed
    /\ strayed' = strayed \cup {side}
    /\ \E p \in Strays(side) :
        /\ said' = IF side = "client" THEN Joined(said, p) ELSE said
        /\ replied' = IF side = "server" THEN Joined(replied, p) ELSE replied
    /\ UNCHANGED <<protocol, turns, asked, upgraded>>

TunnelNext == Exchange \/ Upgrade \/ StrayFrom("client") \/ StrayFrom("server")

\* Read apart, the two sides of an exchange that led to TLS are told for what they are:
\* a side that kept to the exchange is named after it, with the destination its client
\* asked for, and a side with anything else in it is not named; so the row names the
\* exchange unless both strayed, and never two different ones (ClassifyClientPrefix,
\* ClassifyServerPrefix, MergeWarnings).
TunnelsNamed ==
    upgraded =>
        LET client == ClassifyClientPrefix(said)
            server == ClassifyServerPrefix(replied)
            Kept(side) == side \notin strayed
            name == IF protocol = "socks4a" /\ ~Kept("client") THEN "socks4" ELSE protocol
        IN  /\ client = IF Kept("client") THEN [tunnel |-> protocol, destination |-> asked] ELSE Nothing
            /\ TunnelWarnings(client.tunnel, server) =
                   {w \in {"client_tunnel_unrecognized"} : ~Kept("client")} \cup {w \in {"server_tunnel_unrecognized"} : ~Kept("server")}
            /\ TunnelProtocol(client.tunnel, server) = IF strayed = {"client", "server"} THEN "" ELSE name
=============================================================================
