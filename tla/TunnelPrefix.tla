---------------------------- MODULE TunnelPrefix ----------------------------
(***************************************************************************)
(* What came before the first hello of a direction, read as a tunnel:      *)
(* SOCKS, HTTP CONNECT, or the plain part of SMTP, FTP, POP3 and IMAP.     *)
(*                                                                         *)
(* A prefix is [octets, lines].  SOCKS is octets; every other exchange is  *)
(* lines, where a line is its words, upper-cased, the number it starts     *)
(* with or carries (a reply code, an HTTP status, a Content-Length) and    *)
(* whether a hyphen follows the code.  A Content-Length counts lines here, *)
(* one that is no number is negative, every Transfer-Encoding is chunked,  *)
(* and Raw stands for bytes that end in no CRLF.  A destination is what    *)
(* its text is formatted from.                                             *)
(* Source: src/src/tls_handshake.cpp.                                      *)
(***************************************************************************)
EXTENDS Integers, Sequences, FiniteSets, FiniteSetsExt

Say(words) == [words |-> words, number |-> 0, more |-> FALSE]
Reply(code) == [words |-> <<>>, number |-> code, more |-> FALSE]
More(code) == [words |-> <<>>, number |-> code, more |-> TRUE]
Blank == Say(<<>>)
Raw == Say(<<"raw">>)

Final(s) == s[Len(s)]
Middle(s) == {s[i] : i \in 2..(Len(s) - 1)}

\* Command, AnyCommand: words are one of these commands, alone or with arguments.
AnyCommand(words, verbs) == words # <<>> /\ words[1] \in verbs

-----------------------------------------------------------------------------
(* SOCKS. *)

\* TlsReader::U8 yields 0 past the end.
U8(o, i) == IF i \in DOMAIN o THEN o[i] ELSE 0

\* SocksAddress: where the port after the address of the type at i ends, or 0.
SocksAddress(o, i) ==
    CASE U8(o, i) = 1 -> i + 6
      [] U8(o, i) = 4 -> i + 18
      [] U8(o, i) = 3 /\ U8(o, i + 1) > 0 -> i + 3 + U8(o, i + 1)
      [] OTHER -> 0

\* SocksString: where the NUL of the field at i is, or 0.
SocksString(o, i) ==
    LET nuls == {j \in i..Len(o) : o[j] = 0} IN IF nuls = {} THEN 0 ELSE Min(nuls)

Nothing == [tunnel |-> "", destination |-> <<>>]

\* A SOCKS5 greeting, a login if one was offered and follows, and a CONNECT.
Socks5Client(o) ==
    LET count == U8(o, 2)
        login == 3 + count
        logs_in == U8(o, login) = 1 /\ 2 \in {U8(o, i) : i \in 3..(2 + count)}
        user == U8(o, login + 1)
        password == U8(o, login + 2 + user)
        request == IF logs_in THEN login + 3 + user + password ELSE login
    IN  IF /\ count > 0 /\ login <= Len(o) + 1
           /\ logs_in => user > 0 /\ password > 0
           /\ <<U8(o, request), U8(o, request + 1), U8(o, request + 2)>> = <<5, 1, 0>>
           /\ SocksAddress(o, request + 3) = Len(o)
        THEN [tunnel |-> "socks5", destination |-> SubSeq(o, request + 3, Len(o))]
        ELSE Nothing

\* SOCKS4; an address of 0.0.0.x means that a name follows (4a).
Socks4Client(o) ==
    LET user == SocksString(o, 9)
        named == SubSeq(o, 5, 7) = <<0, 0, 0>> /\ o[8] # 0
        host == SocksString(o, user + 1)
        port == SubSeq(o, 3, 4)
    IN  IF user = 0 THEN Nothing
        ELSE IF named /\ host > user + 1 /\ host = Len(o)
        THEN [tunnel |-> "socks4a", destination |-> SubSeq(o, user + 1, host - 1) \o port]
        ELSE IF ~named /\ user = Len(o)
        THEN [tunnel |-> "socks4", destination |-> SubSeq(o, 5, 8) \o port]
        ELSE Nothing

\* The method chosen, the login's status, and a reply that grants the request.
Socks5Server(o) ==
    LET method == U8(o, 2)
        reply == IF method = 2 THEN 5 ELSE 3
    IN  /\ method \in {0, 2}
        /\ method = 2 => U8(o, 3) = 1 /\ U8(o, 4) = 0
        /\ <<U8(o, reply), U8(o, reply + 1), U8(o, reply + 2)>> = <<5, 0, 0>>
        /\ SocksAddress(o, reply + 3) = Len(o)

-----------------------------------------------------------------------------
(* HTTP CONNECT. *)

Versions == {"HTTP/1.0", "HTTP/1.1"}

\* NextHttpHead from line i: a first line, headers, and the blank line that ends them.
NextHttpHead(text, i) ==
    LET blanks == {j \in (i + 1)..Len(text) : text[j] = Blank}
        end == Min(blanks)
        Headers(name) == {j \in (i + 1)..(end - 1) : AnyCommand(text[j].words, {name})}
    IN  IF blanks = {} \/ \E j \in Headers("content-length:") : text[j].number < 0
        THEN [head |-> FALSE, next |-> i, body |-> 0, chunked |-> FALSE]
        ELSE [head |-> TRUE, next |-> end + 1, chunked |-> Headers("transfer-encoding:") # {},
              body |-> IF Headers("content-length:") = {} THEN 0 ELSE text[Max(Headers("content-length:"))].number]

\* The target of a CONNECT request line, or "" if it is not one.
ConnectTarget(line) ==
    IF Len(line.words) = 3 /\ line.words[1] = "CONNECT" /\ line.words[3] \in Versions THEN line.words[2] ELSE ""

\* StatusCode of a status line, or 0.
StatusCode(line) == IF line.words # <<>> /\ line.words[1] \in Versions THEN line.number ELSE 0

\* The client side: the targets of its CONNECT requests, with "" for what is not one.
HttpClientPrefix(text) ==
    LET read[i \in 1..(Len(text) + 1)] ==
            LET head == NextHttpHead(text, i)
            IN  IF i > Len(text) THEN {}
                ELSE IF ~head.head \/ head.body # 0 \/ head.chunked THEN {""}
                ELSE {ConnectTarget(text[i])} \cup read[head.next]
    IN  read[1]

\* Mutant of HttpServerPrefix: a refusal's body is taken for the next head.
HttpServerPrefixBodiless(text) ==
    LET read[i \in 1..(Len(text) + 1)] ==
            /\ i <= Len(text)
            /\ NextHttpHead(text, i).head /\ StatusCode(text[i]) # 0
            /\ LET head == NextHttpHead(text, i)
               IN  IF StatusCode(text[i]) \div 100 = 2 THEN head.next = Len(text) + 1
                   ELSE ~head.chunked /\ read[head.next]
    IN  read[1]

\* The server side: refusals with the bodies they announce, then a 2xx, which has none.
HttpServerPrefix(text) ==
    LET read[i \in 1..(Len(text) + 1)] ==
            /\ i <= Len(text)
            /\ NextHttpHead(text, i).head /\ StatusCode(text[i]) # 0
            /\ LET head == NextHttpHead(text, i)
               IN  IF StatusCode(text[i]) \div 100 = 2 THEN head.next = Len(text) + 1
                   ELSE /\ ~head.chunked /\ head.body <= Len(text) + 1 - head.next
                        /\ read[head.next + head.body]
    IN  read[1]

-----------------------------------------------------------------------------
(* STARTTLS, line by line. *)

CrlfLines(text) == text # <<>> /\ Raw \notin {text[i] : i \in DOMAIN text}

ReplyCode(line) == line.words = <<>> /\ line.number > 0

\* Where the reply that begins at line i ends, or 0.  SMTP repeats the code and a hyphen
\* on every line between.
ReplyEnd(text, i, smtp) ==
    LET ends == {j \in (i + 1)..Len(text) : text[j] = Reply(text[i].number)}
    IN  IF ~text[i].more THEN i
        ELSE IF ends = {} \/ (smtp /\ \E j \in (i + 1)..(Min(ends) - 1) : text[j] # text[i]) THEN 0
        ELSE Min(ends)

\* ReplyCodes: the codes of the replies; a 0 ends them where no reply is.
ReplyCodes(text, smtp) ==
    LET read[i \in 1..(Len(text) + 1)] ==
            IF i > Len(text) THEN <<>>
            ELSE IF ~ReplyCode(text[i]) \/ ReplyEnd(text, i, smtp) = 0 THEN <<0>>
            ELSE <<text[i].number>> \o read[ReplyEnd(text, i, smtp) + 1]
    IN  read[1]

\* ImapLine: a tag, a space and the rest.
ImapLine(line) == Len(line.words) >= 2 /\ line.words[1] # "+OK"
Tag(line) == line.words[1]
Rest(line) == Tail(line.words)

AuthMechanisms == {<<"AUTH", x>> : x \in {"TLS", "SSL", "TLS-C", "TLS-P"}}

StartTlsClient(text) ==
    LET last == Final(text).words
        before == {text[i].words : i \in 1..(Len(text) - 1)}
        Before(verbs) == \A words \in before : AnyCommand(words, verbs)
    IN  CASE ~CrlfLines(text) -> ""
          [] CrlfLines(text) /\ last = <<"STARTTLS">> ->
                IF /\ Len(text) >= 2 /\ AnyCommand(text[1].words, {"EHLO", "HELO"})
                   /\ Before({"EHLO", "HELO", "NOOP", "RSET"}) THEN "smtp" ELSE ""
          [] CrlfLines(text) /\ last = <<"STLS">> -> IF Before({"CAPA"}) THEN "pop3" ELSE ""
          [] CrlfLines(text) /\ last \in AuthMechanisms ->
                IF \A words \in before : AnyCommand(words, {"FEAT", "SYST", "NOOP"}) \/ words \in AuthMechanisms THEN "ftp" ELSE ""
          [] OTHER ->
                IF /\ \A i \in DOMAIN text : ImapLine(text[i]) /\ Tag(text[i]) # "*"
                   /\ Rest(Final(text)) = <<"STARTTLS">>
                   /\ \A i \in 1..(Len(text) - 1) : AnyCommand(Rest(text[i]), {"CAPABILITY", "NOOP"})
                THEN "imap" ELSE ""

PopStatus(line, status) == AnyCommand(line.words, status)

\* The replies between a POP3 server's greeting and its last line: a +OK that no status
\* follows begins a body, which a lone dot ends.
PopReplies(text) ==
    LET Status(i) == PopStatus(text[i], {"+OK", "-ERR"})
        Dots(i) == {j \in i..(Len(text) - 1) : text[j].words = <<".">>}
        read[i \in 2..(Len(text) + 1)] ==
            \/ i >= Len(text)
            \/ /\ Status(i)
               /\ IF PopStatus(text[i], {"+OK"}) /\ ~Status(i + 1)
                  THEN Dots(i + 1) # {} /\ read[Min(Dots(i + 1)) + 1]
                  ELSE read[i + 1]
    IN  read[2]

ImapReplies(text) ==
    /\ ImapLine(text[1]) /\ Tag(text[1]) = "*" /\ AnyCommand(Rest(text[1]), {"OK"})
    /\ \A i \in 2..Len(text) :
        /\ ImapLine(text[i])
        /\ IF i = Len(text) THEN Tag(text[i]) # "*" /\ AnyCommand(Rest(text[i]), {"OK"})
           ELSE AnyCommand(Rest(text[i]), IF Tag(text[i]) = "*" THEN {"CAPABILITY", "OK"} ELSE {"OK", "NO", "BAD"})

StartTlsServer(text) ==
    LET smtp == ReplyCodes(text, TRUE)
        ftp == ReplyCodes(text, FALSE)
    IN  IF ~CrlfLines(text) THEN ""
        ELSE IF /\ Len(smtp) >= 3 /\ smtp[1] = 220 /\ Final(smtp) = 220
                /\ 250 \in Middle(smtp) /\ \A code \in Middle(smtp) : code = 250 \/ code \div 100 = 5
        THEN "smtp"
        ELSE IF /\ Len(ftp) >= 2 /\ ftp[1] = 220 /\ Final(ftp) = 234
                /\ \A code \in Middle(ftp) : code # 234 /\ code \div 100 \in {2, 5}
        THEN "ftp"
        ELSE IF PopStatus(text[1], {"+OK"})
        THEN IF Len(text) >= 2 /\ PopStatus(Final(text), {"+OK"}) /\ PopReplies(text) THEN "pop3" ELSE ""
        ELSE IF Len(text) >= 2 /\ ImapReplies(text) THEN "imap" ELSE ""

-----------------------------------------------------------------------------
(* A prefix of either side. *)

ClassifyClientPrefix(p) ==
    LET targets == HttpClientPrefix(p.lines)
    IN  CASE Len(p.octets) >= 2 /\ U8(p.octets, 1) = 5 -> Socks5Client(p.octets)
          [] Len(p.octets) >= 9 /\ U8(p.octets, 1) = 4 /\ U8(p.octets, 2) = 1 -> Socks4Client(p.octets)
          [] p.octets = <<>> /\ Cardinality(targets) = 1 /\ "" \notin targets ->
                [tunnel |-> "http_connect", destination |-> <<CHOOSE t \in targets : TRUE>>]
          [] OTHER -> [tunnel |-> StartTlsClient(p.lines), destination |-> <<>>]

\* A SOCKS4 reply cannot tell 4 from 4a.
ClassifyServerPrefix(p) ==
    CASE Len(p.octets) >= 2 /\ U8(p.octets, 1) = 5 -> IF Socks5Server(p.octets) THEN "socks5" ELSE ""
      [] Len(p.octets) = 8 /\ U8(p.octets, 1) = 0 /\ U8(p.octets, 2) = 90 -> "socks4"
      [] p.octets = <<>> /\ HttpServerPrefix(p.lines) -> "http_connect"
      [] OTHER -> StartTlsServer(p.lines)

\* MergeWarnings of two sides that each said something before TLS, and the protocol
\* SetHandshakeTunnel reports.
TunnelWarnings(said, answered) ==
    {w \in {"client_tunnel_unrecognized", "server_tunnel_unrecognized", "tunnel_mismatch"} :
        CASE w = "client_tunnel_unrecognized" -> said = ""
          [] w = "server_tunnel_unrecognized" -> answered = ""
          [] w = "tunnel_mismatch" -> /\ said # "" /\ answered # "" /\ said # answered
                                      /\ ~(said = "socks4a" /\ answered = "socks4")}
TunnelProtocol(said, answered) == IF said # "" THEN said ELSE answered
=============================================================================
