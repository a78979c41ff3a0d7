----------------------------- MODULE MCReadings -----------------------------
(***************************************************************************)
(* What is read off six kinds of input, each by its own component and      *)
(* each against what was sent: a packet by a filtered scan, the control    *)
(* packets of a session, the TLS records of a direction, a DNS message,    *)
(* the exchange that came before TLS, and a certificate.                   *)
(* A behaviour reads one of them; the other components stay at rest.       *)
(***************************************************************************)
EXTENDS MCStagedDecode, MCTlsRecords, MCDnsDecoder, MCFlowHandshake, TunnelDialogue,
        MCX509Certificate

VARIABLE input      \* what is read

AnyCapture == CHOOSE x \in AllCaptures : TRUE
AnyQuery == CHOOSE x \in AllQueries : TRUE
AnyStream == CHOOSE x \in LateStreams({"bad"}) : TRUE
AnyMessage == CHOOSE x \in Odd : TRUE
ScanAtRest == capture = AnyCapture /\ query = AnyQuery /\ StagedStart
TlsAtRest == stream = [AnyStream EXCEPT !.captured = 0] /\ TlsStart
DnsAtRest == message = AnyMessage /\ DnsInit
TunnelAtRest == protocol = "imap" /\ TunnelInit
X509AtRest == certificate = <<>> /\ X509Start

Init ==
    \/ input = "packet" /\ X509AtRest /\ HandshakeInit /\ TlsAtRest /\ DnsAtRest /\ TunnelAtRest /\ StagedInit
    \/ input = "session" /\ X509AtRest /\ ScanAtRest /\ TlsAtRest /\ DnsAtRest /\ TunnelAtRest /\ HandshakeInit
    \/ input = "records" /\ X509AtRest /\ ScanAtRest /\ HandshakeInit /\ DnsAtRest /\ TunnelAtRest /\ TlsInit
    \/ input = "message" /\ X509AtRest /\ ScanAtRest /\ HandshakeInit /\ TlsAtRest /\ TunnelAtRest /\ DnsInit
    \/ input = "tunnel" /\ X509AtRest /\ ScanAtRest /\ HandshakeInit /\ TlsAtRest /\ DnsAtRest /\ TunnelInit
    \/ input = "certificate" /\ ScanAtRest /\ HandshakeInit /\ TlsAtRest /\ DnsAtRest /\ TunnelAtRest /\ X509Init

\* TLS has begun, or the client gives up.
TunnelDone == (upgraded \/ turns = MaxTurns) /\ UNCHANGED tunnelVars

Next ==
    /\ UNCHANGED input
    /\ \/ input = "packet" /\ (StagedNext \/ Finished) /\ UNCHANGED <<handshakeVars, tlsVars, dnsVars, tunnelVars, x509Vars>>
       \/ input = "session" /\ HandshakeNext /\ UNCHANGED <<stagedVars, tlsVars, dnsVars, tunnelVars, x509Vars>>
       \/ input = "records" /\ (TlsNext \/ Stopped) /\ UNCHANGED <<stagedVars, handshakeVars, dnsVars, tunnelVars, x509Vars>>
       \/ input = "message" /\ (DnsNext \/ MessageDone) /\ UNCHANGED <<stagedVars, handshakeVars, tlsVars, tunnelVars, x509Vars>>
       \/ input = "tunnel" /\ (TunnelNext \/ TunnelDone) /\ UNCHANGED <<stagedVars, handshakeVars, tlsVars, dnsVars, x509Vars>>
       \/ input = "certificate" /\ (X509Next \/ Parsed509) /\ UNCHANGED <<stagedVars, handshakeVars, tlsVars, dnsVars, tunnelVars>>

Spec == Init /\ [][Next]_<<input, stagedVars, handshakeVars, tlsVars, dnsVars, tunnelVars, x509Vars>>
=============================================================================
