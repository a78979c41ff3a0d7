\* A packet, a session, a direction's TLS records, a DNS message, a tunnel's words and a certificate, each read against what was sent.
CONSTANTS
    Null = Null
    VLAN_CAPACITY = 2
    EXTENSIONS_MAX = 2
    Queries <- AllQueries
    Captures <- AllCaptures
    SeqSpace = 4
    NoTime = NoTime
    Segments <- ControlSegments
    SameNumber = TRUE
    TlsStreams <- AllStreams
    Peers <- SomePeers
    Mss = 5
    max_handshakes = 2
    max_message_bytes = 6
    max_extensions = 2
    max_list_entries = 1
    max_certificates = 2
    max_certificate_bytes = 1
    max_direction_certificate_bytes = 5
    max_tunnel_prefix_bytes = 16
    DnsMessages <- AllMessages
    NAME_MAX = 5
    LABELS_MAX = 2
    POINTERS_MAX = 2
    STEPS_MAX = 5
    WORK_MAX = 12
    COUNT_MAX = 4
    SIZE_MAX = 44
    MaxTurns = 3
    Certificates <- AllCertificates
    max_entries = 2
    MAX_NAME_ATTRIBUTES = 3
SPECIFICATION Spec
INVARIANTS
    StagedExact ReadsExact
    EvidenceExact
    HandshakesExact CertificatesBudgeted
    StepsSuffice
    TunnelsNamed
    CertificateExact
PROPERTIES
    NamesExact
