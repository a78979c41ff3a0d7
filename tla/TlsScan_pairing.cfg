\* One tuple in two files, every kind of stream, room to hold one direction.
CONSTANTS
    ab = ab
    ba = ba
    cd = cd
    dc = dc
    TlsKeys <- OneTuple
    TlsReverse <- OneReverse
    max_pending = 1
    None = None
    FileMax = 2
    StreamKinds = {"client", "server", "bad_client", "found_client", "found_server", "plain"}
    Spans <- NestedSpans
    MaxStreams = 4
SYMMETRY OneSymmetry
SPECIFICATION Spec
INVARIANTS CountExact RowsExact
