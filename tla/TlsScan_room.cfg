\* The queue of finds is cut, then a direction that stands on its own needs the place.
CONSTANTS
    ab = ab
    ba = ba
    cd = cd
    dc = dc
    TlsKeys <- TwoTuples
    TlsReverse <- TwoReverse
    max_pending = 1
    None = None
    FileMax = 1
    StreamKinds = {"client", "server", "found_client"}
    Spans <- RepeatedSpans
    MaxStreams = 4
SYMMETRY TwoSymmetry
SPECIFICATION Spec
INVARIANTS AssertionsHold
