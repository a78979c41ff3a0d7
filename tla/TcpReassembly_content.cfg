\* Buffering at every limit, without timers: one free slot for two directions.
CONSTANTS
    SeqSpace = 8
    max_stream_bytes = 3
    NoSeq = NoSeq
    Keys <- ThreeKeys
    Reverse <- ThreeReverse
    Scopes = {"i1"}
    ScopeOf <- OneInterface
    Packets <- ContentPackets
    Times <- NoTimes
    NoTime = NoTime
    TimeMax = 9
    tcp_idle_us = 0
    max_flows = 2
    max_total_bytes = 4
    max_segments = 2
    max_total_segments = 3
    MaxId = 4
    MaxPackets = 4
    NoFlow = NoFlow
    NoClock = NoClock
SPECIFICATION Spec
INVARIANTS BuffersExact
PROPERTIES ConnectionsSeparate
