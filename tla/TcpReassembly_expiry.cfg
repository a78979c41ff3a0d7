\* Idle expiry of three directions on two interfaces; no buffer limit is near.
CONSTANTS
    SeqSpace = 8
    max_stream_bytes = 3
    NoSeq = NoSeq
    Keys <- ThreeKeys
    Reverse <- ThreeReverse
    Scopes = {"i1", "i2"}
    ScopeOf <- TwoInterfaces
    Packets <- TimedPackets
    Times = {0, 1, 2}
    NoTime = NoTime
    TimeMax = 2
    tcp_idle_us = 1
    max_flows = 2
    max_total_bytes = 9
    max_segments = 9
    max_total_segments = 9
    MaxId = 9
    MaxPackets = 4
    NoFlow = NoFlow
    NoClock = NoClock
SPECIFICATION FairSpec
INVARIANTS ExpiryExact
PROPERTIES IdleOnlyWhenQuiet CallReturns
