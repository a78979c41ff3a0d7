\* Three sessions for two places, three interfaces for two clocks, two sections.
CONSTANTS
    FlowKeys <- ThreeKeys
    Interfaces = {"i1", "i2", "i3"}
    InterfaceOf <- TwoInterfaces
    TcpKeys <- TwoTcp
    Inputs <- LifeInputs
    Stamps <- LifeStamps
    FlowTimes = {0, 1, 3}
    NoTime = NoTime
    TimeMax = 4
    tcp_idle_us = 1
    udp_idle_us = 2
    max_flows = 2
    max_scopes = 2
    SeqSpace = 2
    SectionMax = 2
    MaxRecords = 4
    None = None
SPECIFICATION FairSpec
INVARIANTS QueueExact CountedOnce
PROPERTIES EvictsNearest CallsEnd
