CONSTANTS
    t1 = t1
    t2 = t2
    Threads = {t1, t2}
    FlowsOf <- OwnFlows
    RtpSizes = {12, 64}
    MaxPackets = 2
    MaxStreams = 2
    PieceSizes = {0, 1, 20}
    SplitFlow = FALSE
    None = None
SPECIFICATION Spec
INVARIANTS
    RtpInOrder
    NeverRefused
CHECK_DEADLOCK FALSE
