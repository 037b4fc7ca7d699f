CONSTANTS
    Callers = {k1, k2, k3}
    NumStreams = 2
    MaxStreams = 2
    OffsetSpan = 8
    MaxInflight = 1
    MaxCalls = 3
    MayFail = {1}
    Ops = {}
SPECIFICATION FairSpec
PROPERTY MuxIngestReturns
CHECK_DEADLOCK FALSE
