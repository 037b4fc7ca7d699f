CONSTANTS
    Callers = {k1, k2}
    NumStreams = 2
    MaxStreams = 2
    OffsetSpan = 8
    MaxInflight = 1
    MaxCalls = 3
    MayFail = {0}
    Ops = {"flush", "wait", "close", "unacked", "drop", "cancel", "timeout"}
SPECIFICATION FairSpec
INVARIANTS
    OkMeansAcked
    UnackedComplete
PROPERTIES
    PoisonReachesAll
