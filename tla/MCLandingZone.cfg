CONSTANTS
    MaxInflight = 2
    Items = {x1, x2, x3, x4}
SPECIFICATION FairSpec
INVARIANTS
    PermitsConserved
    NoLostWakeup
    FifoNoLoss
PROPERTIES
    AdderIsServed
