SPECIFICATION FairSpec
CONSTANTS
    Streams = {1, 2}
    Calls = {1, 2}
    MaxRecords = 1
    MaxBegun = 3
    NULL = NULL
    Layers <- AllLayers
INVARIANTS
    NoUseAfterFree
    ProviderReleasedOnce
    OneCallbackAtATime
    CloseRunsAlone
    RecreateReplaysAll
CHECK_DEADLOCK FALSE
PROPERTY
    CallsReturn
