SPECIFICATION Spec
CONSTANTS
    Streams = {1, 2}
    Calls = {1, 2}
    MaxRecords = 1
    MaxBegun = 3
    NULL = NULL
    Layers <- JavaLayer
INVARIANT
    UnackedSurviveClose
CHECK_DEADLOCK FALSE
