CONSTANTS
    Callers = {c1, c2}
    Keys = {k1, k2}
    Malformed = {k2}
    MaxInstant = 9
    Ttls = {2}
    RefreshBuffer = 1
    MaxClock = 3
    MaxMints = 2
SPECIFICATION Spec
INVARIANTS
    CachedTokenIsValid
    DroppedTokenNotServed
