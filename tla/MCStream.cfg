CONSTANTS
    MaxInflight = 2
    Clients = {k1, k2}
    MaxRecords = 3
    MaxConns = 2
    Retries = 1
    Recovery = TRUE
    WithCallback = FALSE
    CallbackMaxWait = FALSE
    ServerErrors = {"retryable", "auth"}
    ApiOps = {"unacked", "cancel", "close", "drop"}
    AbortIsPrompt = TRUE
SPECIFICATION Spec
INVARIANTS
    NoRecordLost
    AckedIsDurable
    RejectedTokenDropped
PROPERTIES
    ImplementsLedger
