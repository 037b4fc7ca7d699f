CONSTANTS
    MaxInflight = 2
    Clients = {k1}
    MaxRecords = 2
    MaxConns = 2
    Retries = 1
    Recovery = TRUE
    WithCallback = TRUE
    CallbackMaxWait = TRUE
    ServerErrors = {"retryable", "auth", "permanent"}
    ApiOps = {"wait", "flush", "close", "unacked", "drop"}
    AbortIsPrompt = TRUE
SPECIFICATION Spec
INVARIANTS
    WaitOkMeansAcked
    CallbackMatchesFate
    CloseRunsCallbacks
