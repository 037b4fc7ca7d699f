CONSTANTS
    MaxInflight = 1
    Clients = {k1}
    MaxRecords = 2
    MaxConns = 2
    Retries = 0
    Recovery = TRUE
    WithCallback = FALSE
    CallbackMaxWait = FALSE
    ServerErrors = {"retryable"}
    ApiOps = {"flush", "close", "shutdown"}
    AbortIsPrompt = TRUE
SPECIFICATION FairSpec
PROPERTIES
    WaitReturns
    IngestReturns
    ClosedSupervisorEnds
