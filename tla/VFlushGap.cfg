CONSTANTS
    MaxInflight = 1
    Clients = {k1}
    MaxRecords = 2
    MaxConns = 2
    Retries = 0
    Recovery = TRUE
    WithCallback = FALSE
    CallbackMaxWait = FALSE
    ServerErrors = {"retryable"}
    ApiOps = {"flush", "cancel"}
    AbortIsPrompt = TRUE
SPECIFICATION FairSpec
PROPERTY FlushEndsOnceAllAcked
