CONSTANTS
    MaxInflight = 2
    Clients = {k1}
    MaxRecords = 2
    MaxConns = 2
    Retries = 0
    Recovery = TRUE
    WithCallback = FALSE
    CallbackMaxWait = FALSE
    ServerErrors = {"retryable"}
    ApiOps = {"close"}
    AbortIsPrompt = TRUE
SPECIFICATION Spec
INVARIANT CloseOkMeansAllAcked
