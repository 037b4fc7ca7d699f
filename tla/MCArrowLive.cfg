CONSTANTS
    c1 = c1
    c2 = c2
    Callers = {c1, c2}
    MaxInflight = 1
    Retries = 1
    Recoveries = {TRUE, FALSE}
    MaxBatches = 2
    MaxRows = 1
    Interrupts = {}
SPECIFICATION FairSpec
PROPERTIES Settles IngestReturns
