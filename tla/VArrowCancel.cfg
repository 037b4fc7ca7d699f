CONSTANTS
    c1 = c1
    Callers = {c1}
    MaxInflight = 2
    Retries = 1
    Recoveries = {TRUE}
    MaxBatches = 2
    MaxRows = 1
    Interrupts = {"commit"}
SPECIFICATION Spec
INVARIANT SubmittedIsSent
