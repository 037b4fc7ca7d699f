CONSTANTS
    c1 = c1
    c2 = c2
    Callers = {c1, c2}
    MaxInflight = 2
    Retries = 1
    Recoveries = {TRUE, FALSE}
    MaxBatches = 2
    MaxRows = 2
    Interrupts = {"permit", "mutex", "close", "drop"}
SPECIFICATION Spec
SYMMETRY CallerSymmetry
INVARIANTS RowLedger AckedIffConfirmed SubmittedIsSent NoStrandedWaiter CloseOkMeansDelivered
PROPERTY SnapshotStable
