SPECIFICATION BudgetSpec
CONSTANTS
    N = 2
    MaxKeys = 2
    MaxUndo = 2
    MaxAsks = 0
    Manifests <- Reviewed
    Ops = {"retry_forward"}
    Faults = {}
    MaxFaults = 0
    MaxCommands = 1
INVARIANTS
    HeldIsDecidable
\* A saga that has ended, or waits for people, may stop.
CHECK_DEADLOCK FALSE
