SPECIFICATION BudgetSpec
CONSTANTS
    N = 2
    MaxKeys = 2
    MaxUndo = 1
    MaxAsks = 0
    Manifests <- Recoverable
    Ops = {"retry_step"}
    Faults = {}
    MaxFaults = 0
    MaxCommands = 1
INVARIANTS
    SingleDelivery
\* A saga that has ended, or waits for people, may stop.
CHECK_DEADLOCK FALSE
