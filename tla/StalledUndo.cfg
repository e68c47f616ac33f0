SPECIFICATION BudgetSpec
CONSTANTS
    N = 2
    MaxKeys = 1
    MaxUndo = 2
    MaxAsks = 0
    Manifests <- Recoverable
    Ops = {"retry_compensation"}
    Faults = {}
    MaxFaults = 0
    MaxCommands = 1
INVARIANTS
    CompensatingHasWork
\* A saga that has ended, or waits for people, may stop.
CHECK_DEADLOCK FALSE
