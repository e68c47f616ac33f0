SPECIFICATION BudgetSpec
CONSTANTS
    N = 2
    MaxKeys = 1
    MaxUndo = 2
    MaxAsks = 0
    Manifests <- Recoverable
    Ops = {}
    Faults = {"worker_crash"}
    MaxFaults = 2
    MaxCommands = 0
PROPERTIES
    CompletedIsFinal
\* A saga that has ended, or waits for people, may stop.
CHECK_DEADLOCK FALSE
