SPECIFICATION BudgetSpec
CONSTANTS
    N = 2
    MaxKeys = 1
    MaxUndo = 2
    MaxAsks = 0
    Manifests <- Recoverable
    Ops = {"start_compensation"}
    Faults = {"engine_crash"}
    MaxFaults = 3
    MaxCommands = 1
INVARIANTS
    RunningHasWork
    CompensatingHasWork
\* A saga that has ended, or waits for people, may stop.
CHECK_DEADLOCK FALSE
