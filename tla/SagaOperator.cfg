SPECIFICATION BudgetSpec
CONSTANTS
    N = 1
    MaxKeys = 2
    MaxUndo = 1
    MaxAsks = 1
    Manifests <- OneReviewed
    Ops = {"retry_step", "retry_forward", "start_compensation", "retry_compensation", "hitl_retry"}
    Faults = {"raise", "adapter"}
    MaxFaults = 1
    MaxCommands = 2
INVARIANTS
    TypeOK
    ApprovalGate
\* A saga that has ended, or waits for people, may stop.
CHECK_DEADLOCK FALSE
