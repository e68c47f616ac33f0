SPECIFICATION BudgetSpec
CONSTANTS
    N = 1
    MaxKeys = 2
    MaxUndo = 1
    MaxAsks = 1
    Manifests <- OneReviewed
    Ops = {"hitl_retry"}
    Faults = {}
    MaxFaults = 0
    MaxCommands = 0
INVARIANTS
    ApprovalIsForDraft
\* A saga that has ended, or waits for people, may stop.
CHECK_DEADLOCK FALSE
