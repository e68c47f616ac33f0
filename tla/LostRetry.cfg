SPECIFICATION BudgetSpec
CONSTANTS
    N = 1
    MaxKeys = 3
    MaxUndo = 1
    MaxAsks = 2
    Manifests <- OneReviewed
    Ops = {"hitl_retry"}
    Faults = {}
    MaxFaults = 0
    MaxCommands = 0
PROPERTIES
    RetryIsHonoured
\* A saga that has ended, or waits for people, may stop.
CHECK_DEADLOCK FALSE
