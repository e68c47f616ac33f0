SPECIFICATION FairBudgetSpec
CONSTANTS
    N = 2
    MaxKeys = 3
    MaxUndo = 2
    MaxAsks = 1
    Manifests <- Reviewed
    Ops = {"retry_forward", "start_compensation", "hitl_retry"}
    Faults = {}
    MaxFaults = 0
    MaxCommands = 2
INVARIANTS
    SingleDelivery
PROPERTIES
    Settles
    DecisionTakesEffect
\* A saga that has ended, or waits for people, may stop.
CHECK_DEADLOCK FALSE
