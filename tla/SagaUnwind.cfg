SPECIFICATION BudgetSpec
CONSTANTS
    N = 3
    MaxKeys = 2
    MaxUndo = 2
    MaxAsks = 0
    Manifests <- ThreeSteps
    Ops = {"retry_forward", "start_compensation"}
    Faults = {"raise", "adapter"}
    MaxFaults = 2
    MaxCommands = 2
INVARIANTS
    ForwardOrder
    CompletedMeansDone
    UnwindIsQuiet
    UndoOrder
    RestoredMeansUndone
    HoldIsRecoverable
PROPERTIES
    OutcomeIsFinal
\* A saga that has ended, or waits for people, may stop.
CHECK_DEADLOCK FALSE
