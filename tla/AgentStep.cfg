SPECIFICATION FairSpec
CONSTANTS
    Steps <- Mixed
    MaxTries = 2
    MaxBatch = 2
    MaxUse = 1
    SourceFaults = {"down"}
    LlmFaults = {"transient", "permanent"}
INVARIANTS
    WellFormedTranscript
    NothingForgotten
    Governed
    SubmitSeesAll
    TurnsBounded
    ToolsComplete
PROPERTIES
    BudgetStops
    Ends
CHECK_DEADLOCK FALSE
