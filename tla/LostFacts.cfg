SPECIFICATION Spec
CONSTANTS
    Steps <- Facts
    MaxTries = 1
    MaxBatch = 1
    MaxUse = 0
    SourceFaults = {}
    LlmFaults = {}
INVARIANTS
    FactsCoverCalls
CHECK_DEADLOCK FALSE
