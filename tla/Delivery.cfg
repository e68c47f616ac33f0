SPECIFICATION FairSpec
CONSTANTS
    N = 2
    Consumers = {p, q}
    BatchSize = 2
    MaxInFlight = 1
    MaxDeliveries = 2
    MaxMishaps = 1
    FaultModes <- Modes
INVARIANTS
    SucceedsOnce
PROPERTIES
    Answered
    KeepsContract
CHECK_DEADLOCK FALSE
