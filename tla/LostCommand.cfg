SPECIFICATION Spec
CONSTANTS
    N = 1
    Consumers = {p, q}
    BatchSize = 2
    MaxInFlight = 1
    MaxDeliveries = 2
    MaxMishaps = 1
    FaultModes <- Slow
INVARIANTS
    NotLost
CHECK_DEADLOCK FALSE
