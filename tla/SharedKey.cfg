SPECIFICATION Spec
CONSTANTS
    Clients = {c1, c2}
    Worlds <- SharedKey
    MaxRequests = 2
    MaxCrashes = 0
INVARIANT KeyNamesOneSaga
CHECK_DEADLOCK FALSE
