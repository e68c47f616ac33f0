SPECIFICATION Spec
CONSTANTS
    Clients = {c1, c2}
    Worlds <- AllWorlds
    MaxRequests = 3
    MaxCrashes = 1
INVARIANTS
    CatalogClosed
    StartsLinked
    TightenOnly
    StartedOnce
    RecoveredOnce
PROPERTIES
    SeparateWrites
    ActiveAtStart
CHECK_DEADLOCK FALSE
