SPECIFICATION Spec
CONSTANTS
    Blueprints <- OvertakenBlueprints
    Items = {a}
    SpawnErrors = {"clean"}
    MaxReopen = 0
    MaxRollback = 0
    MaxCalls = 16
INVARIANT
    UndoOrder
CHECK_DEADLOCK FALSE
