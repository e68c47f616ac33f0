SPECIFICATION Spec
CONSTANTS
    Blueprints <- FlowBlueprints
    Items = {a, b}
    SpawnErrors = {"clean"}
    MaxReopen = 2
    MaxRollback = 1
    MaxCalls = 16
INVARIANTS
    LoopDiscipline
    ExhaustedAfterAllPasses
    CompletedCoversBlueprint
    JoinFollowsChildren
    UndoOrder
    RestoredMeansUndone
    NothingIsStuck
CHECK_DEADLOCK FALSE
