SPECIFICATION Spec
CONSTANTS
    Users = {u1}
    Teams = {"T1", "T2"}
    OtherEntities = {"E1"}
    Workers = {w1, w2}
    MaxAttempts = 1
    MaxTasks = 2
    MaxEdits = 1
SYMMETRY WorkerSymmetry
INVARIANT TypeOK
INVARIANT TeamIsRecent
INVARIANT GrantTakesEffect
INVARIANT RevokeTakesEffectAtTeam
CHECK_DEADLOCK FALSE
