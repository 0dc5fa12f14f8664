SPECIFICATION Spec
CONSTANTS
    Users = {u1}
    Teams = {"T1", "T2"}
    OtherEntities = {"E1"}
    Workers = {w1}
    MaxAttempts = 1
    MaxTasks = 2
    MaxEdits = 0
INVARIANT EveryGrantTakesEffect
CHECK_DEADLOCK FALSE
