SPECIFICATION Spec
CONSTANTS
    Users = {u1}
    OtherPrincipals = {g1}
    InitialStandings <- Standings
    Workers = {w1}
    RolesSkipped = FALSE
    MaxAttempts = 1
    MaxTasks = 3
    MaxEdits = 0
INVARIANT EveryRevokeTakesEffect
CHECK_DEADLOCK FALSE
