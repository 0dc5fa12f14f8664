SPECIFICATION Spec
CONSTANTS
    Users = {u1}
    OtherPrincipals = {g1}
    InitialStandings <- Standings
    Workers = {w1, w2}
    RolesSkipped = FALSE
    MaxAttempts = 1
    MaxTasks = 2
    MaxEdits = 1
SYMMETRY WorkerSymmetry
INVARIANT TypeOK
INVARIANT GrantTakesEffect
INVARIANT RevokeTakesEffect
PROPERTY RevokeNeverPromotes
CHECK_DEADLOCK FALSE
