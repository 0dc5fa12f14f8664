SPECIFICATION FairSpec
CONSTANTS
    u1 = u1
    u2 = u2
    Users = {u1, u2, u3}
    OtherPrincipals = {g1}
    InitialMembers <- MCInitialMembers
    Workers = {w1, w2}
    Ops = {"grant", "revoke"}
    MaxAttempts = 1
    MaxTasks = 2
    MaxEdits = 1
INVARIANT TypeOK
INVARIANT WritesAreRecent
INVARIANT SuccessIsReal
INVARIANT BystandersKept
PROPERTY ImplementsMembership
PROPERTY TaskEnds
CHECK_DEADLOCK FALSE
