SPECIFICATION Spec
CONSTANTS
    u1 = u1
    u2 = u2
    Users = {u1, u2, u3}
    OtherPrincipals = {}
    InitialMembers <- MCInitialMembers
    Workers = {w1}
    Ops = {"grant", "revoke"}
    Configs <- JustCached
    MaxAttempts = 1
    MaxTasks = 3
    MaxEdits = 0
PROPERTY RevokeRemovesOnlyItsUser
CHECK_DEADLOCK FALSE
