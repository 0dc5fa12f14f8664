SPECIFICATION FairSpec
CONSTANTS
    N = 4
    RoleAt <- MCRoleAt
    SystemRoles = {"Rl01", "Rl02", "Rl03"}
    OrgRoles = {"org"}
    PageSize = 2
    MaxEdits = 1
    MaxCrashes = 1
INVARIANT TypeOK
INVARIANT EmittedOnce
PROPERTY ImplementsSnapshot
PROPERTY SyncEnds
CHECK_DEADLOCK FALSE
