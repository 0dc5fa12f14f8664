SPECIFICATION FairSpec
CONSTANTS
    W = 2
    U = 2
    Groups <- MCGroups
    TeamOf <- MCTeamOf
    InitialTeams <- MCInitialTeams
    InitialMembers <- MCInitialMembers
    InitialUsers <- MCInitialUsers
    PageSize = 1
    MaxEdits = 1
    MaxCrashes = 1
INVARIANT TypeOK
INVARIANT NamesAreKnown
INVARIANT NothingMissed
INVARIANT OneRoleEach
PROPERTY ImplementsSnapshots
PROPERTY SyncEnds
CHECK_DEADLOCK FALSE
