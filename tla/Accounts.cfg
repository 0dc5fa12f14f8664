SPECIFICATION FairSpec
CONSTANTS
    People = {ann}
    Workspaces = {t1, t2}
    InitialAccounts <- MCInitialAccounts
    Invocations = {i1}
    Creators = {c1, c2}
    MaxEdits = 2
INVARIANT TypeOK
INVARIANT HandlersOutcomeStands
PROPERTY ImplementsActions
INVARIANT CompleteIsReal
INVARIANT CreatedByOwnInvitation
PROPERTY ActionsSettle
CHECK_DEADLOCK FALSE
