SPECIFICATION FairSpec
CONSTANTS
    Ids = {1, 2, 3, 4, 5, 6, 7}
    InitialPos <- MCInitialPos
    Count = 2
    Configs <- MCConfigs
    MaxSyncs = 2
    MaxAdds = 1
    MaxRemovals = 2
INVARIANT MissesBounded
PROPERTY SyncEnds
CHECK_DEADLOCK FALSE
