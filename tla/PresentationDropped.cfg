CONSTANTS
    TableOf <- MCTableOf
    ShardOf <- MCShardOf
    InitialDocs <- MCInitialDocs
    InitialStores <- MCInitialStores
    MaxFiles = 3
    MaxHandEdits = 1
    MaxSessionEdits = 3
SPECIFICATION MCSpec
INVARIANTS
    PresentationIsKeptOrRefused
CHECK_DEADLOCK FALSE
