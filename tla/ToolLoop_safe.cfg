\* Batches of up to two calls, a small catalog and one of three pages, one child.
SPECIFICATION FairSpec
CONSTANTS
    CatalogLimit = 4
    CatalogPageSize = 3
    Pinned = 1
    MaxCorrections = 1
    MaxRecoveryTurns = 1
    MaxPlanningRejections = 4
    MaxHostCorrection = 2
    MaxPageSelections = 1
    MaxInvocations = 3
    MaxBatchCalls = 2
    MaxLineage = 2
    ToolCounts = {2, 5}
INVARIANTS
    TypeOK
    Allowances
    BatchHonest
    CatalogComplete
PROPERTIES
    NoBypass
    IntentKept
    EndsUnlessReplanning
CHECK_DEADLOCK FALSE
