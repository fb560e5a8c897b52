\* What the correction of a required plan asks for is refused.
SPECIFICATION Spec
CONSTANTS
    CatalogLimit = 4
    CatalogPageSize = 3
    Pinned = 1
    MaxCorrections = 1
    MaxRecoveryTurns = 1
    MaxPlanningRejections = 4
    MaxHostCorrection = 2
    MaxPageSelections = 1
    MaxInvocations = 3
    MaxBatchCalls = 2
    MaxLineage = 2
    ToolCounts = {2, 5}
INVARIANTS
    RevisionCorrects
CHECK_DEADLOCK FALSE
