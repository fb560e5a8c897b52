\* Two partitions and three sources, a plan of two steps, two proposals.
CONSTANTS
    Source <- Sources
    Trees <- SourceTrees
    Budgets = {12, 36, 60}
    MaxEntries = 3
    MaxValue = 2
    StepId = {"s", "t"}
    Results = {"r1", "r2"}
    MaxReconciliationAttempts = 2
    MaxStructuredAttempts = 2
SPECIFICATION Spec
INVARIANTS CoverageHonest EvidenceShown AcceptedWhole InferencesBounded
CHECK_DEADLOCK FALSE
