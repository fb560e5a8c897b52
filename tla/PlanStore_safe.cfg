\* Two steps, one partition observed once, two batches.
SPECIFICATION Spec
CONSTANTS
    StepId = {"s", "t"}
    Intent = {"goal"}
    Partition = {"world"}
    MaxSteps = 2
    MaxMutations = 1
    Objective = "goal"
    ReplanAfterNoProgress = 2
    Content <- StepContent
    Heading <- PlanHeading
    MaxVersion = 1
    MaxRevision = 3
    MaxAttempts = 2
INVARIANTS
    ConfirmedKept
    SatisfiedWasConfirmed
    EvidenceObserved
    Continuable
    StreakHonest
PROPERTIES
    ReconciliationKeepsProcedure
CHECK_DEADLOCK FALSE
