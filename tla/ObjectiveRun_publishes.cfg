\* What the repository says of FailedNeverPublishes is not what the code does.
SPECIFICATION Spec
CONSTANTS
    MaxCycles = 2
    MaxStructuredAttempts = 5
    Tools = FALSE
    MaxChildren = 0
INVARIANTS
    FailedNeverPublishes
