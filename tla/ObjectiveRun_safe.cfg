\* Three cycles, three attempts at each evaluation, up to two children.
SPECIFICATION FairSpec
CONSTANTS
    MaxCycles = 3
    MaxStructuredAttempts = 3
    Tools = TRUE
    MaxChildren = 2
INVARIANTS
    TypeOK
    OneOutcome
    PublishedWasEvaluated
    ExitCodes
PROPERTIES
    ContinuesOnVerdict
    Terminates
