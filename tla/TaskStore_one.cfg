\* One partition and one identity with two payloads, a batch, an execution between them.
CONSTANTS
    a = a
    b = b
    x = x
    y = y
    Definitions <- OnePartition
    RequestIDs = {1}
    Payloads = {x, y}
    NoWork = NoWork
    NoPayload = NoPayload
    AllowHTTP = TRUE
    MaxHostExecutions = 1
    MaxRequestsPerResult = 2
    MaxBatchCalls = 2
    MaxEvents = 3
    MaxTasks = 3
SPECIFICATION Spec
SYMMETRY PayloadSymmetry
INVARIANTS TypeOK Lineage SettledTree ExecutedOnce CompletedWasObserved UniqueRequest
PROPERTIES OutcomeKept CreationOrder ImplementsLedger
CHECK_DEADLOCK FALSE
