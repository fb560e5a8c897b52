\* Two partitions, one identity each, HTTP disabled.
CONSTANTS
    a = a
    b = b
    x = x
    y = y
    Definitions <- TwoPartitions
    RequestIDs = {1}
    Payloads = {x}
    NoWork = NoWork
    NoPayload = NoPayload
    AllowHTTP = FALSE
    MaxHostExecutions = 1
    MaxRequestsPerResult = 1
    MaxBatchCalls = 1
    MaxEvents = 2
    MaxTasks = 2
SPECIFICATION FairSpec
INVARIANTS FreshnessHonest
PROPERTIES BroadcastFirst CancelStops CallReturns
CHECK_DEADLOCK FALSE
