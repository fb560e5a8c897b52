\* A batch fails half way and the observation of that failure asks for work.
CONSTANTS
    a = a
    b = b
    x = x
    y = y
    Definitions <- OnePartition
    RequestIDs = {1}
    Payloads = {x}
    NoWork = NoWork
    NoPayload = NoPayload
    AllowHTTP = TRUE
    MaxHostExecutions = 1
    MaxRequestsPerResult = 1
    MaxBatchCalls = 2
    MaxEvents = 2
    MaxTasks = 3
SPECIFICATION Spec
PROPERTIES AdmitDrains
CHECK_DEADLOCK FALSE
