CONSTANTS
    Servers = 2
    MaxDiscoveryPages = 2
    MaxTools = 2
    Cursors = {"a", "b"}
    MaxInvocations = 3
    MaxBatchCalls = 2
    MaxCalls = 4
SPECIFICATION Spec
INVARIANTS AllOrNothing BudgetReserved
PROPERTY ImplementsDispatcher
CHECK_DEADLOCK FALSE
