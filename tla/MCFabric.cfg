SPECIFICATION Spec
CONSTANTS
    k1 = k1
    k2 = k2
    Keys = {k1, k2}
    Marketplace <- MCMarketplace
    Builtin <- MCBuiltin
    Calls = {c1, c2}
    MaxLogs = 2
    MaxRuns = 1
    MaxRows = 2
    MaxEdits = 1
    MaxRestarts = 1
INVARIANTS UnsavedIsScheduled HistoryRefersToRows CountersMatchLogs
PROPERTIES ImplementsDurable
CHECK_DEADLOCK FALSE
