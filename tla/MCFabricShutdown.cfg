SPECIFICATION Spec
CONSTANTS
    k1 = k1
    k2 = k2
    Keys = {k1, k2}
    Marketplace <- MCMarketplace
    Builtin <- MCBuiltin
    Calls = {c1}
    MaxLogs = 1
    MaxRuns = 1
    MaxRows = 1
    MaxEdits = 1
    MaxRestarts = 1
PROPERTIES AcknowledgedSurvives
CHECK_DEADLOCK FALSE
