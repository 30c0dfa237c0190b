SPECIFICATION FormSpec
CONSTANTS
    Names <- LeftEmpty
    MaxSteps = 2
INVARIANT CreatedStepsRun
CHECK_DEADLOCK FALSE
