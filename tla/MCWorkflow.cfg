SPECIFICATION FairSpec
CONSTANTS
    Workflows <- Several
    MaxExecutions = 5
CHECK_DEADLOCK FALSE
INVARIANTS
    WorkflowTypeOK
    RanIffLivePath
    CompletedMeansWhole
    FailureContained
    OpsAreAwaited
PROPERTIES
    FollowsRule
    Terminates
