SPECIFICATION FairSpec
CONSTANTS
    d1 = d1  d2 = d2
    Deployments <- TwoDeployments
    Batches = {"batch"}
    Single = "single"
    Background = "background"
    MaxSlots = 1
    MaxRetries = 1
    MaxCancels = 2
INVARIANTS TypeOK Accounted SlotsMatchExecutions StatsAddUp
PROPERTIES RetryOnlyFailed EveryExecutionEnds
CHECK_DEADLOCK FALSE
