SPECIFICATION Spec
CONSTANTS
    ChannelLists <- TwoSLS
    Garbage <- Uninitialised
    MaxTimes = 5
    MaxRetry = 5
    MaxQueries = 0
INVARIANTS
    FailedIsFailed
CHECK_DEADLOCK FALSE
