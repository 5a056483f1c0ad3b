SPECIFICATION FairSpec
CONSTANTS
    ChannelLists <- Lists
    Garbage <- Uninitialised
    MaxTimes = 5
    MaxRetry = 5
    MaxQueries = 2
INVARIANTS
    TypeOK
    PostsBounded
    SuccessIsAccepted
    FailureIsRefused
    QueriedSuccessIsTrue
PROPERTIES
    ChargeEnds
CHECK_DEADLOCK FALSE
