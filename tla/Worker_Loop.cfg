SPECIFICATION FairSpec
CONSTANTS
    Workers = {w1, w2}
    MaxFails = 5
    InitialSleep = 1
    MaxSleep = 3
    MaxMessages = 2
    MaxOutages = 2
INVARIANTS
    TypeOK
    IdleWorkersStay
PROPERTIES
    ListIsServed
    Reconnects
CHECK_DEADLOCK FALSE
