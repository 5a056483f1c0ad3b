SPECIFICATION Spec
CONSTANTS
    Phones = {6, 10, 14, 17}
    Base = 10
    PhoneSpan = 8
    TimeSpan = 4
    Clock = 16
    Epoch = 3
    MaxTime = 22
    MaxOrders = 2
INVARIANTS
    TypeOK
    DistinctNumbers
    PhoneIsDecoded
CHECK_DEADLOCK FALSE
