SPECIFICATION Spec
CONSTANTS
    o1 = o1  o2 = o2  c1 = c1  c2 = c2  q1 = q1  q2 = q2  n1 = n1  n2 = n2
    NoMsg = NoMsg
    Orders <- TwoOrders
    Tmall <- OneTmall
    WithUrl <- TwoOrders
    ChargeThreads = {c1}
    QueryThreads = {q1}
    NotifyThreads = {n1}
    TIMEOUT_TIME = 2
    NotifyRetries = 2
    NotifyGarbage <- Garbage
    MaxFaults = 1
    MaxStops = 0
INVARIANTS
    RefusedIsNotCharged
CHECK_DEADLOCK FALSE
