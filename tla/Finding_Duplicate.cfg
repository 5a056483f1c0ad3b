SPECIFICATION Spec
CONSTANTS
    t1 = t1  t2 = t2  z1 = z1  c1 = c1  y1 = y1  n1 = n1  n2 = n2
    Requests = {t1, t2}
    Tmall = {t1, t2}
    Zkcl = {}
    Customer = {}
    Query = {}
    Numbers <- TwoNumbers
    No <- NumberOf
    MaxFaults = 0
INVARIANTS
    DuplicateIsRefused
CHECK_DEADLOCK FALSE
