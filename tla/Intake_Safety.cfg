SPECIFICATION FrontsSpec
CONSTANTS
    t1 = t1  t2 = t2  z1 = z1  c1 = c1  y1 = y1  n1 = n1  n2 = n2
    Requests = {t1, z1, c1, y1}
    Tmall = {t1}
    Zkcl = {z1}
    Customer = {c1}
    Query = {y1}
    Numbers <- TwoNumbers
    No <- NumberOf
    MaxFaults = 1
    Fronts = {f1, f2}
    Nobody = Nobody
SYMMETRY FrontSymmetry
INVARIANTS
    FrontsTypeOK
    LaterDuplicateRefused
    RefusedHasNoRow
    AcceptedIsComplete
    AnswerIsTrue
    ConnectionsClosed
CHECK_DEADLOCK FALSE
