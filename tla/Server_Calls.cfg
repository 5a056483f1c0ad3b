SPECIFICATION FairSpec
CONSTANTS
    c1 = c1  c2 = c2  c3 = c3  a1 = a1  u1 = u1  u2 = u2  s1 = s1  s2 = s2
    NoCall = NoCall
    NoSender = NoSender
    Calls = {c1, c2, c3}
    Asks <- AsksOf
    Areas = {a1}
    Users = {u1, u2}
    Registered = {u1}
    AreaOp <- OpOf
    AreaProvince <- ProvinceOf
    Charges <- TwoCharges
    ZkclCharges <- OneZkcl
    Verifications <- ThreeVerifications
    SeqSize = 3
    MAX_LOG_LEN = 5
    CheckLogLen = 2
INVARIANTS
    TypeOK
    SeqIdsDiffer
    AcceptedMatches
    RefusedMatching
    LaterVerifyRefused
    PrintedIsWhole
PROPERTIES
    EntryStaysInUse
    CallsEnd
CHECK_DEADLOCK FALSE
