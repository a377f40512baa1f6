SPECIFICATION FairHistorySpec
CONSTANTS
    b1 = b1
    c1 = c1
    c2 = c2
    o1 = o1
    t1 = t1
    None = None
    Box = {b1}
    Channel = {c1, c2}
    Obj = {o1}
    Tick = {t1}
    MaxTs = 2
    MaxHistory = 1
    MaxCrashes = 0
    Limit = 1
INVARIANTS
    HistoryTypeOK
    NonePassedBy
PROPERTIES
    EventuallyStored
