SPECIFICATION Spec
CONSTANTS
    b1 = b1
    c1 = c1
    o1 = o1
    o2 = o2
    t1 = t1
    t2 = t2
    None = None
    Box = {b1}
    Channel = {c1}
    Obj = {o1, o2}
    Tick = {t1, t2}
    MaxTs = 2
    MaxHistory = 2
    MaxCrashes = 0
INVARIANTS
    NoOverlappingPolls
