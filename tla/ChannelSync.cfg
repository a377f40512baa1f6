SPECIFICATION PlacedFairSpec
CONSTANTS
    b1 = b1
    c1 = c1
    t1 = t1
    t2 = t2
    m1 = m1
    p1 = p1
    p2 = p2
    Null = Null
    Box = {b1}
    Channel = {c1}
    Reported = {"RUNNING", "ERROR"}
    Tick = {t1, t2}
    Manual = {m1}
    Concurrency = 1
    MaxVersion = 2
    MaxCrashes = 1
    Place = {p1, p2}
INVARIANTS
    TypeOK
    OnePollerSync
    LockedWhileSyncing
    CamerasMirrorList
PROPERTIES
    PollerAppliesInOrder
    EventuallySynced
    CamerasArePlaced
