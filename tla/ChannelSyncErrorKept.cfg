SPECIFICATION PlacedSpec
CONSTANTS
    b1 = b1
    c1 = c1
    c2 = c2
    t1 = t1
    t2 = t2
    m1 = m1
    p1 = p1
    Null = Null
    Box = {b1}
    Channel = {c1, c2}
    Reported = {"RUNNING", "ERROR"}
    Tick = {t1, t2}
    Manual = {m1}
    Concurrency = 1
    MaxVersion = 2
    MaxCrashes = 0
    Place = {p1}
PROPERTIES
    SuccessClearsErrors
