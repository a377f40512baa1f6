SPECIFICATION Spec
CONSTANTS
    r1 = r1
    r2 = r2
    s1 = s1
    s2 = s2
    q1 = q1
    q2 = q2
    Runner = {r1, r2}
    Seeder = {s1, s2}
    Req = {q1, q2}
    AccessLife = 1
    RefreshLife = 2
    Window = 2
    MaxRequests = 1
    MaxTime = 2
    MaxPairs = 2
    MaxLogins = 3
    MaxRestarts = 1
SYMMETRY Symmetry
INVARIANTS
    TypeOK
    MigratedWhole
    SchemaMatchesCode
    AccountKept
    RateLimited
PROPERTIES
    EndedStaysEnded
CHECK_DEADLOCK FALSE
