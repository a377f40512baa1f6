SPECIFICATION FairSpec
CONSTANTS
    i1 = i1
    i2 = i2
    u1 = u1
    t1 = t1
    t2 = t2
    r1 = r1
    None = None
    Id = {i1, i2}
    Url = {u1}
    Tick = {t1, t2}
    Refresh = {r1}
    MaxFails = 2
    MaxCrashes = 1
INVARIANTS
    TypeOK
    AnswersAreTrue
PROPERTIES
    GivenUpAfterStreak
    NoResurrection
    DownIsGivenUp
    PagesTellTruth
