SPECIFICATION FairSpec
CONSTANTS
    py = py
    rs = rs
    t1 = t1
    t2 = t2
    t3 = t3
    q1 = q1
    q2 = q2
    None = None
    Process = {py, rs}
    Python = {py}
    Task = {t1, t2, t3}
    Query = {q1, q2}
    Home <- MCHome
    Path <- MCPath
    Asks <- MCAsks
    Capacity = 1
    Parts = 2
INVARIANTS
    TypeOK
    MemoryWellFormed
    OwnAnswer
    AtRestDiskIsWhole
PROPERTIES
    CallsReturn
