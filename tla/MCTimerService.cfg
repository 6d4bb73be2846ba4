SPECIFICATION ServiceSpec
CONSTANTS
    s1 = s1
    s2 = s2
    e1 = e1
    e2 = e2
    u1 = u1
    u2 = u2
    Start = {s1, s2}
    End = {e1, e2}
    User = {u1, u2}
    PoolSize = 2
    None = None
SYMMETRY Symmetry
INVARIANTS
    ServiceTypeOK
    Supersedes
    ToldIsTrue
PROPERTIES
    ClosedOnceByItsUser
CHECK_DEADLOCK FALSE
