SPECIFICATION MCSpec
CONSTANTS
    s1 = s1
    s2 = s2
    s3 = s3
    e1 = e1
    u1 = u1
    Start = {s1, s2, s3}
    First = s1
    End = {e1}
    User = {u1}
    PoolSize = 2
    None = None
PROPERTY
    Answered
CHECK_DEADLOCK FALSE
