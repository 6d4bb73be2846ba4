SPECIFICATION Spec
CONSTANTS
    c1 = c1
    c2 = c2
    u1 = u1
    u2 = u2
    u3 = u3
    k1 = k1
    k2 = k2
    s1 = s1
    p1 = p1
    p2 = p2
    r1 = r1
    r2 = r2
    None = None
    ChatId <- MCChatId
    User <- MCUser
    Stranger = u3
    Creation <- MCCreation
    Save <- MCSave
    Post <- MCPost
    Reader <- MCReader
    Together <- MCPostTogether
    MaxReads = 1
    MaxFaults = 0
PROPERTIES
    PostIsSaved
CHECK_DEADLOCK FALSE
