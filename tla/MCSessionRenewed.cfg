SPECIFICATION Spec
CONSTANTS
    r1 = r1
    r2 = r2
    None = None
    Request = {r1, r2}
    Access = 1
    Refresh = 3
    MaxAge = 2
    Horizon = 3
CHECK_DEADLOCK FALSE
PROPERTY
    SessionIsRenewed
