SPECIFICATION Spec
CONSTANTS
    r1 = r1
    r2 = r2
    Request = {r1, r2}
    Form <- MCForm
    PoolSize = 1
    None = None
PROPERTY
    ErrorsAreCompensated
CHECK_DEADLOCK FALSE
