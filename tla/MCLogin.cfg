SPECIFICATION MCSpec
CONSTANTS
    l1 = l1
    Request <- MCRequest
    Caller = {l1}
    Form <- MCForm
    Credential <- MCCredential
    PoolSize = 2
    None = None
INVARIANTS
    LoginTypeOK
    SettledAccountIsFound
    LoginIntoSeeded
PROPERTIES
    AnsweredUnlessExhausted
CHECK_DEADLOCK FALSE
