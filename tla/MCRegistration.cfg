SPECIFICATION Spec
CONSTANTS
    r1 = r1
    r2 = r2
    r3 = r3
    Request = {r1, r2, r3}
    Form <- MCForm
    PoolSize = 2
    None = None
SYMMETRY Symmetry
INVARIANTS
    TypeOK
    KeysUnique
    AccountWhole
    ConnAccounting
    CreatedIsSeeded
PROPERTIES
    DeletesOwn
    ImplementsDirectory
CHECK_DEADLOCK FALSE
