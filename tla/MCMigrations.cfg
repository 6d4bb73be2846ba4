SPECIFICATION FairSpec
CONSTANTS
    auth = auth
    c1 = c1
    c2 = c2
    Database = {auth, c1, c2}
    AuthDb = auth
    Last <- LastOf
    Needs <- NeedsOf
    Bare <- BareOf
    Begin <- BeginOf
    Attempts = 2
    MaxFaults = 2
INVARIANTS
    TypeOK
    RowsAreTrue
    AuthReady
    LossesAreBounded
    CounterIsBounded
PROPERTIES
    Recovers
CHECK_DEADLOCK FALSE
