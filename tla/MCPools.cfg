SPECIFICATION Spec
CONSTANTS
    c1 = c1
    c2 = c2
    c3 = c3
    auth = auth
    company = company
    p1 = p1
    p2 = p2
    p3 = p3
    p4 = p4
    Call = {c1, c2, c3}
    Key = {auth, company}
    AuthKey = auth
    AuthName = AuthName
    Pool = {p1, p2, p3, p4}
    MaxFaults = 1
    None = None
SYMMETRY Symmetry
INVARIANTS
    TypeOK
    MapIsSound
CHECK_DEADLOCK FALSE
