SPECIFICATION FairSpec
CONSTANTS
    c1 = c1
    c2 = c2
    a = a
    b = b
    Call = {c1, c2}
    Company = {a, b}
    Entry <- MCEntry
    Job <- MCJob
    Founder <- MCFounder
    None = None
INVARIANTS
    TypeOK
    MembersBacked
    ReportedAreMembers
    ErrorsLeaveNothing
PROPERTIES
    ImplementsBook
    AnsweredUnlessCrossed
CHECK_DEADLOCK FALSE
