SPECIFICATION Spec
CONSTANT Cases <- MCCases
INVARIANTS
    TypeOK
    PagesFollow
    Mappable
    SizeCovers
    StackLocated
CHECK_DEADLOCK FALSE
