SPECIFICATION Spec
CONSTANTS
    Cases <- MCCases
    Sp = 1000
    Depth = 216
CHECK_DEADLOCK FALSE
INVARIANTS
    TypeOK
    FramesLinked
    ValuesFollow
    PointersFollow
    NothingStale
    AboveKept
PROPERTIES
    Terminates
