SPECIFICATION FairSpec
CONSTANT
    Cases <- MCCases
INVARIANTS
    TypeOK
    Recoverable
PROPERTIES
    CheckpointSpec
    Arrives
CHECK_DEADLOCK FALSE
