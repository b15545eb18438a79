SPECIFICATION FairSpec
CONSTANTS
    Cases <- MCCases
    Cells <- MCCells
    Reach = 6
INVARIANTS
    TypeOK
    VariablesKept
    LiveValuesKept
PROPERTY
    Completes
CHECK_DEADLOCK FALSE
