SPECIFICATION FairSpec
CONSTANTS
    Threads = {t1, t2}
    Leader = t1
    Cases <- MCCases
    MaxRuns = 2
CHECK_DEADLOCK FALSE
INVARIANTS
    TypeOK
    OutputRight
    DumpKept
PROPERTIES
    Completes
    ConversionSpec
