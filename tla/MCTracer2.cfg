SPECIFICATION Spec
CONSTANTS
    ARCH = "x86_64"
    Size = 34
    Insns <- InsnsX86
    EqPoints <- PointsX86
    Faults = {"signal", "exit", "perm", "elf"}
INVARIANTS
    TypeOK
    BreakpointsRemoved
    SuspendedAtEqPoint
    TextInv
CHECK_DEADLOCK FALSE
