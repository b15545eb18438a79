SPECIFICATION Spec
CONSTANTS
    ARCH = "x86_64"
    TOOL = "attach_pid"
    Size = 28
    Insns <- InsnsLong
    Addr = 8
    Faults = {}
INVARIANTS
    SuspendsAtAddr
CHECK_DEADLOCK FALSE
