SPECIFICATION Spec
CONSTANTS
    ARCH = "x86_64"
    TOOL = "attach_pid"
    Size = 28
    Insns <- InsnsShort
    Addr = 8
    Faults = {"signal", "exit", "perm"}
INVARIANTS
    TypeOK
    TrappedAtAddr
CHECK_DEADLOCK FALSE
