SPECIFICATION FairSpec
CONSTANTS
    Threads = {main, w1, w2}
    Main = main
    None = none
    Sites = {s1, s2}
    Outer = outer
    TrapAddr = check_migrate
    ARCH = "aarch64"
    MAX_THREADS = 3
    Faults = {}
PROPERTY TrappedIsSuspended
CHECK_DEADLOCK FALSE
