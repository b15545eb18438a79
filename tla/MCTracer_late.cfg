SPECIFICATION FairSpec
CONSTANTS
    Threads = {main, w1}
    Main = main
    None = none
    Sites = {s1}
    Outer = outer
    TrapAddr = check_migrate
    ARCH = "x86_64"
    MAX_THREADS = 3
    Faults = {}
PROPERTY AlwaysSuspends
CHECK_DEADLOCK FALSE
