SPECIFICATION Spec
CONSTANTS
    Threads = {main, w1, w2, w3}
    Main = main
    None = none
    Sites = {s1}
    Outer = outer
    TrapAddr = check_migrate
    ARCH = "x86_64"
    MAX_THREADS = 3
    Faults = {"exit", "kill", "perm", "elf", "spawn"}
SYMMETRY Symmetry
INVARIANTS TypeOK SavedIsOriginal SuspendClean IInv
PROPERTIES NoEscape QuiesceSpec
CHECK_DEADLOCK FALSE
