CONSTANTS
    Threads = {t1, t2}
    FPU = FALSE
    Arch = "ARM"
    MaxNested = 0
SPECIFICATION Spec
INVARIANT ContextPreserved
