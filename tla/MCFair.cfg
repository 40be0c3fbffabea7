CONSTANTS
    OS_THREADS = 3
    OS_STACKS = 3
    Autostart <- Two
    Priorities = {1, 2}
    Objects = {o1}
    None = None
    MaxPending = 1
    Ops = {"wait", "notify", "notify2", "waitv", "stop", "continue", "signal", "yield", "setpriority", "exit", "kill"}
SPECIFICATION FairSpec
INVARIANTS MostUrgentRuns
PROPERTIES NoStarvation
