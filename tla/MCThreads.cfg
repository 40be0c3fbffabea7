CONSTANTS
    OS_THREADS = 4
    OS_STACKS = 3
    Autostart <- Two
    Priorities = {1, 2}
    Objects = {o1}
    None = None
    MaxPending = 1
    Ops = {"yield", "exit", "kill", "stop", "continue", "join", "create", "wait", "notify", "setpriority"}
SPECIFICATION Spec
INVARIANTS StackOwnership LiveHasStack CurrentThreadRuns SwitchIsConsistent WaitersAreWaiting
