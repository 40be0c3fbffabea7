CONSTANTS
    OS_THREADS = 3
    Autostart <- Boot
    Priority <- Priorities
    Operations = {"yield", "wait", "wake", "create", "exit", "rpc_call"}
    MaxDepth = 1
    MaxInterrupts = 1
SPECIFICATION FairSpec
INVARIANTS TypeOK OnlyCurrentExecutes CallServed CallCompletes TickFindsRunning
PROPERTY CurrentGetsToRun
