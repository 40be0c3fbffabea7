CONSTANTS
    Armv8 = {TRUE, FALSE}
    AddressSpace = 65536
    HOSTED = 1
    TASK_REGIONS = 2
    Threads = {0, 1, 2}
    Processes = {0, 1}
    ProcessOf <- Parents
    Definitions <- Aligned
    Stacks <- ThreadStacks
    RPC_SLOTS = 3
    MaxDepth = 2
    FPU = TRUE
SPECIFICATION Spec
INVARIANTS TypeOK MemoryIsolation RpcReturnsToCaller
VIEW LiveState
