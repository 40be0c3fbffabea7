CONSTANTS
    OS_THREADS = 3
    OS_STACKS = 3
    Autostart <- Two
    Priorities = {1, 2}
    Objects = {o1}
    None = None
    MaxPending = 1
    Ops = {"wait", "waitv", "notify", "isr_notify", "isr_kill", "init", "exit", "yield"}
SPECIFICATION Spec
INVARIANTS TypeOK NoLostWakeup
PROPERTY WakesMostUrgent
