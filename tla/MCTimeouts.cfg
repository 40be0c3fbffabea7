CONSTANTS
    OS_THREADS = 3
    OS_STACKS = 3
    Autostart <- Two
    Priorities = {1, 2}
    Objects = {o1}
    None = None
    MaxPending = 1
    SLEEPERS_MAX = 8
    SleeperHash <- HashOfKey
    TimeMod = 4
    Tick = 1
    Delays = {1, 2}
    Ops = {"timeout", "notify", "isr_notify"}
SPECIFICATION TimersFairSpec
INVARIANTS NoLostWakeup WaitersAreWaiting
PROPERTIES NotBeforeTime TimeoutEnds
