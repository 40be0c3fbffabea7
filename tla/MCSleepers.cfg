CONSTANTS
    OS_THREADS = 3
    OS_STACKS = 3
    Autostart <- Two
    Priorities = {1, 2}
    Objects = {o1}
    None = None
    MaxPending = 1
    SLEEPERS_MAX = 8
    SleeperHash <- HashOfKey
    TimeMod = 4
    Tick = 1
    Delays = {2}
    Ops = {"usleep", "setitimer_once"}
SPECIFICATION TimersFairSpec
INVARIANTS QueueMatchesSleepers
PROPERTIES SleepEnds
