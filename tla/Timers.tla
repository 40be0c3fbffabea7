------------------------------- MODULE Timers -------------------------------
(***************************************************************************)
(* Timed events (src/os/kernel/timer.c) and the calls that use them:       *)
(* usleep, setitimer, and waits with a timeout.  The module adds the timer *)
(* tables to Kernel; its steps are Kernel's, with their effect on the      *)
(* tables, and the steps of timer.c.                                       *)
(*                                                                         *)
(* Time is sched_microtime in units of the shortest interval.  It counts   *)
(* modulo TimeMod, as the 32-bit counter does, and only the tick moves it. *)
(***************************************************************************)
EXTENDS Kernel

CONSTANTS
    SLEEPERS_MAX,   \* entries of sleepers[] and of sleeper_queue[]
    SleeperHash,    \* SleeperHash[type][thread]: os_hash_key() of the key, masked
    TimeMod,        \* values of the microsecond counter
    Tick,           \* delay_us: how far one tick moves the time
    Delays          \* delays applications ask for, not below the busy-wait limit

SleepTypes == {"SLEEP", "TIMEOUT", "INTERVAL"}
Sleepers == 0 .. SLEEPERS_MAX - 1
Times == 0 .. TimeMod - 1

ASSUME TimerAssumption ==
    /\ SLEEPERS_MAX \in 1 .. 254
    /\ SleeperHash \in [SleepTypes -> [Threads -> Sleepers]]
    /\ TimeMod \in Nat \ {0} /\ Tick \in Times \ {0} /\ Delays \subseteq Times \ {0}

VARIABLES
    timers,         \* sleepers[], sleeper_queue[], its size and its cursor
    sched_microtime,
    timed,          \* arguments and locals of the timer code
    unlimited       \* history: threads whose latest wait or stop was asked for
                    \* without a time limit

timerVars == <<timers, sched_microtime, timed, unlimited>>
allVars == <<vars, timerVars>>

\* key is SLEEPER_KEY(type, thread) while armed and HASH_EMPTY otherwise.  The
\* other fields keep their last value, of which a free slot shows only those
\* that may be read again.
NoSleeper == [armed |-> FALSE, type |-> "SLEEP", thread |-> 0, sleep_from |-> 0, interval |-> 0]
NoEntry == [resume_time |-> 0, entry_id |-> 0]
NoTimed == [type |-> "SLEEP", thread |-> 0, delay |-> 0, slot |-> 0, offs |-> None, due |-> FALSE]

os_timer_init ==
    timers = [sleepers |-> [s \in Sleepers |-> NoSleeper],
              queue |-> [i \in 0 .. SLEEPERS_MAX |-> NoEntry], size |-> 0, cursor |-> 0]

TimersInit ==
    /\ Init
    /\ os_timer_init
    /\ sched_microtime = 0
    /\ timed = NoTimed
    /\ unlimited = {}

After(time, delay) == (time + delay) % TimeMod

------------------------------------------------------------------------------
(***************************************************************************)
(* Searches.  Hangs stands for a loop that does not end.                   *)
(***************************************************************************)

Hangs == SLEEPERS_MAX + 1

Holds(s, type, thread) ==
    timers.sleepers[s].armed /\ timers.sleepers[s].type = type /\ timers.sleepers[s].thread = thread

\* Slot of the k-th probe of HASH_SEARCH.
ProbeSlot(type, thread, k) == (SleeperHash[type][thread] + (k * (k + 1)) \div 2) % SLEEPERS_MAX

\* The first probed slot with the key, or that is free.
os_find_timer_slot(thread, type) ==
    LET stops == {k \in Sleepers : LET s == ProbeSlot(type, thread, k)
                                   IN  ~timers.sleepers[s].armed \/ Holds(s, type, thread)}
    IN  IF stops = {} THEN Hangs ELSE ProbeSlot(type, thread, Lowest(stops))

\* The first position whose resume_time is not below the time.
BINARY_SEARCH(tm, time) ==
    Lowest({i \in 0 .. tm.size : i = tm.size \/ tm.queue[i].resume_time >= time})

\* The loop looks at one entry only: it does not move on while the times are
\* equal.  The position may be the one behind the last entry.
os_find_timer_queue(slot) ==
    LET sleeper == timers.sleepers[slot]
        next_resume == After(sleeper.sleep_from, sleeper.interval)
        offs == BINARY_SEARCH(timers, next_resume)
    IN  IF ~sleeper.armed THEN None
        ELSE IF timers.queue[offs].entry_id = slot THEN offs
        ELSE IF timers.queue[offs].resume_time = next_resume THEN Hangs
        ELSE None

os_find_timer(thread, type) ==
    LET slot == os_find_timer_slot(thread, type)
    IN  IF slot = Hangs THEN Hangs ELSE os_find_timer_queue(slot)

------------------------------------------------------------------------------
(***************************************************************************)
(* Changes of the tables, on a value tm of the tables.                     *)
(***************************************************************************)

\* What ARRAY_DELETE leaves: entries move up, the one behind the end stays.
Deleted(tm, offs) ==
    [i \in DOMAIN tm.queue |->
        IF offs <= i /\ i < tm.size - 1 THEN tm.queue[i + 1] ELSE tm.queue[i]]

CursorBefore(tm, offs) == IF tm.cursor > offs THEN tm.cursor - 1 ELSE tm.cursor

os_dequeue_timed_event(tm, offs) ==
    [tm EXCEPT !.queue = Deleted(tm, offs), !.size = @ - 1, !.cursor = CursorBefore(tm, offs)]

\* Entries from offs on move down to make room.
ARRAY_INSERT(tm, offs, entry) ==
    [i \in DOMAIN tm.queue |-> CASE i = offs -> entry
                                 [] offs < i /\ i <= tm.size -> tm.queue[i - 1]
                                 [] OTHER -> tm.queue[i]]

\* The cursor is corrected as for a deletion.
os_enqueue_timed_event(tm, slot, time) ==
    LET offs == BINARY_SEARCH(tm, time)
        entry == [resume_time |-> time, entry_id |-> slot]
    IN  [tm EXCEPT !.queue = ARRAY_INSERT(tm, offs, entry), !.size = @ + 1, !.cursor = CursorBefore(tm, offs)]

Disarmed(sleeper) ==
    [sleeper EXCEPT !.armed = FALSE, !.sleep_from = 0,
                    !.interval = IF sleeper.type = "INTERVAL" THEN @ ELSE 0]

\* Mutant: the slot stays armed.
CancelQueueOnly(tm, offs) ==
    IF offs = None \/ offs >= tm.size THEN tm ELSE os_dequeue_timed_event(tm, offs)

os_cancel_sleeper(tm, offs) ==
    IF offs = None \/ offs >= tm.size THEN tm
    ELSE [os_dequeue_timed_event(tm, offs)
             EXCEPT !.sleepers[tm.queue[offs].entry_id] = Disarmed(@)]

os_sleeper_reschedule(tm, offs) ==
    LET entry == tm.queue[offs]
        next_resume == After(entry.resume_time, tm.sleepers[entry.entry_id].interval)
    IN  os_enqueue_timed_event(os_dequeue_timed_event(tm, offs), entry.entry_id, next_resume)

\* Mutant: the entry of the earlier request stays in the queue.
SetForgetsOld(tm, type, delay, slot, offs) ==
    os_enqueue_timed_event(
        [tm EXCEPT !.sleepers[slot] =
            [armed |-> TRUE, type |-> type, thread |-> thread_current,
             sleep_from |-> sched_microtime, interval |-> delay]],
        slot, After(sched_microtime, delay))

\* The critical section of do_set_timed_event.
SetTimedEvent(tm, type, delay, slot, offs) ==
    LET next_resume == After(sched_microtime, delay)
        armed == [tm EXCEPT !.sleepers[slot] =
                     [armed |-> TRUE, type |-> type, thread |-> thread_current,
                      sleep_from |-> sched_microtime, interval |-> delay]]
    IN  IF offs = None
        THEN os_enqueue_timed_event(armed, slot, next_resume)
        ELSE IF tm.queue[offs].resume_time = next_resume THEN armed
        ELSE os_enqueue_timed_event(os_dequeue_timed_event(armed, offs), slot, next_resume)

------------------------------------------------------------------------------
(***************************************************************************)
(* Setting and cancelling timed events.                                    *)
(***************************************************************************)

KernelTables == <<tableVars, signalVars, waitVars, switchVars>>

\* Bound: room is left in the tables, the case of a full table is not modelled.
TimersBound == timers.size < SLEEPERS_MAX

\* The caller is read once; its event is sought under that number.
Arm(type, object) ==
    /\ SVC
    /\ TimersBound
    /\ \E d \in Delays :
          timed' = [NoTimed EXCEPT !.type = type, !.thread = thread_current, !.delay = d]
    /\ call' = [NoCall EXCEPT !.obj = object]
    /\ Goto("arm")
    /\ unlimited' = unlimited \ {thread_current}
    /\ UNCHANGED <<KernelTables, timers, sched_microtime>>

\* Delays under a millisecond are busy waits: os_system_call_reports.
os_usleep == Arm("SLEEP", None)

os_setitimer == Arm("INTERVAL", None)

\* wait_for_object and wait_for_object_value with a timeout arm it first.
sys_wait_with_timeout == WaitersBound /\ \E o \in Objects : Arm("TIMEOUT", o)

os_setitimer_cancel ==
    /\ SVC
    /\ Goto("cancel")
    /\ call' = NoCall
    /\ timed' = [NoTimed EXCEPT !.type = "INTERVAL", !.thread = thread_current]
    /\ UNCHANGED <<KernelTables, timers, sched_microtime, unlimited>>

Spin == Goto("stuck") /\ call' = NoCall /\ timed' = NoTimed

os_set_timed_event ==
    /\ pc = "arm"
    /\ LET slot == os_find_timer_slot(timed.thread, timed.type)
           offs == IF slot = Hangs THEN Hangs ELSE os_find_timer_queue(slot)
       IN  IF offs = Hangs THEN Spin
           ELSE /\ timed' = [timed EXCEPT !.slot = slot, !.offs = offs]
                /\ Found(None, "arm_commit")
    /\ UNCHANGED <<KernelTables, timers, sched_microtime, unlimited>>

\* A sleeper stops itself; a wait goes on to wait; setitimer returns.
AfterArming ==
    \/ /\ timed.type = "SLEEP"
       /\ Goto("stop")
       /\ call' = [NoCall EXCEPT !.tgt = thread_current]
    \/ /\ timed.type = "TIMEOUT"
       /\ Goto("wait")
       /\ UNCHANGED call
    \/ /\ timed.type = "INTERVAL"
       /\ Return

do_set_timed_event ==
    /\ pc = "arm_commit"
    /\ IF call.fresh
       THEN /\ timers' = SetTimedEvent(timers, timed.type, timed.delay, timed.slot, timed.offs)
            /\ timed' = NoTimed
            /\ AfterArming
       ELSE /\ Goto("arm")
            /\ UNCHANGED <<timers, timed, call>>
    /\ UNCHANGED <<KernelTables, sched_microtime, unlimited>>

os_cancel_timed_event ==
    /\ pc = "cancel"
    /\ LET offs == os_find_timer(timed.thread, timed.type)
       IN  IF offs = Hangs THEN Spin
           ELSE /\ timed' = [timed EXCEPT !.offs = offs]
                /\ Found(None, "cancel_commit")
    /\ UNCHANGED <<KernelTables, timers, sched_microtime, unlimited>>

os_cancel_timed_event_commit ==
    /\ pc = "cancel_commit"
    /\ IF call.fresh
       THEN /\ timers' = os_cancel_sleeper(timers, timed.offs)
            /\ timed' = NoTimed
            /\ Return
       ELSE /\ Goto("cancel")
            /\ UNCHANGED <<timers, timed, call>>
    /\ UNCHANGED <<KernelTables, sched_microtime, unlimited>>

------------------------------------------------------------------------------
(***************************************************************************)
(* The tick: os_sched_timing_callback runs the timers, then yields.        *)
(***************************************************************************)

SysTick_timers ==
    /\ pc = "user"
    /\ ~pendsv
    /\ IF timers.size = 0
       THEN Goto("yield") /\ sched_microtime' = After(sched_microtime, Tick)
       ELSE Goto("run") /\ UNCHANGED sched_microtime
    /\ UNCHANGED <<KernelTables, call, timers, timed, unlimited>>

\* Whether an event of that time belongs to this tick or an earlier one.
TimerDue(time) ==
    LET end == After(sched_microtime, Tick)
    IN  time <= end \/ (end < sched_microtime /\ time > sched_microtime)

\* The entry at the cursor is looked at before the transaction commits.
os_run_timer ==
    /\ pc = "run"
    /\ timed' = [NoTimed EXCEPT !.due = TimerDue(timers.queue[timers.cursor].resume_time)]
    /\ Found(None, "run_commit")
    /\ UNCHANGED <<KernelTables, timers, sched_microtime, unlimited>>

\* Mutant: the thread is not made ready.
FireForgets(t) == UNCHANGED <<state, wait_object, waiters>>

\* os_thread_set_ready, whatever the thread was doing.
FireSleeper(t) ==
    /\ state' = [state EXCEPT ![t] = "READY"]
    /\ UNCHANGED <<wait_object, waiters>>

\* First position of t in the waiter list.
WaiterOf(t) == Lowest({i \in DOMAIN waiters : waiters[i] = t})

\* Mutant: the thread stays in the waiter list.
TimeoutKeepsWaiter(t) ==
    IF wait_object[t] = None
    THEN UNCHANGED <<state, wait_object, waiters>>
    ELSE os_notify_thread(t) /\ UNCHANGED waiters

\* os_notify_thread with EVT_TIMEOUT; the callback also takes the thread off the
\* waiter list.
FireTimeout(t) ==
    IF wait_object[t] = None
    THEN UNCHANGED <<state, wait_object, waiters>>
    ELSE /\ os_notify_thread(t)
         /\ waiters' = IF wait_object[t] \in Objects /\ \E i \in DOMAIN waiters : waiters[i] = t
                       THEN ARRAY_DELETE(waiters, WaiterOf(t))
                       ELSE waiters

\* The tables once the entry at the cursor has fired.
Fired(sleeper) ==
    LET tm == IF sleeper.type = "INTERVAL"
              THEN os_sleeper_reschedule(timers, timers.cursor)
              ELSE os_cancel_sleeper(timers, timers.cursor)
    IN  IF tm.size > 0 THEN [tm EXCEPT !.cursor = (@ + 1) % tm.size] ELSE tm

EndOfRun == Goto("yield") /\ sched_microtime' = After(sched_microtime, Tick)

\* What the ASSERTs check of an entry that is due.
CursorOnSleeper ==
    /\ timers.cursor < timers.size
    /\ timers.sleepers[timers.queue[timers.cursor].entry_id].armed

\* A refused commit looks at the entry again.  A failed ASSERT is the end.
os_run_timer_commit ==
    /\ pc = "run_commit"
    /\ LET sleeper == timers.sleepers[timers.queue[timers.cursor].entry_id]
       IN  \/ /\ call.fresh /\ timed.due /\ ~CursorOnSleeper
              /\ Goto("stuck")
              /\ UNCHANGED <<timers, sched_microtime, state, wait_object, waiters>>
           \/ /\ ~call.fresh
              /\ Goto("run")
              /\ UNCHANGED <<timers, sched_microtime, state, wait_object, waiters>>
           \/ /\ call.fresh /\ ~timed.due
              /\ EndOfRun
              /\ UNCHANGED <<timers, state, wait_object, waiters>>
           \/ /\ call.fresh /\ timed.due /\ CursorOnSleeper
              /\ IF sleeper.type = "TIMEOUT"
                 THEN FireTimeout(sleeper.thread) ELSE FireSleeper(sleeper.thread)
              /\ timers' = Fired(sleeper)
              /\ IF timers'.size > 0 THEN Goto("run") /\ UNCHANGED sched_microtime ELSE EndOfRun
    /\ timed' = NoTimed
    /\ call' = NoCall
    /\ UNCHANGED <<priority, base_priority, stack_id, allocations, signalVars, pending, switchVars, unlimited>>

------------------------------------------------------------------------------
(***************************************************************************)
(* Composition with Kernel.                                                *)
(***************************************************************************)

Timeout(t) == os_find_timer(t, "TIMEOUT")

\* Threads whose timer os_notify_object or init_waitable_object looks for.
Sought ==
    IF pc = "notify"
    THEN LET w == os_find_notified_thread_waiter(call.obj)
         IN  IF w = None THEN {} ELSE {waiters[w]}
    ELSE IF pc = "init" /\ state[call.tgt] = "WAITING" /\ wait_object[call.tgt] = call.obj
         THEN {call.tgt} ELSE {}

\* Threads an interrupt may be asked to wake.
InterruptSought ==
    IF "isr_notify" \notin Ops THEN {}
    ELSE {waiters[w] : w \in {os_find_notified_thread_waiter(o) : o \in Objects} \ {None}}

\* The search for the timeout of a thread that is being notified does not end.
NotifyHangs ==
    /\ \E t \in Sought \cup InterruptSought : Timeout(t) = Hangs
    /\ Spin
    /\ UNCHANGED <<KernelTables, timers, sched_microtime, unlimited>>

Notified == {t \in Threads : wait_object[t] \in Objects /\ wait_object'[t] = None}

\* cb_syscall_notify_object cancels the timeout of the thread it wakes.
CancelTimeout ==
    timers' = IF Notified = {} THEN timers
              ELSE os_cancel_sleeper(timers, Timeout(CHOOSE t \in Notified : TRUE))

\* Whom a system call lets wait, or stop, until somebody else ends it.
Untimed ==
    IF pc = "svc" /\ pc' = "wait" THEN {thread_current}
    ELSE IF pc = "svc" /\ pc' = "stop" THEN {call'.tgt} ELSE {}

\* A step of Kernel with its effect on the timers; a slot that os_thread_alloc
\* clears keeps its own, an interrupt beside it does not.
Timed(A) ==
    /\ A
    /\ \A t \in Sought \cup Notified : Timeout(t) # Hangs
    /\ IF pc = "alloc_commit" /\ pc' # pc THEN UNCHANGED timers ELSE CancelTimeout
    /\ unlimited' = unlimited \cup Untimed
    /\ UNCHANGED <<sched_microtime, timed>>

\* Applications of the kind "setitimer" set their interval timer whenever they
\* like, those of the kind "setitimer_once" only while they have none running.
MaySetInterval ==
    \/ "setitimer" \in Ops
    \/ "setitimer_once" \in Ops /\ \A s \in Sleepers : ~Holds(s, "INTERVAL", thread_current)

TimerCall ==
    \/ "usleep" \in Ops /\ os_usleep
    \/ MaySetInterval /\ os_setitimer
    \/ Ops \cap {"setitimer", "setitimer_once"} # {} /\ os_setitimer_cancel
    \/ "timeout" \in Ops /\ sys_wait_with_timeout

TimerStep ==
    \/ os_set_timed_event \/ do_set_timed_event
    \/ os_cancel_timed_event \/ os_cancel_timed_event_commit
    \/ os_run_timer \/ os_run_timer_commit

\* The kernel spins for good.
Spinning == pc = "stuck" /\ UNCHANGED allVars

TimersNext ==
    \/ Timed(SVC_Handler) \/ Timed(Syscall) \/ Timed(HandlerStep) \/ Timed(Interrupt)
    \/ Timed(PendSV) \/ TimerCall \/ TimerStep \/ SysTick_timers \/ NotifyHangs \/ Spinning

TimersSpec == TimersInit /\ [][TimersNext]_allVars

\* As for Kernel: a handler that was entered goes on, a pending switch is taken,
\* and the tick recurs.
TimersFairSpec ==
    /\ TimersSpec
    /\ WF_allVars(Timed(Syscall) \/ Timed(HandlerStep) \/ TimerCall \/ TimerStep)
    /\ WF_allVars(Timed(PendSV))
    /\ SF_allVars(SysTick_timers)

------------------------------------------------------------------------------
(***************************************************************************)
(* Properties.                                                             *)
(***************************************************************************)

InUse == 0 .. timers.size - 1

Tables == [sleepers : [Sleepers -> [armed : BOOLEAN, type : SleepTypes, thread : Threads,
                                    sleep_from : Times, interval : Times]],
           queue : [0 .. SLEEPERS_MAX -> [resume_time : Times, entry_id : Sleepers]],
           size : 0 .. SLEEPERS_MAX,
           cursor : 0 .. SLEEPERS_MAX]

TimedLocals == [type : SleepTypes, thread : Threads, delay : {0} \cup Delays, slot : Sleepers,
                offs : {None} \cup 0 .. SLEEPERS_MAX, due : BOOLEAN]

\* Times and numbers of slots stay within their tables, the cursor included, and
\* no cancellation takes the queue's size below zero.
TimersTypeOK == timers \in Tables /\ sched_microtime \in Times /\ timed \in TimedLocals

\* The tables are well formed, the queue is sorted, everything in it is armed, and
\* every timer that is armed is in it exactly once, a sleep or timeout under the
\* time it asked for, whatever was set, renewed, cancelled and fired around it.
\* (Only an interval timer that is set again while it runs breaks this: the search
\* for its entry in os_find_timer_queue goes by the time of its first period.)
QueueMatchesSleepers ==
    /\ TimersTypeOK
    /\ \A i, j \in InUse : i <= j => timers.queue[i].resume_time <= timers.queue[j].resume_time
    /\ \A i \in InUse : timers.sleepers[timers.queue[i].entry_id].armed
    /\ \A s \in Sleepers :
          LET sleeper == timers.sleepers[s]
              entries == {i \in InUse : timers.queue[i].entry_id = s}
          IN  sleeper.armed =>
                 \E i \in entries :
                    /\ entries = {i}
                    /\ sleeper.type # "INTERVAL" =>
                          timers.queue[i].resume_time = After(sleeper.sleep_from, sleeper.interval)

\* A SLEEP or TIMEOUT timer that fires ends nothing but a sleep or a wait for which
\* its thread has asked for a time limit: a timer left over from an earlier one
\* does not end a later wait, or a stop, without limit.  And it ends it not before
\* the time of the latest request, counted to the end of the tick, unless the
\* counter overflowed in between.
NotBeforeTime ==
    [][LET sleeper == timers.sleepers[timers.queue[timers.cursor].entry_id]
       IN  /\ pc = "run_commit" /\ pc' # pc /\ timers' # timers
           /\ \/ sleeper.type = "SLEEP" /\ state[sleeper.thread] = "STOPPED"
              \/ sleeper.type = "TIMEOUT" /\ wait_object[sleeper.thread] # None
           => /\ sleeper.thread \notin unlimited
              /\ sleeper.sleep_from + sleeper.interval < TimeMod
                    => ((sched_microtime + TimeMod - sleeper.sleep_from) % TimeMod) + Tick
                          >= sleeper.interval]_allVars

Stuck == pc = "stuck"

\* usleep returns: a thread that is stopped runs again, however the cursor moves
\* over the queue, unless a search spins or an ASSERT stops the kernel.
SleepEnds == \A t \in AppThreads : state[t] = "STOPPED" ~> (state[t] # "STOPPED" \/ Stuck)

\* A wait with a timeout ends, with or without a notification, unless a search
\* spins or an ASSERT stops the kernel.
TimeoutEnds == \A t \in AppThreads : state[t] = "WAITING" ~> (state[t] # "WAITING" \/ Stuck)

------------------------------------------------------------------------------
(***************************************************************************)
(* The inductive invariant behind the theorems of KernelProofs about       *)
(* timers.                                                                 *)
(***************************************************************************)

TimerSteps == {"arm", "arm_commit", "cancel", "cancel_commit", "run", "run_commit", "stuck"}

\* Every variable has its type; what Kernel says of its own steps holds at them.
TimersTyped ==
    /\ TableType /\ SignalType /\ WaitType /\ SwitchType
    /\ pc \in Steps \cup TimerSteps /\ call \in Calls /\ CallOK
    /\ TimersTypeOK

Used(tm) == 0 .. tm.size - 1
EntriesOf(tm) == {tm.queue[i] : i \in Used(tm)}

\* The queue is sorted, and no slot is in it twice.
Ordered(tm) ==
    /\ \A i, j \in Used(tm) : i <= j => tm.queue[i].resume_time <= tm.queue[j].resume_time
    /\ \A i, j \in Used(tm) : tm.queue[i].entry_id = tm.queue[j].entry_id => i = j

\* The armed slots are those with an entry, a single event's under its own time.
Matched(tm) ==
    /\ \A e \in EntriesOf(tm) : tm.sleepers[e.entry_id].armed
    /\ \A s \in Sleepers : tm.sleepers[s].armed =>
          \E e \in EntriesOf(tm) :
             /\ e.entry_id = s
             /\ tm.sleepers[s].type # "INTERVAL" =>
                   e.resume_time = After(tm.sleepers[s].sleep_from, tm.sleepers[s].interval)

\* What was checked and found before a commit stands when it is granted.
SearchStands ==
    /\ pc \in {"arm", "arm_commit"} =>
          /\ timers.size < SLEEPERS_MAX /\ timed.delay \in Delays
          /\ timed.type = "TIMEOUT" => call.obj \in Objects
          /\ timed.type = "INTERVAL" => \A s \in Sleepers : ~Holds(s, "INTERVAL", timed.thread)
    /\ pc = "arm_commit" /\ call.fresh =>
          IF timers.sleepers[timed.slot].armed
          THEN timed.offs \in Used(timers) /\ timers.queue[timed.offs].entry_id = timed.slot
          ELSE timed.offs = None
    /\ pc = "run_commit" /\ call.fresh =>
          timed.due = TimerDue(timers.queue[timers.cursor].resume_time)

TimersInv == TimersTyped /\ Ordered(timers) /\ Matched(timers) /\ SearchStands

\* The entry points in use end a wait by a notification or by its timeout only, and
\* let no thread quit that goes on after a refused yield.
WaitsEndInOrder ==
    Ops \cap {"isr_kill", "init", "exit", "join", "usleep", "setitimer", "setitimer_once"} = {}

\* No interval timer is set again while it runs.
IntervalsSetOnce == "setitimer" \notin Ops

\* Every wait has a time limit, and nobody is stopped but by usleep.
OnlyTimedWaits == Ops \cap {"wait", "waitv", "join", "stop"} = {}

\* A handler neither changes the state of a waiting thread nor switches to one.
NotAmongWaiters ==
    /\ pc \in {"kill", "stop_commit", "continue_commit", "wait_commit",
               "stack", "stack_commit", "construct"} => state[call.tgt] # "WAITING"
    /\ pc \in {"alloc_commit", "yield_commit"} => state[call.cand] # "WAITING"
    /\ pc = "yield_commit" => call.cand # thread_current
    /\ pendsv => state[thread_next] # "WAITING" /\ thread_next # thread_current

\* Whoever starts to wait is the current thread, and waits for an object.
WaitsForObject ==
    /\ pc \in {"wait", "wait_commit", "arm", "arm_commit"} => call.obj \in Objects
    /\ pc \in {"wait", "arm", "arm_commit"} => call.tgt \in {None, thread_current}
    /\ pc = "wait_commit" => call.tgt = thread_current
    /\ \A t \in Threads : wait_object[t] \notin Threads

\* Every timer is a timeout.
OnlyTimeouts ==
    /\ pc \in {"arm", "arm_commit"} => timed.type = "TIMEOUT"
    /\ \A s \in Sleepers : timers.sleepers[s].armed => timers.sleepers[s].type = "TIMEOUT"

OrderlyWaits == WaitersAreWaiting /\ pc \notin InitSteps /\ NotAmongWaiters /\ WaitsForObject

WaitingInv == OrderlyWaits /\ OnlyTimeouts
==============================================================================
