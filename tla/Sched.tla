------------------------------- MODULE Sched -------------------------------
(***************************************************************************)
(* Threads, stacks and the scheduler of the CMRX kernel                    *)
(* (src/os/kernel/sched.c, context.c, signal.c).                           *)
(*                                                                         *)
(* A system call handler runs in steps.  `pc' names the point it has       *)
(* reached; between two steps interrupts are enabled, so a device          *)
(* interrupt may run there.  A critical section (os_txn_commit granted, or *)
(* os_txn_start_commit, up to os_txn_done) is one step, for it runs with   *)
(* interrupts disabled.  call.fresh says whether os_txn_current_id still   *)
(* equals the handle of the open transaction: module Txn shows that this   *)
(* is exactly "no read-write commit since os_txn_start" while the counter  *)
(* has not wrapped.                                                        *)
(***************************************************************************)
EXTENDS Integers, Sequences, FiniteSets

CONSTANTS
    OS_THREADS,     \* slots of the thread table
    OS_STACKS,      \* stacks
    Autostart,      \* priorities of the threads _os_start creates
    Priorities,     \* priorities applications use
    Objects,        \* objects applications wait for
    None            \* no thread, no object, no stack, no argument

Threads == 0 .. OS_THREADS - 1
Stacks == 0 .. OS_STACKS - 1

\* Width of os_stacks.allocations and of the mask that scans it.
MaskBits == 32

\* Priority of the idle thread; larger numbers are less urgent.
IdlePriority == 255

\* _os_start creates the idle thread right after the autostart threads.
IdleThread == Len(Autostart)

ASSUME TableAssumption ==
    /\ OS_THREADS \in 1 .. 254 /\ OS_STACKS \in 1 .. MaskBits
    /\ Autostart \in Seq(Priorities)
    /\ Len(Autostart) < OS_THREADS /\ Len(Autostart) < OS_STACKS
ASSUME PriorityAssumption == Priorities \subseteq 0 .. IdlePriority - 1
ASSUME NoneAssumption ==
    None \notin Int /\ None \notin Objects /\ Objects \cap Int = {}

VARIABLES
    state, priority, base_priority, stack_id,   \* os_threads[]
    signals,         \* threads with a pending signal (os_threads[].signals)
    handlers,        \* threads with a signal_handler
    wait_object,     \* os_threads[].wait_object (wait_callback is set with it)
    waiters,         \* os_notification_waiters
    pending,         \* pending notifications per object
    allocations,     \* bits set in os_stacks.allocations
    thread_current, thread_next,                \* core[]
    old_task, new_task,                         \* cpu_context
    pendsv,          \* the context switch exception is pending
    cpu,             \* the thread whose registers and stack the CPU uses
    pc,              \* step of the running handler, "user" when there is none
    call             \* its arguments and local variables

tableVars == <<state, priority, base_priority, stack_id, allocations>>
signalVars == <<signals, handlers>>
waitVars == <<wait_object, waiters, pending>>
switchVars == <<thread_current, thread_next, old_task, new_task, pendsv, cpu>>
vars == <<tableVars, signalVars, waitVars, switchVars, pc, call>>

\* Arguments and locals of a handler: the thread and object it works on, the
\* priority and flags it was given, what its search found, the bit stack_mask
\* starts a pass from, and whether its transaction would still be granted.
NoCall == [tgt |-> None, obj |-> None, prio |-> None, flags |-> {},
           cand |-> None, mask |-> 0, fresh |-> TRUE]

Return == pc' = "user" /\ call' = NoCall
Goto(step) == pc' = step
Found(x, step) == pc' = step /\ call' = [call EXCEPT !.cand = x, !.fresh = TRUE]

\* A thread issues a system call.  A pending context switch is taken before
\* thread code runs again; the idle thread issues none.
SVC_Handler ==
    /\ pc = "user"
    /\ ~pendsv
    /\ cpu # IdleThread
    /\ Goto("svc")
    /\ UNCHANGED <<tableVars, signalVars, waitVars, switchVars, call>>

\* os_system_call has entered a handler.
SVC == pc = "svc"

\* Calls that only report: an unknown number, an argument a handler refuses, a
\* target os_kill does not accept, get_tid and the like.
os_system_call_reports ==
    /\ SVC
    /\ Return
    /\ UNCHANGED <<tableVars, signalVars, waitVars, switchVars>>

\* Bound: past the first entry written beyond os_notification_waiters nothing
\* is modelled any more.
WaitersBound == Len(waiters) <= OS_THREADS

------------------------------------------------------------------------------
(***************************************************************************)
(* Choosing the next thread.                                               *)
(***************************************************************************)

RunnableIn(st, t) == st[t] \in {"READY", "RUNNING"}

\* Mutant: the scan starts at slot 0, so the lowest slot always wins.
ScanFromZero(cur, t) == t

\* When the scan that starts behind cur reaches t.
ScanPosition(cur, t) == (t + OS_THREADS - ((cur + 1) % OS_THREADS)) % OS_THREADS

\* Mutant: plain round robin, priorities do not count.
FirstMet(cur, t, st, pr) ==
    /\ RunnableIn(st, t)
    /\ t # cur
    /\ \A u \in Threads : RunnableIn(st, u) => ScanPosition(cur, t) <= ScanPosition(cur, u)

\* t is what the scan settles for: nobody runnable is more urgent, and nobody
\* as urgent is met earlier.
SettlesFor(cur, t, st, pr) ==
    /\ RunnableIn(st, t)
    /\ t # cur
    /\ \A u \in Threads : RunnableIn(st, u) =>
          \/ pr[t] < pr[u]
          \/ pr[t] = pr[u] /\ ScanPosition(cur, t) <= ScanPosition(cur, u)

os_get_next_thread(cur, st, pr) ==
    IF \E t \in Threads : SettlesFor(cur, t, st, pr)
    THEN CHOOSE t \in Threads : SettlesFor(cur, t, st, pr)
    ELSE None

------------------------------------------------------------------------------
(***************************************************************************)
(* Context switch requests.                                                *)
(***************************************************************************)

os_request_context_switch(activate) == pendsv' = activate

schedule_context_switch(from, to) ==
    /\ old_task' = from
    /\ new_task' = to
    /\ os_request_context_switch(TRUE)

\* Mutant: the switch is requested without telling the scheduler's own record.
SwitchUnrecorded(next) ==
    IF next = None
    THEN os_request_context_switch(FALSE) /\ UNCHANGED <<thread_next, old_task, new_task>>
    ELSE schedule_context_switch(thread_current, next) /\ UNCHANGED thread_next

\* The outcome of os_sched_yield once its search result stands.
SwitchTo(next) ==
    IF next = None
    THEN /\ os_request_context_switch(FALSE)
         /\ UNCHANGED <<thread_next, old_task, new_task>>
    ELSE /\ thread_next' = next
         /\ schedule_context_switch(thread_current, next)

os_sched_yield ==
    /\ pc = "yield"
    /\ LET next == os_get_next_thread(thread_current, state, priority)
       IN  Found(next, IF next = None THEN "yield_clear" ELSE "yield_commit")
    /\ UNCHANGED <<tableVars, signalVars, waitVars, switchVars>>

\* A refused commit is not retried: the yield silently does nothing.
os_sched_yield_commit ==
    /\ pc = "yield_commit"
    /\ IF call.fresh
       THEN SwitchTo(call.cand)
       ELSE UNCHANGED <<thread_next, old_task, new_task, pendsv>>
    /\ Return
    /\ UNCHANGED <<tableVars, signalVars, waitVars, thread_current, cpu>>

\* os_request_context_switch(false), outside any transaction.
os_sched_yield_clear ==
    /\ pc = "yield_clear"
    /\ SwitchTo(None)
    /\ Return
    /\ UNCHANGED <<tableVars, signalVars, waitVars, thread_current, cpu>>

sys_sched_yield ==
    /\ SVC
    /\ Goto("yield")
    /\ call' = NoCall
    /\ UNCHANGED <<tableVars, signalVars, waitVars, switchVars>>

\* os_sched_timing_callback: the periodic tick.  It has the priority of the
\* context switch exception, so it preempts thread code only.  No timers are
\* armed here, so os_run_timer returns at once.
SysTick ==
    /\ pc = "user"
    /\ ~pendsv
    /\ Goto("yield")
    /\ UNCHANGED <<tableVars, signalVars, waitVars, switchVars, call>>

------------------------------------------------------------------------------
(***************************************************************************)
(* Ending, stopping and continuing threads.                                *)
(***************************************************************************)

\* Applications address their own threads, not the kernel's idle thread.
AppThreads == Threads \ {IdleThread}

sys_thread_exit ==
    /\ SVC
    /\ Goto("kill")
    /\ call' = [NoCall EXCEPT !.tgt = thread_current]
    /\ UNCHANGED <<tableVars, signalVars, waitVars, switchVars>>

\* os_kill refuses threads in any other state, waiting ones included.
Signallable(t) == state[t] \in {"READY", "RUNNING", "STOPPED"}

\* os_kill with SIGSTOP, SIGCONT and SIGKILL/SIGSEGV goes to `step'.
os_kill_dispatch(step) ==
    /\ SVC
    /\ \E t \in AppThreads :
          /\ Signallable(t)
          /\ call' = [NoCall EXCEPT !.tgt = t]
    /\ Goto(step)
    /\ UNCHANGED <<tableVars, signalVars, waitVars, switchVars>>

sys_kill_SIGSTOP == os_kill_dispatch("stop")
sys_kill_SIGCONT == os_kill_dispatch("continue")
sys_kill_SIGKILL == os_kill_dispatch("kill")

\* os_kill with an application signal marks it and wakes a stopped thread.
sys_kill_signal ==
    /\ SVC
    /\ \E t \in AppThreads :
          /\ Signallable(t)
          /\ signals' = signals \cup {t}
          /\ IF state[t] = "STOPPED"
             THEN Goto("continue") /\ call' = [NoCall EXCEPT !.tgt = t]
             ELSE Return
    /\ UNCHANGED <<tableVars, handlers, waitVars, switchVars>>

os_signal ==
    /\ SVC
    /\ \/ handlers' = handlers \cup {thread_current}
       \/ handlers' = handlers \ {thread_current}
    /\ Return
    /\ UNCHANGED <<tableVars, signals, waitVars, switchVars>>

\* Mutant: the thread keeps the stack that is about to be released.
KillKeepsStack(t) == stack_id' = stack_id

\* The finished thread gives up its stack.
DetachStack(t) == stack_id' = [stack_id EXCEPT ![t] = None]

os_thread_kill ==
    /\ pc = "kill"
    /\ IF state[call.tgt] \in {"EMPTY", "FINISHED"}
       THEN Return /\ UNCHANGED <<state, stack_id>>
       ELSE /\ state' = [state EXCEPT ![call.tgt] = "FINISHED"]
            /\ DetachStack(call.tgt)
            /\ Found(stack_id[call.tgt], "dispose")
    /\ UNCHANGED <<priority, base_priority, allocations,
                   signalVars, waitVars, switchVars>>

os_stack_dispose(stack) == allocations' = allocations \ {stack}

os_thread_kill_dispose ==
    /\ pc = "dispose"
    /\ os_stack_dispose(call.cand)
    /\ Goto("self")
    /\ call' = [NoCall EXCEPT !.tgt = call.tgt]
    /\ UNCHANGED <<state, priority, base_priority, stack_id,
                   signalVars, waitVars, switchVars>>

\* Mutant: a thread that stops or kills itself goes on without yielding.
NeverYield == Return

\* Stopping or killing oneself gives up the CPU.
YieldIfCurrent ==
    IF call.tgt = thread_current
    THEN Goto("yield") /\ call' = NoCall
    ELSE Return

\* The end of os_thread_kill and of os_thread_stop, interrupts enabled again.
yield_if_current ==
    /\ pc = "self"
    /\ YieldIfCurrent
    /\ UNCHANGED <<tableVars, signalVars, waitVars, switchVars>>

os_thread_stop ==
    /\ pc = "stop"
    /\ IF RunnableIn(state, call.tgt)
       THEN Found(None, "stop_commit")
       ELSE Return
    /\ UNCHANGED <<tableVars, signalVars, waitVars, switchVars>>

os_thread_stop_commit ==
    /\ pc = "stop_commit"
    /\ IF call.fresh
       THEN /\ state' = [state EXCEPT ![call.tgt] = "STOPPED"]
            /\ Goto("self")
       ELSE /\ Goto("stop")
            /\ UNCHANGED state
    /\ UNCHANGED call
    /\ UNCHANGED <<priority, base_priority, stack_id, allocations,
                   signalVars, waitVars, switchVars>>

os_thread_continue ==
    /\ pc = "continue"
    /\ IF state[call.tgt] = "STOPPED"
       THEN Found(None, "continue_commit")
       ELSE Return
    /\ UNCHANGED <<tableVars, signalVars, waitVars, switchVars>>

\* A refused commit is not retried, although the loop around it was written
\* for that: the call yields and reports success.
os_thread_continue_commit ==
    /\ pc = "continue_commit"
    /\ state' = IF call.fresh THEN [state EXCEPT ![call.tgt] = "READY"] ELSE state
    /\ Goto("yield")
    /\ call' = NoCall
    /\ UNCHANGED <<priority, base_priority, stack_id, allocations,
                   signalVars, waitVars, switchVars>>

\* Lowering the priority takes effect at once; a raise only changes
\* base_priority.
os_setpriority ==
    /\ SVC
    /\ \E p \in Priorities :
          /\ base_priority' = [base_priority EXCEPT ![thread_current] = p]
          /\ priority' = IF priority[thread_current] < p
                         THEN [priority EXCEPT ![thread_current] = p]
                         ELSE priority
    /\ Goto("yield")
    /\ call' = NoCall
    /\ UNCHANGED <<state, stack_id, allocations, signalVars, waitVars, switchVars>>

\* A finished thread is reaped; otherwise the caller waits for the object that
\* is its OWN thread descriptor (os_threads[current_thread_id]).
os_thread_join ==
    /\ SVC
    /\ WaitersBound
    /\ \E t \in AppThreads :
          IF state[t] = "FINISHED"
          THEN /\ state' = [state EXCEPT ![t] = "EMPTY"]
               /\ Return
          ELSE /\ Goto("wait")
               /\ call' = [NoCall EXCEPT !.obj = thread_current]
               /\ UNCHANGED state
    /\ UNCHANGED <<priority, base_priority, stack_id, allocations,
                   signalVars, waitVars, switchVars>>

------------------------------------------------------------------------------
(***************************************************************************)
(* Creating threads.                                                       *)
(***************************************************************************)

Lowest(S) == CHOOSE x \in S : \A y \in S : x <= y

sys_thread_create ==
    /\ SVC
    /\ \E p \in Priorities : call' = [NoCall EXCEPT !.prio = p]
    /\ Goto("alloc")
    /\ UNCHANGED <<tableVars, signalVars, waitVars, switchVars>>

\* No free slot: E_OUT_OF_THREADS.
os_thread_alloc ==
    /\ pc = "alloc"
    /\ LET empty == {t \in Threads : state[t] = "EMPTY"}
       IN  IF empty = {} THEN Return ELSE Found(Lowest(empty), "alloc_commit")
    /\ UNCHANGED <<tableVars, signalVars, waitVars, switchVars>>

\* memset() of the slot; os_thread_construct follows.
os_thread_alloc_commit ==
    /\ pc = "alloc_commit"
    /\ IF call.fresh
       THEN LET t == call.cand
            IN  /\ stack_id' = [stack_id EXCEPT ![t] = None]
                /\ state' = [state EXCEPT ![t] = "CREATED"]
                /\ signals' = signals \ {t}
                /\ handlers' = handlers \ {t}
                /\ wait_object' = [wait_object EXCEPT ![t] = None]
                /\ priority' = [priority EXCEPT ![t] = call.prio]
                /\ base_priority' = [base_priority EXCEPT ![t] = call.prio]
                /\ Goto("stack")
                /\ call' = [call EXCEPT !.tgt = t, !.cand = None]
       ELSE /\ Goto("alloc")
            /\ UNCHANGED <<stack_id, state, signals, handlers, wait_object,
                           priority, base_priority, call>>
    /\ UNCHANGED <<allocations, waiters, pending, switchVars>>

\* The bit stack_mask has for stack q; none once it was shifted out.
StackMask(q) == {call.mask + q} \cap (0 .. MaskBits - 1)

\* No free stack: E_OUT_OF_STACKS, which __os_thread_create ignores.  The slot
\* stays CREATED and its number is returned as a success.
os_stack_create ==
    /\ pc = "stack"
    /\ LET free == {q \in Stacks : allocations \cap StackMask(q) = {}}
       IN  IF free = {} THEN Return ELSE Found(Lowest(free), "stack_commit")
    /\ UNCHANGED <<tableVars, signalVars, waitVars, switchVars>>

\* A refused commit starts the search over from stack 0, but stack_mask stays
\* where it was.
os_stack_create_commit ==
    /\ pc = "stack_commit"
    /\ IF call.fresh
       THEN /\ allocations' = allocations \cup StackMask(call.cand)
            /\ Goto("construct")
            /\ UNCHANGED call
       ELSE /\ Goto("stack")
            /\ call' = [call EXCEPT !.mask = @ + call.cand]
            /\ UNCHANGED allocations
    /\ UNCHANGED <<state, priority, base_priority, stack_id,
                   signalVars, waitVars, switchVars>>

\* Stores outside any transaction; the state goes last.
os_thread_construct ==
    /\ pc = "construct"
    /\ stack_id' = [stack_id EXCEPT ![call.tgt] = call.cand]
    /\ state' = [state EXCEPT ![call.tgt] = "READY"]
    /\ Return
    /\ UNCHANGED <<priority, base_priority, allocations,
                   signalVars, waitVars, switchVars>>
==============================================================================
