------------------------------- MODULE Kernel -------------------------------
(***************************************************************************)
(* The running kernel on one Cortex-M core: system call handlers, the      *)
(* periodic tick, device interrupts and the context switch exception       *)
(* (src/os/kernel, src/os/arch/arm/cortex.c).                              *)
(*                                                                         *)
(* Exception priorities, from the code and man/02_overview.md: device      *)
(* interrupts preempt system call handlers; the tick and the context       *)
(* switch (PendSV) have the lowest priority and only preempt threads.      *)
(* Device interrupts do not nest.                                          *)
(***************************************************************************)
EXTENDS Notify

CONSTANTS
    Ops     \* the entry points the applications and interrupts of a run use

------------------------------------------------------------------------------
\* _os_start: autostart threads in slots 0.., the idle thread behind them, each
\* with the stack of the same number; os_get_next_thread(0xFF) picks the first.
Init ==
    LET st == [t \in Threads |-> IF t <= IdleThread THEN "READY" ELSE "EMPTY"]
        pr == [t \in Threads |-> IF t < IdleThread THEN Autostart[t + 1]
                                 ELSE IF t = IdleThread THEN IdlePriority ELSE 0]
        first == os_get_next_thread(255, st, pr)
    IN  /\ state = [st EXCEPT ![first] = "RUNNING"]
        /\ priority = pr
        /\ base_priority = pr
        /\ stack_id = [t \in Threads |-> IF t <= IdleThread THEN t ELSE None]
        /\ allocations = 0 .. IdleThread
        /\ signals = {}
        /\ handlers = {}
        /\ wait_object = [t \in Threads |-> None]
        /\ waiters = <<>>
        /\ pending = [o \in Objects |-> 0]
        /\ thread_current = first
        /\ thread_next = 0
        /\ old_task = None
        /\ new_task = None
        /\ pendsv = FALSE
        /\ cpu = first
        /\ pc = "user"
        /\ call = NoCall

\* Mutant: whoever leaves the CPU becomes ready again.
AlwaysReady(st, t) == [st EXCEPT ![t] = "READY"]

\* Only a thread that still runs becomes ready when it leaves the CPU.
Leave(st, t) == IF st[t] = "RUNNING" THEN [st EXCEPT ![t] = "READY"] ELSE st

\* PendSV_Handler / os_perform_thread_switch.  The CPU's stack pointer is stored
\* in old_task and loaded from new_task; the scheduler's view moves from
\* thread_current to thread_next.  Signals of new_task are handed to
\* os_deliver_signal and cleared.
PendSV ==
    /\ pc = "user"
    /\ pendsv
    /\ state' = [Leave(state, thread_current) EXCEPT ![thread_next] = "RUNNING"]
    /\ thread_current' = thread_next
    /\ cpu' = new_task
    /\ os_request_context_switch(FALSE)
    /\ signals' = IF new_task \in handlers THEN signals \ {new_task} ELSE signals
    /\ UNCHANGED <<priority, base_priority, stack_id, allocations, handlers,
                   waitVars, thread_next, old_task, new_task, pc, call>>

\* isr_kill from a device interrupt: no transaction, and the current thread is
\* replaced by hand, without thread_next.
isr_kill ==
    /\ \E t \in AppThreads :
          /\ Signallable(t)
          /\ signals' = signals \cup {t}
          /\ state' = IF state[t] = "STOPPED" THEN [state EXCEPT ![t] = "READY"] ELSE state
          /\ IF priority[t] > priority[thread_current]
             THEN /\ schedule_context_switch(thread_current, t)
                  /\ thread_current' = t
             ELSE UNCHANGED <<old_task, new_task, pendsv, thread_current>>
    /\ UNCHANGED <<priority, base_priority, stack_id, allocations, handlers,
                   waitVars, thread_next, cpu, pc, call>>

------------------------------------------------------------------------------
\* Entry points, by the name a run enables them with.
Syscall ==
    \/ os_system_call_reports
    \/ "yield" \in Ops /\ sys_sched_yield
    \/ "exit" \in Ops /\ sys_thread_exit
    \/ "kill" \in Ops /\ sys_kill_SIGKILL
    \/ "stop" \in Ops /\ sys_kill_SIGSTOP
    \/ "continue" \in Ops /\ sys_kill_SIGCONT
    \/ "signal" \in Ops /\ (sys_kill_signal \/ os_signal)
    \/ "setpriority" \in Ops /\ os_setpriority
    \/ "join" \in Ops /\ os_thread_join
    \/ "create" \in Ops /\ sys_thread_create
    \/ "notify" \in Ops /\ sys_notify_object
    \/ "notify2" \in Ops /\ sys_notify_object2
    \/ "wait" \in Ops /\ sys_wait_for_object
    \/ "waitv" \in Ops /\ sys_wait_for_object_value
    \/ "init" \in Ops /\ sys_init_waitable_object

\* The steps of a handler that has been entered.
HandlerStep ==
    \/ os_sched_yield \/ os_sched_yield_commit \/ os_sched_yield_clear
    \/ os_thread_kill \/ os_thread_kill_dispose
    \/ os_thread_stop \/ os_thread_stop_commit \/ yield_if_current
    \/ os_thread_continue \/ os_thread_continue_commit
    \/ os_thread_alloc \/ os_thread_alloc_commit
    \/ os_stack_create \/ os_stack_create_commit \/ os_thread_construct
    \/ os_notify_object \/ os_notify_object_commit
    \/ os_wait_for_object \/ os_wait_for_object_commit
    \/ os_initialize_waitable_object \/ os_initialize_waitable_object_commit
    \/ os_initialize_waitable_object_clear
    \/ os_initialize_waitable_object_clear_commit

Interrupt ==
    \/ "isr_notify" \in Ops /\ isr_notify_object
    \/ "isr_kill" \in Ops /\ isr_kill

Next == SVC_Handler \/ Syscall \/ HandlerStep \/ Interrupt \/ SysTick \/ PendSV

Spec == Init /\ [][Next]_vars

\* A handler keeps running and a pending switch is taken: hardware executes
\* them.  The tick recurs; it is pended while it cannot be taken.
Fairness == WF_vars(Syscall \/ HandlerStep) /\ WF_vars(PendSV) /\ SF_vars(SysTick)

FairSpec == Spec /\ Fairness

------------------------------------------------------------------------------
(***************************************************************************)
(* Properties.                                                             *)
(***************************************************************************)

States == {"EMPTY", "CREATED", "READY", "RUNNING", "WAITING", "STOPPED", "FINISHED"}

Steps == {"user", "svc", "self", "yield", "yield_commit", "yield_clear", "kill", "dispose",
          "stop", "stop_commit", "continue", "continue_commit",
          "alloc", "alloc_commit", "stack", "stack_commit", "construct",
          "notify", "notify_commit", "wait", "wait_commit",
          "init", "init_commit", "clear", "clear_commit"}

Calls == [tgt : Threads \cup {None}, obj : Objects \cup Threads \cup {None},
          prio : Priorities \cup {None}, flags : SUBSET {"QUEUE", "DROP"},
          cand : Nat \cup {None}, mask : Nat, fresh : BOOLEAN]

TableType ==
    /\ state \in [Threads -> States]
    /\ priority \in [Threads -> 0 .. IdlePriority]
    /\ base_priority \in [Threads -> 0 .. IdlePriority]
    /\ stack_id \in [Threads -> Stacks \cup {None}]
    /\ allocations \in SUBSET (0 .. MaskBits - 1)

SignalType == signals \in SUBSET Threads /\ handlers \in SUBSET Threads

WaitType ==
    /\ wait_object \in [Threads -> Objects \cup Threads \cup {None}]
    /\ waiters \in Seq(Threads)
    /\ pending \in [Objects -> Nat]

SwitchType ==
    /\ thread_current \in Threads
    /\ thread_next \in Threads
    /\ old_task \in Threads \cup {None}
    /\ new_task \in Threads \cup {None}
    /\ pendsv \in BOOLEAN
    /\ cpu \in Threads \cup {None}

\* Every variable has its type: numbers stay in the tables they index, and
\* counters do not go below zero.
TypeOK ==
    /\ TableType
    /\ SignalType
    /\ WaitType
    /\ SwitchType
    /\ pc \in Steps
    /\ call \in Calls

\* The stack a handler has taken from the pool and not given to its thread yet,
\* or taken from its thread and not returned to the pool yet.
InTransit == IF pc \in {"construct", "dispose"} THEN {call.cand} \ {None} ELSE {}

\* Stacks are neither shared, lost nor freed while in use: every allocated
\* stack has exactly one owner, a thread or the handler that moves it, through any
\* sequence of thread_create, thread_exit and kill.  It holds as long as no device
\* interrupt notifies beside thread_create: a refused os_stack_create goes on with
\* the mask of its first search and gives out a stack that is not free.
StackOwnership ==
    /\ \A t, u \in Threads : stack_id[t] # None /\ stack_id[t] = stack_id[u] => t = u
    /\ \A t \in Threads : stack_id[t] \notin InTransit
    /\ allocations = ({stack_id[t] : t \in Threads} \ {None}) \cup InTransit

Live(t) == state[t] \in {"READY", "RUNNING", "WAITING", "STOPPED"}

\* A thread that may ever be given the CPU has a stack to run on.
LiveHasStack == \A t \in Threads : Live(t) => stack_id[t] # None

AtRest == pc = "user" /\ ~pendsv

\* When no handler runs and no switch is pending, the CPU executes the thread
\* the scheduler believes to be current, and this is the only RUNNING thread:
\* the assertions of os_sched_timing_callback.
CurrentThreadRuns ==
    AtRest => /\ cpu = thread_current
              /\ \A t \in Threads : state[t] = "RUNNING" <=> t = thread_current

\* A pending switch saves the thread that is on the CPU and loads a runnable
\* thread with a stack, the one the scheduler will call current.
SwitchIsConsistent ==
    pendsv => /\ old_task = cpu
              /\ cpu = thread_current
              /\ new_task = thread_next
              /\ RunnableIn(state, new_task)
              /\ stack_id[new_task] # None

\* "CPU time is always allocated to thread(s) with highest priority that are
\* runnable" (man/02_overview.md).
MostUrgentRuns ==
    AtRest => \A t \in Threads :
                 RunnableIn(state, t) => priority[thread_current] <= priority[t]

\* os_notification_waiters lists every waiting thread once and nobody else; the
\* search in os_find_notified_thread_waiter asserts half of it.
WaitersAreWaiting ==
    /\ \A t \in Threads : state[t] = "WAITING" =>
          wait_object[t] # None /\ \E i \in DOMAIN waiters : waiters[i] = t
    /\ \A i \in DOMAIN waiters : state[waiters[i]] = "WAITING"
    /\ \A i, j \in DOMAIN waiters : waiters[i] = waiters[j] => i = j

\* No lost wakeup: a notification is not kept for later while a thread waits
\* for the same object, wherever interrupts hit wait_for_object and
\* notify_object.
NoLostWakeup ==
    \A t \in AppThreads : wait_object[t] \in Objects => pending[wait_object[t]] = 0

\* A notification wakes nobody but the most urgent waiter of its object, as of
\* the moment of waking, even if the search was made before an interrupt.
\* (Initialising an object anew wakes all of them.)
WakesMostUrgent ==
    [][\A t \in Threads :
          pc # "init_commit" /\ wait_object[t] \in Objects /\ wait_object'[t] = None =>
             \A u \in Threads : wait_object[u] = wait_object[t] =>
                                   priority[t] <= priority[u]]_vars

\* A signal, or SIGCONT, that found its target stopped has woken it by the time
\* os_thread_continue goes on to yield, whatever interrupted it: "arrival of
\* signal will wake thread up, if it is stopped" (ipc/signal.h).  A device
\* interrupt that notifies before the commit breaks it.
SignalWakes ==
    [][pc = "continue_commit" /\ pc' # pc => state'[call.tgt] # "STOPPED"]_vars

Gone(t) == state[t] \in {"EMPTY", "FINISHED"}

\* Round robin: a thread that stays READY while nobody more urgent is runnable
\* gets the CPU.
NoStarvation ==
    \A t \in Threads :
        ~ <>[](/\ state[t] = "READY"
               /\ \A u \in Threads : RunnableIn(state, u) => priority[t] <= priority[u])

------------------------------------------------------------------------------
(***************************************************************************)
(* The inductive invariants behind the theorems of KernelProofs.           *)
(***************************************************************************)

\* What the arguments and locals of a handler are at each of its steps.
CallOK ==
    /\ pc \in {"kill", "self", "stop", "stop_commit", "continue", "continue_commit",
               "dispose", "stack", "stack_commit", "construct", "wait_commit",
               "init", "init_commit"} => call.tgt \in Threads
    /\ pc \in {"alloc", "alloc_commit"} => call.prio \in Priorities
    /\ pc \in {"alloc_commit", "yield_commit"} => call.cand \in Threads
    /\ pc \in {"stack_commit", "construct"} => call.cand \in Stacks
    /\ pc = "dispose" => call.cand \in Stacks \cup {None}
    /\ pc \in {"notify", "notify_commit", "init", "init_commit",
               "clear", "clear_commit"} => call.obj \in Objects
    /\ pc \in {"wait", "wait_commit"} => call.obj \in Objects \cup Threads
    /\ pc = "notify_commit" /\ call.fresh => call.cand \in DOMAIN waiters \cup {None}

TypeInv == TypeOK /\ CallOK

\* A slot that thread_create may take, or has taken and not finished yet, owns no
\* stack, and its search for one was never interrupted.
CreationOwnsNothing ==
    /\ \A t \in Threads : Gone(t) => stack_id[t] = None
    /\ pc = "alloc_commit" => stack_id[call.cand] = None
    /\ pc \in {"stack", "stack_commit", "construct"} => stack_id[call.tgt] = None
    /\ pc \in {"alloc", "alloc_commit", "stack", "stack_commit"} =>
          "create" \in Ops /\ call.mask = 0 /\ call.fresh
    /\ pc = "stack_commit" => call.cand \notin allocations

StackInv == TypeInv /\ StackOwnership /\ CreationOwnsNothing

\* Whoever waits is listed, with a priority the search for waiters can see, and
\* what the search found stands as long as the commit would be granted.
WaitersAreFound ==
    /\ \A t \in Threads : wait_object[t] # None => \E i \in DOMAIN waiters : waiters[i] = t
    /\ \A t \in AppThreads : priority[t] < IdlePriority /\ base_priority[t] < IdlePriority
    /\ pc = "notify_commit" /\ call.fresh =>
          call.cand = os_find_notified_thread_waiter(call.obj)

WakeupInv == WaitersAreFound /\ NoLostWakeup

\* No device interrupt uses the kernel and no object is initialised anew.
Undisturbed == Ops \cap {"isr_notify", "isr_kill", "init"} = {}

InitSteps == {"init", "init_commit", "clear", "clear_commit"}
YieldSteps == {"yield", "yield_commit", "yield_clear"}

\* The current thread has given up the CPU and the handler is on its way to yield.
GivingUp ==
    /\ thread_current # IdleThread
    /\ \/ pc \in {"yield", "yield_commit"}
       \/ pc \in {"dispose", "self"} /\ call.tgt = thread_current

\* The CPU, the scheduler's record and the states agree: nobody but the current
\* thread is RUNNING, and it is, unless it is about to leave the CPU to somebody.
OneRunning ==
    /\ cpu = thread_current
    /\ \A t \in Threads : state[t] = "RUNNING" => t = thread_current
    /\ state[thread_current] = "RUNNING" \/ pendsv \/ GivingUp
    /\ state[thread_current] # "READY"
    /\ RunnableIn(state, IdleThread)
    /\ thread_current = IdleThread => pc \in {"user"} \cup YieldSteps

\* A switch is requested at the end of a handler, for somebody who can run.
RequestStands ==
    pendsv => /\ pc = "user"
              /\ old_task = thread_current /\ new_task = thread_next
              /\ RunnableIn(state, thread_next) /\ thread_next # thread_current

\* What a handler has checked still holds when it acts on it.
CheckedStands ==
    /\ call.fresh = TRUE
    /\ pc \notin InitSteps
    /\ pc = "yield_commit" => SettlesFor(thread_current, call.cand, state, priority)
    /\ pc = "kill" => Signallable(call.tgt) /\ call.tgt # IdleThread
    /\ pc = "stop" => call.tgt # IdleThread
    /\ pc = "stop_commit" => RunnableIn(state, call.tgt) /\ call.tgt # IdleThread
    /\ pc = "continue_commit" => state[call.tgt] = "STOPPED"
    /\ pc = "wait" => call.tgt = None
    /\ pc = "wait_commit" => call.tgt = thread_current
    /\ pc = "alloc_commit" => state[call.cand] = "EMPTY"
    /\ pc \in {"stack", "stack_commit", "construct"} => state[call.tgt] = "CREATED"

ScheduleInv ==
    /\ OneRunning /\ RequestStands /\ CheckedStands
    /\ WaitersAreWaiting /\ LiveHasStack

MostUrgent(t) == \A u \in Threads : RunnableIn(state, u) => priority[t] <= priority[u]

\* Whoever runs outside of a yield, or is about to be switched to, is the most
\* urgent of those that can run.
UrgentInv ==
    /\ pc \notin {"alloc", "alloc_commit", "stack", "stack_commit", "construct"}
    /\ pc \notin YieldSteps /\ ~pendsv /\ state[thread_current] = "RUNNING" =>
          MostUrgent(thread_current)
    /\ pc = "yield_clear" => MostUrgent(thread_current)
    /\ pendsv => MostUrgent(thread_next)
==============================================================================
