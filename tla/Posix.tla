------------------------------- MODULE Posix -------------------------------
(***************************************************************************)
(* The Linux port (arch/linux): every CMRX thread is hosted by a POSIX     *)
(* thread, and exceptions are signals that the hosts handle.  SIGURG is    *)
(* the system call, SIGALRM the tick, SIGUSR2 an interrupt and SIGUSR1 the *)
(* deferred thread switch.  Hosts really run in parallel; what keeps all   *)
(* but one of them off the kernel are the signal masks, the pipe each of   *)
(* them blocks on and the flag is_suspended.                               *)
(*                                                                         *)
(* Kernel operations are cut down to what they do to thread states.        *)
(***************************************************************************)
EXTENDS Naturals, Sequences, SequencesExt, FiniteSets

CONSTANTS
    OS_THREADS,     \* slots in the thread table
    Autostart,      \* threads created by _os_start; the greatest is the idle thread
    Priority,       \* per slot; the idle thread comes last
    Operations,     \* system calls the threads make
    MaxDepth,       \* RPC calls in progress that fit a thread's rpc_stack
    MaxInterrupts   \* bound: how often generate_interrupt is called

Threads == 0 .. OS_THREADS - 1
Idle == CHOOSE t \in Autostart : \A u \in Autostart : u <= t

ASSUME PosixAssumption ==
    /\ OS_THREADS \in Nat \ {0} /\ Autostart \subseteq Threads /\ Autostart # {}
    /\ Priority \in [Threads -> Nat]
    /\ \A t \in Threads \ {Idle} : Priority[t] < Priority[Idle]
    /\ Operations \subseteq {"yield", "wait", "wake", "create", "exit", "rpc_call"}
    /\ MaxDepth \in Nat /\ MaxInterrupts \in Nat

VARIABLES
    thread_current, thread_next, thread_prev,
    kernel_execute_thread_switch,
    state,          \* per thread, from os_threads
    is_suspended,   \* per thread, from its Arch_State_t
    block_pipe,     \* per thread, bytes in its pipe
    syscall,        \* per thread, the buffer of the call it makes
    depth,          \* per thread, RPC calls in progress
    frames,         \* per host, the functions it is in: [in, at], innermost last
    pending,        \* per host, signals sent to it
    search,         \* per host and handler, what its os_sched_yield has found
    interrupt_flags,\* is the one interrupt there is flagged?
    raised,         \* is SIGUSR2 pending for the process?
    aborted,        \* "no", or the assertion that failed
    interrupts      \* history: calls of generate_interrupt

kernelVars == <<thread_current, thread_next, thread_prev, kernel_execute_thread_switch,
                state>>
hostVars == <<is_suspended, block_pipe, frames, pending>>
callVars == <<syscall, depth>>
irqVars == <<search, interrupt_flags, raised>>
vars == <<kernelVars, hostVars, callVars, irqVars, aborted, interrupts>>

------------------------------------------------------------------------------
(***************************************************************************)
(* Signals.                                                                *)
(***************************************************************************)

Handlers == {"USR1", "URG", "ALRM", "USR2"}

\* The masks the handlers are installed with and their own signals, and the mask
\* a host is born with.
Masks ==
    [URG |-> {"URG", "USR1", "ALRM"}, ALRM |-> {"ALRM", "USR1"}, USR2 |-> {"USR2", "ALRM"},
     USR1 |-> {"USR1", "URG", "USR2", "ALRM"}, start |-> {"ALRM", "USR1", "URG"}, user |-> {}]

\* Mutants: system calls leave the tick enabled; hosts are born with the tick
\* enabled; ticks may nest; threads make their calls with SIGURG blocked;
\* a thread switch leaves the tick enabled.
TickPreemptsCalls(function) == [Masks EXCEPT !.URG = {"URG", "USR1"}][function]
TickReachesUnstarted(function) == [Masks EXCEPT !.start = {"USR1", "URG"}][function]
TickNests(function) == [Masks EXCEPT !.ALRM = {"USR1"}][function]
TickPreemptsSwitch(function) == [Masks EXCEPT !.USR1 = {"USR1", "URG", "USR2"}][function]
CallsStayBlocked(function) == [Masks EXCEPT !.user = {"URG"}][function]

\* What a host blocks because of a function it is in.
Mask(function) == Masks[function]

Blocked(t) == UNION {Mask(frames[t][i].in) : i \in 1 .. Len(frames[t])}

\* A signal a host sends itself is taken before anything else it does.
Free(t) == aborted = "no" /\ pending[t] \subseteq Blocked(t)

In(t, function, at) == frames[t] # <<>> /\ Last(frames[t]) = [in |-> function, at |-> at]

GotoAt(t, at) == [frames EXCEPT ![t] = Front(@) \o <<[in |-> Last(@).in, at |-> at]>>]

Returned(t) == [frames EXCEPT ![t] = Front(@)]

Entered(t, function) ==
    Append(frames[t], [in |-> function,
                       at |-> IF function = "USR1" THEN "switch" ELSE "handle"])

DeliverPending(t, s) ==
    /\ aborted = "no" /\ frames[t] # <<>>
    /\ s \in pending[t] \ Blocked(t)
    /\ pending' = [pending EXCEPT ![t] = @ \ {s}]
    /\ frames' = [frames EXCEPT ![t] = Entered(t, s)]
    /\ UNCHANGED <<kernelVars, is_suspended, block_pipe, callVars, irqVars, aborted>>

\* The system prefers the signals sent to a thread over those sent to the
\* process, and any host that does not block one of the latter may get it.
Delivered(t, s) ==
    /\ Free(t) /\ frames[t] # <<>>
    /\ s \notin Blocked(t)
    /\ frames' = [frames EXCEPT ![t] = Entered(t, s)]
    /\ UNCHANGED <<kernelVars, is_suspended, block_pipe, pending, callVars, search>>

\* The timer of timing_provider_schedule expires.  That a tick waited until a host
\* took it cannot be told from its coming late.
TimerExpires(t) ==
    /\ Delivered(t, "ALRM")
    /\ UNCHANGED <<interrupt_flags, raised, aborted>>

\* Called by whatever emulates the hardware; SIGUSR2 goes to the process.
generate_interrupt ==
    /\ interrupts < MaxInterrupts /\ aborted = "no"
    /\ interrupts' = interrupts + 1
    /\ interrupt_flags' = TRUE /\ raised' = TRUE
    /\ UNCHANGED <<kernelVars, hostVars, callVars, search, aborted>>

InterruptTaken(t) ==
    /\ raised /\ raised' = FALSE
    /\ Delivered(t, "USR2")
    /\ UNCHANGED <<interrupt_flags, aborted>>

\* The main thread, which sleeps in os_boot_thread, leaves SIGUSR2 unblocked but
\* hosts no thread: irq_handler's assertion fails.
InterruptTakenByMain ==
    /\ aborted = "no" /\ raised /\ raised' = FALSE
    /\ aborted' = "irq"
    /\ UNCHANGED <<kernelVars, hostVars, callVars, search, interrupt_flags>>

------------------------------------------------------------------------------
(***************************************************************************)
(* Suspending and resuming hosts.                                          *)
(***************************************************************************)

\* thread_suspend_execution, both as the first thing a host does and as the
\* end of a thread switch.
Suspends(t) == In(t, "USR1", "suspend") \/ In(t, "start", "suspend")

thread_suspend_execution(t) ==
    /\ Free(t) /\ Suspends(t)
    /\ is_suspended' = [is_suspended EXCEPT ![t] = TRUE]
    /\ frames' = GotoAt(t, "read")
    /\ UNCHANGED <<kernelVars, block_pipe, pending, callVars, irqVars, aborted>>

SuspendRead(t) ==
    /\ Free(t) /\ (In(t, "USR1", "read") \/ In(t, "start", "read"))
    /\ block_pipe[t] > 0
    /\ block_pipe' = [block_pipe EXCEPT ![t] = @ - 1]
    /\ frames' = GotoAt(t, "resumed")
    /\ UNCHANGED <<kernelVars, is_suspended, pending, callVars, irqVars, aborted>>

\* A host that was just started goes on at once.
AfterResume(t) == IF Last(frames[t]).in = "start" THEN "unblock" ELSE "wait"

SuspendEnds(t) ==
    /\ Free(t) /\ (In(t, "USR1", "resumed") \/ In(t, "start", "resumed"))
    /\ is_suspended' = [is_suspended EXCEPT ![t] = FALSE]
    /\ frames' = GotoAt(t, AfterResume(t))
    /\ UNCHANGED <<kernelVars, block_pipe, pending, callVars, irqVars, aborted>>

thread_startup_handler(t) ==
    /\ Free(t) /\ In(t, "start", "unblock")
    /\ frames' = [frames EXCEPT ![t] = <<[in |-> "user", at |-> "run"]>>]
    /\ UNCHANGED <<kernelVars, is_suspended, block_pipe, pending, callVars, irqVars, aborted>>

\* thread_switch_handler up to the hand-over, which is the write to the pipe.
thread_switch_handler(t) ==
    /\ Free(t) /\ In(t, "USR1", "switch")
    /\ IF thread_current = thread_next
       THEN /\ frames' = Returned(t)
            /\ UNCHANGED <<state, thread_prev, thread_current>>
       ELSE /\ state' = [state EXCEPT ![thread_current] = IF @ = "RUNNING" THEN "READY" ELSE @,
                                      ![thread_next] = "RUNNING"]
            /\ thread_prev' = thread_current
            /\ thread_current' = thread_next
            /\ frames' = GotoAt(t, "resume")
    /\ UNCHANGED <<thread_next, kernel_execute_thread_switch,
                   is_suspended, block_pipe, pending, callVars, irqVars, aborted>>

\* Has the host of a thread been started?
Unstarted(t) == frames[t] # <<>> /\ frames[t][1].in = "start"

thread_resume_execution(t) ==
    /\ Free(t) /\ In(t, "USR1", "resume")
    /\ IF is_suspended[thread_current]
       THEN /\ block_pipe' = [block_pipe EXCEPT ![thread_current] = @ + 1]
            /\ frames' = GotoAt(t, "suspend")
            /\ UNCHANGED aborted
       ELSE /\ aborted' = "resume"
            /\ UNCHANGED <<block_pipe, frames>>
    /\ UNCHANGED <<kernelVars, is_suspended, pending, callVars, irqVars>>

SwitchWaits(t) ==
    /\ Free(t) /\ In(t, "USR1", "wait")
    /\ is_suspended[thread_prev]
    /\ frames' = GotoAt(t, "signal")
    /\ UNCHANGED <<kernelVars, is_suspended, block_pipe, pending, callVars, irqVars, aborted>>

\* If the thread has a CMRX signal its handler, user code, runs here.
SwitchSignals(t) ==
    /\ Free(t) /\ In(t, "USR1", "signal")
    /\ frames' = Returned(t)
    /\ UNCHANGED <<kernelVars, is_suspended, block_pipe, pending, callVars, irqVars, aborted>>

------------------------------------------------------------------------------
(***************************************************************************)
(* What the kernel does within a handler.                                  *)
(***************************************************************************)

\* The most urgent thread, and of several the one that follows the current.
Runnable(st) == {t \in Threads : st[t] \in {"READY", "RUNNING"}}
Distance(t) == (t + OS_THREADS - thread_current) % OS_THREADS
Precedes(t, u) ==
    \/ Priority[t] < Priority[u]
    \/ /\ Priority[t] = Priority[u]
       /\ Distance(t) # 0 /\ (Distance(u) = 0 \/ Distance(t) <= Distance(u))

os_get_next_thread ==
    CHOOSE t \in Runnable(state) : \A u \in Runnable(state) \ {t} : Precedes(t, u)

\* The handlers that enter the kernel.
Serving == {"URG", "ALRM", "USR2"}

NoSearch == [thread |-> Idle, fresh |-> FALSE]

\* Every transaction that commits outdates the searches that are under way.
Outdated == [t \in Threads |-> [h \in Serving |-> [search[t][h] EXCEPT !.fresh = FALSE]]]

\* A system call returns its result through the buffer of the call.
Served(t, call) ==
    IF Last(frames[t]).in = "URG" THEN [call EXCEPT ![t].retval = "served"] ELSE call

\* The kernel has done its work; what is left is clearing the interrupt's flag
\* and looking at kernel_execute_thread_switch.
Finished(t) == IF Last(frames[t]).in = "USR2" THEN "served" ELSE "trigger"

Finish(t, call) == frames' = GotoAt(t, Finished(t)) /\ syscall' = Served(t, call)

\* os_sched_yield's search; it clears the flag if there is nothing to switch to.
os_sched_yield(t, h) ==
    /\ Free(t) /\ In(t, h, "yield")
    /\ IF os_get_next_thread # thread_current
       THEN /\ search' = [search EXCEPT ![t][h] = [thread |-> os_get_next_thread, fresh |-> TRUE]]
            /\ frames' = GotoAt(t, "commit")
            /\ UNCHANGED <<kernel_execute_thread_switch, syscall>>
       ELSE /\ kernel_execute_thread_switch' = FALSE
            /\ Finish(t, syscall)
            /\ UNCHANGED search
    /\ UNCHANGED <<thread_current, thread_next, thread_prev, state, is_suspended, block_pipe,
                   pending, depth, interrupt_flags, raised, aborted>>

\* os_sched_yield's commit is refused if another was granted since the search
\* began, and then no switch is requested.  os_core_lock does nothing in this
\* port: a commit that comes just after the counter was compared passes unnoticed.
YieldCommits(t, h) ==
    /\ Free(t) /\ In(t, h, "commit")
    /\ \/ /\ thread_prev' = thread_current
          /\ thread_next' = search[t][h].thread
          /\ kernel_execute_thread_switch' = TRUE
          /\ search' = [Outdated EXCEPT ![t][h] = NoSearch]
       \/ /\ ~search[t][h].fresh
          /\ search' = [search EXCEPT ![t][h] = NoSearch]
          /\ UNCHANGED <<thread_prev, thread_next, kernel_execute_thread_switch>>
    /\ Finish(t, syscall)
    /\ UNCHANGED <<thread_current, state, is_suspended, block_pipe, pending, depth,
                   interrupt_flags, raised, aborted>>

Yields(t) == frames' = GotoAt(t, "yield")

\* A thread that blocks or ends gives up the CPU.
CallLeaves(t, call, st) ==
    /\ state' = [state EXCEPT ![t] = st]
    /\ Yields(t) /\ syscall' = call /\ search' = Outdated

\* os_wait_for_object consumes a notification that was recorded, or blocks.
os_wait_for_object(t, call) ==
    \/ Finish(t, call) /\ search' = Outdated /\ UNCHANGED state
    \/ CallLeaves(t, call, "WAITING")

\* cb_syscall_notify_object: a thread that is still current stays RUNNING.
Woken(u) == [state EXCEPT ![u] = IF u = thread_current THEN "RUNNING" ELSE "READY"]

\* os_notify_object records the notification or wakes a waiter, and yields only
\* to a more urgent one.
os_notify_object(t, call) ==
    /\ search' = Outdated
    /\ \/ UNCHANGED state /\ Finish(t, call)
       \/ \E u \in Threads :
             /\ state[u] = "WAITING" /\ state' = Woken(u)
             /\ IF Priority[u] < Priority[thread_current]
                THEN Yields(t) /\ syscall' = call
                ELSE Finish(t, call)

\* os_thread_alloc and os_thread_initialize_arch, which spins until the host it
\* creates is suspended.
CallCreate(t, call) ==
    LET free == {u \in Threads : state[u] = "EMPTY"}
    IN  IF free = {}
        THEN Finish(t, call) /\ UNCHANGED <<state, is_suspended, search>>
        ELSE LET u == CHOOSE u \in free : \A v \in free : u <= v
             IN  /\ state' = [state EXCEPT ![u] = "CREATED"]
                 /\ is_suspended' = [is_suspended EXCEPT ![u] = FALSE]
                 /\ frames' = [GotoAt(t, "spawn") EXCEPT
                                 ![u] = <<[in |-> "start", at |-> "suspend"]>>]
                 /\ syscall' = call /\ search' = Outdated

os_thread_initialize_arch(t) ==
    /\ Free(t) /\ In(t, "URG", "spawn")
    /\ \E u \in Threads :
          /\ state[u] = "CREATED" /\ is_suspended[u]
          /\ state' = [state EXCEPT ![u] = "READY"]
    /\ Finish(t, syscall) /\ search' = Outdated
    /\ UNCHANGED <<thread_current, thread_next, thread_prev, kernel_execute_thread_switch,
                   is_suspended, block_pipe, pending, depth, interrupt_flags, raised, aborted>>

\* os_rpc_call sets the outcome unless it refuses the call; so does, in the
\* other direction, os_rpc_return.
Outcome(t) ==
    IF syscall[t].id = "rpc_call" /\ depth[t] < MaxDepth THEN "RPC_CALL" ELSE "RETURN"

AfterCall(t) ==
    CASE syscall[t].id = "rpc_call" /\ depth[t] < MaxDepth -> depth[t] + 1
      [] syscall[t].id = "rpc_return" /\ depth[t] > 0 -> depth[t] - 1
      [] OTHER -> depth[t]

CallResult(t) == [syscall EXCEPT ![t].outcome = Outcome(t)]

\* SIGUSR2 is not masked here: an interrupt may come between any two steps.
kernel_service_handler(t) ==
    /\ Free(t) /\ In(t, "URG", "handle")
    /\ LET id == syscall[t].id
           call == CallResult(t)
       IN  \/ /\ id = "yield"
              /\ Yields(t) /\ syscall' = call /\ UNCHANGED <<state, is_suspended, search>>
           \/ id = "wait" /\ os_wait_for_object(t, call) /\ UNCHANGED is_suspended
           \/ id = "exit" /\ CallLeaves(t, call, "FINISHED") /\ UNCHANGED is_suspended
           \/ id = "wake" /\ os_notify_object(t, call) /\ UNCHANGED is_suspended
           \/ id = "create" /\ CallCreate(t, call)
           \/ /\ id \in {"rpc_call", "rpc_return"}
              /\ Finish(t, call) /\ UNCHANGED <<state, is_suspended, search>>
    /\ depth' = [depth EXCEPT ![t] = AfterCall(t)]
    /\ UNCHANGED <<thread_current, thread_next, thread_prev, kernel_execute_thread_switch,
                   block_pipe, pending, interrupt_flags, raised, aborted>>

\* The tick asserts that the current thread, and it alone, is RUNNING, runs the
\* timers, which may end a thread's wait, and reschedules.
sigalrm_handler(t) ==
    /\ Free(t) /\ In(t, "ALRM", "handle")
    /\ IF {u \in Threads : state[u] = "RUNNING"} # {thread_current}
       THEN aborted' = "tick" /\ UNCHANGED <<state, search, frames>>
       ELSE /\ \/ UNCHANGED <<state, search>>
               \/ \E u \in Threads :
                     state[u] = "WAITING" /\ state' = Woken(u) /\ search' = Outdated
            /\ Yields(t) /\ UNCHANGED aborted
    /\ UNCHANGED <<thread_current, thread_next, thread_prev, kernel_execute_thread_switch,
                   is_suspended, block_pipe, pending, callVars, interrupt_flags, raised>>

\* The application's handler, if the interrupt is flagged, may notify an object.
irq_handler(t) ==
    /\ Free(t) /\ In(t, "USR2", "handle")
    /\ \/ Finish(t, syscall) /\ UNCHANGED <<state, search>>
       \/ interrupt_flags /\ os_notify_object(t, syscall)
    /\ UNCHANGED <<thread_current, thread_next, thread_prev, kernel_execute_thread_switch,
                   is_suspended, block_pipe, pending, depth, interrupt_flags, raised, aborted>>

\* The flag is cleared whether or not it was seen.
InterruptServed(t) ==
    /\ Free(t) /\ In(t, "USR2", "served")
    /\ interrupt_flags' = FALSE
    /\ frames' = GotoAt(t, "trigger")
    /\ UNCHANGED <<kernelVars, is_suspended, block_pipe, pending, callVars, search, raised,
                   aborted>>

\* Mutant: the flag is cleared before it is tested.
TriggerForgets(t) ==
    /\ Free(t) /\ \E h \in Handlers : In(t, h, "trigger")
    /\ kernel_execute_thread_switch' = FALSE
    /\ frames' = Returned(t)
    /\ UNCHANGED <<thread_current, thread_next, thread_prev, state, is_suspended,
                   block_pipe, pending, callVars, irqVars, aborted>>

\* SIGUSR1 is sent to the host itself; only then is the flag cleared.
trigger_pendsv_if_needed(t) ==
    /\ Free(t) /\ \E h \in Handlers : In(t, h, "trigger")
    /\ IF kernel_execute_thread_switch
       THEN /\ pending' = [pending EXCEPT ![t] = @ \cup {"USR1"}]
            /\ frames' = GotoAt(t, "clear")
       ELSE /\ frames' = Returned(t)
            /\ UNCHANGED pending
    /\ UNCHANGED <<kernelVars, is_suspended, block_pipe, callVars, irqVars, aborted>>

TriggerClears(t) ==
    /\ Free(t) /\ \E h \in Handlers : In(t, h, "clear")
    /\ kernel_execute_thread_switch' = FALSE
    /\ frames' = Returned(t)
    /\ UNCHANGED <<thread_current, thread_next, thread_prev, state, is_suspended,
                   block_pipe, pending, callVars, irqVars, aborted>>

------------------------------------------------------------------------------
(***************************************************************************)
(* User code.                                                              *)
(***************************************************************************)

NoCall == [id |-> "none", outcome |-> "RETURN", retval |-> "E_NOTAVAIL"]

\* What code at RPC depth d may ask for.  The idle thread asks for nothing.
Requests(t) ==
    (IF t = Idle THEN {} ELSE Operations) \cup (IF depth[t] > 0 THEN {"rpc_return"} ELSE {})

system_call_entrypoint(t, id) ==
    /\ Free(t) /\ In(t, "user", "run")
    /\ id \in Requests(t)
    /\ syscall' = [syscall EXCEPT ![t] = [NoCall EXCEPT !.id = id]]
    /\ pending' = [pending EXCEPT ![t] = @ \cup {"URG"}]
    /\ frames' = GotoAt(t, "called")
    /\ UNCHANGED <<kernelVars, is_suspended, block_pipe, depth, irqVars, aborted>>

\* A refused RPC call has the outcome of an ordinary one.
RefusedRpc(t) == syscall[t].id = "rpc_call" /\ syscall[t].outcome # "RPC_CALL"

EntrypointReturns(t) ==
    /\ Free(t) /\ In(t, "user", "called")
    /\ syscall' = [syscall EXCEPT ![t] = NoCall]
    /\ IF RefusedRpc(t)
       THEN aborted' = "rpc" /\ UNCHANGED frames
       ELSE frames' = GotoAt(t, "run") /\ UNCHANGED aborted
    /\ UNCHANGED <<kernelVars, is_suspended, block_pipe, pending, depth, irqVars>>

------------------------------------------------------------------------------

\* _os_start has created the threads and os_boot_thread has written to the pipe
\* of the one that goes first.
os_boot_thread ==
    CHOOSE t \in Autostart : \A u \in Autostart \ {t} :
        Priority[t] < Priority[u] \/ (Priority[t] = Priority[u] /\ t < u)

Init ==
    /\ thread_current = os_boot_thread
    /\ thread_next = 0 /\ thread_prev = 0
    /\ kernel_execute_thread_switch = FALSE
    /\ state = [t \in Threads |-> CASE t = os_boot_thread -> "RUNNING"
                                    [] t \in Autostart \ {os_boot_thread} -> "READY"
                                    [] OTHER -> "EMPTY"]
    /\ is_suspended = [t \in Threads |-> t \in Autostart]
    /\ block_pipe = [t \in Threads |-> IF t = os_boot_thread THEN 1 ELSE 0]
    /\ syscall = [t \in Threads |-> NoCall]
    /\ depth = [t \in Threads |-> 0]
    /\ frames = [t \in Threads |-> IF t \in Autostart
                                   THEN <<[in |-> "start", at |-> "read"]>> ELSE <<>>]
    /\ pending = [t \in Threads |-> {}]
    /\ aborted = "no"
    /\ search = [t \in Threads |-> [h \in Serving |-> NoSearch]]
    /\ interrupt_flags = FALSE /\ raised = FALSE /\ interrupts = 0

\* What takes the CPU from one host to another.
HandOver(t) ==
    \/ thread_resume_execution(t)
    \/ thread_suspend_execution(t) \/ SuspendRead(t) \/ SuspendEnds(t)
    \/ thread_startup_handler(t) \/ SwitchWaits(t)

Handler(t) ==
    \/ \E s \in Handlers : DeliverPending(t, s)
    \/ thread_switch_handler(t) \/ SwitchSignals(t)
    \/ kernel_service_handler(t) \/ os_thread_initialize_arch(t)
    \/ sigalrm_handler(t) \/ irq_handler(t) \/ InterruptServed(t)
    \/ \E h \in Serving : os_sched_yield(t, h) \/ YieldCommits(t, h)
    \/ trigger_pendsv_if_needed(t) \/ TriggerClears(t)

Aborted == aborted # "no" /\ UNCHANGED <<kernelVars, hostVars, callVars, irqVars, aborted>>

Execution ==
    \/ \E t \in Threads :
          \/ HandOver(t) \/ Handler(t)
          \/ EntrypointReturns(t)
          \/ TimerExpires(t)
          \/ InterruptTaken(t)
          \/ \E id \in Operations \cup {"rpc_return"} : system_call_entrypoint(t, id)
    \/ InterruptTakenByMain
    \/ Aborted

Next ==
    \/ Execution /\ UNCHANGED interrupts
    \/ generate_interrupt

Spec == Init /\ [][Next]_vars

\* A host in neither a hand-over nor a handler, or blocked in the read of its pipe.
\* Neither HandOver nor Handler is enabled then; saying so spares TLC trying them.
Rests(t) ==
    \/ frames[t] = <<>>
    \/ Last(frames[t]).in = "user" /\ pending[t] = {}
    \/ Last(frames[t]).at = "read" /\ block_pipe[t] = 0 /\ pending[t] = {}

\* The system runs every host that can run, in the handlers it has entered too.
FairSpec ==
    /\ Spec
    /\ \A t \in Threads :
          WF_vars(~Rests(t) /\ UNCHANGED interrupts /\ (HandOver(t) \/ Handler(t)))

------------------------------------------------------------------------------

Frames == [in : Handlers \cup {"start", "user"},
           at : {"run", "called", "handle", "yield", "commit", "spawn", "served", "trigger",
                 "clear", "switch", "resume", "suspend", "read", "resumed", "wait", "signal",
                 "unblock"}]

\* The variables have their types; a pipe never holds more than one byte, and
\* no more than one handler of each kind is ever entered on a host.
TypeOK ==
    /\ {thread_current, thread_next, thread_prev} \subseteq Threads
    /\ kernel_execute_thread_switch \in BOOLEAN
    /\ state \in [Threads -> {"EMPTY", "CREATED", "READY", "RUNNING", "WAITING", "FINISHED"}]
    /\ is_suspended \in [Threads -> BOOLEAN]
    /\ block_pipe \in [Threads -> 0 .. 1]
    /\ syscall \in [Threads -> [id : {"none", "rpc_return"} \cup Operations,
                                outcome : {"RETURN", "RPC_CALL"},
                                retval : {"E_NOTAVAIL", "served"}]]
    /\ depth \in [Threads -> 0 .. MaxDepth]
    /\ pending \in [Threads -> SUBSET {"USR1", "URG"}]
    /\ search \in [Threads -> [Serving -> [thread : Threads, fresh : BOOLEAN]]]
    /\ {interrupt_flags, raised} \subseteq BOOLEAN
    /\ interrupts \in 0 .. MaxInterrupts
    /\ aborted \in {"no", "resume", "rpc", "irq", "tick"}
    /\ \A t \in Threads :
          /\ Range(frames[t]) \subseteq Frames
          /\ \A i, j \in 1 .. Len(frames[t]) :
                i # j => frames[t][i].in # frames[t][j].in

\* Does a host execute user code, a system call, the tick or a thread switch, as
\* opposed to waiting for its turn or being on the way into or out of its
\* suspension?  That an interrupt is handled on top of it makes no difference.
Beneath(t) ==
    IF Last(frames[t]).in = "USR2" THEN frames[t][Len(frames[t]) - 1] ELSE Last(frames[t])

Executes(t) ==
    /\ frames[t] # <<>>
    /\ \/ Beneath(t).in \in {"user", "URG", "ALRM"}
       \/ Beneath(t).in = "USR1" /\ Beneath(t).at \in {"switch", "signal"}

\* Although every thread has a host of its own and the hosts run in parallel,
\* only the host of the current thread executes user code, a system call, the
\* tick or a thread switch, wherever interrupts are handled: what
\* kernel_service_handler and thread_switch_handler assert.
OnlyCurrentExecutes == \A t \in Threads : Executes(t) => t = thread_current

\* Has a thread come back from the signals of its call?
Back(t) == frames[t] # <<>> /\ Last(frames[t]).in = "user" /\ Free(t)

\* A thread goes on past system_call_entrypoint only once its call was served,
\* though it may have been switched out, interrupted or ticked in between.
CallServed ==
    \A t \in Threads :
        Back(t) /\ Last(frames[t]).at = "called" => syscall[t].retval = "served"

\* A call that blocks or ends its thread keeps it off the CPU until it is made
\* ready again, as long as no interrupt was generated: the switch away is not
\* lost between the flag, the signals and the masks.  (An interrupt's commit may
\* have os_sched_yield refused.)
CallCompletes == interrupts = 0 => \A t \in Threads : Back(t) => state[t] = "RUNNING"

\* The tick finds the current thread, and no other, RUNNING, as long as no
\* interrupt was generated: the assertions of os_sched_timing_callback.
TickFindsRunning == interrupts = 0 => aborted # "tick"

\* A thread is resumed only when it is suspended: the assertion of
\* thread_resume_execution.
ResumesSuspended == aborted # "resume"

\* generate_interrupt interrupts the currently running CMRX thread, and so
\* irq_handler never runs in a thread of the process that hosts none.
InterruptsHitCurrent ==
    /\ \A t \in Threads :
          frames[t] # <<>> /\ Last(frames[t]).in = "USR2" => t = thread_current
    /\ aborted # "irq"

\* An interrupt that was generated gets its handler called: when SIGUSR2 is still
\* to be taken the flag is still set.
InterruptIsServed == raised => interrupt_flags

\* Every hand-over completes: again and again the host of the current thread
\* executes, though it may have been created, switched or interrupted on the way.
CurrentGetsToRun == []<>(Executes(thread_current) \/ aborted # "no")

------------------------------------------------------------------------------
(***************************************************************************)
(* The inductive invariants behind the theorems of PosixProofs: PosixInv   *)
(* holds wherever interrupts come, Orderly as long as there were none.     *)
(***************************************************************************)

States == {"EMPTY", "CREATED", "READY", "RUNNING", "WAITING", "FINISHED"}
CanRun(t) == state[t] \in {"READY", "RUNNING"}
HasHost(t) == state[t] \notin {"EMPTY", "CREATED"}

\* The steps of each function.
StepsOf ==
    [start |-> {"suspend", "read", "resumed", "unblock"}, user |-> {"run", "called"},
     URG |-> {"handle", "yield", "commit", "spawn", "trigger", "clear"},
     ALRM |-> {"handle", "yield", "commit", "trigger", "clear"},
     USR2 |-> {"handle", "yield", "commit", "served", "trigger", "clear"},
     USR1 |-> {"switch", "resume", "suspend", "read", "resumed", "wait", "signal"}]

\* Handlers are nested as the masks allow, and SIGURG comes from the call alone.
Nested(f) ==
    /\ \A i \in 1 .. Len(f) :
          /\ f[i] \in Frames /\ f[i].at \in StepsOf[f[i].in]
          /\ f[i].in \in {"start", "user"} <=> i = 1
          /\ f[i].in = "URG" => i = 2 /\ f[1] = [in |-> "user", at |-> "called"]
    /\ \A i, j \in 1 .. Len(f) : i < j => f[j].in \notin Masks[f[i].in]

Values ==
    /\ {thread_current, thread_next, thread_prev} \subseteq Threads
    /\ kernel_execute_thread_switch \in BOOLEAN
    /\ state \in [Threads -> States]
    /\ is_suspended \in [Threads -> BOOLEAN]
    /\ block_pipe \in [Threads -> 0 .. 1]
    /\ syscall \in [Threads -> [id : {"none", "rpc_return"} \cup Operations,
                                outcome : {"RETURN", "RPC_CALL"},
                                retval : {"E_NOTAVAIL", "served"}]]
    /\ depth \in [Threads -> 0 .. MaxDepth]
    /\ pending \in [Threads -> SUBSET {"USR1", "URG"}]
    /\ search \in [Threads -> [Serving -> [thread : Threads, fresh : BOOLEAN]]]
    /\ {interrupt_flags, raised} \subseteq BOOLEAN
    /\ aborted \in {"no", "resume", "rpc", "irq", "tick"}
    /\ frames \in [Threads -> Seq(Frames)]
    /\ \A t \in Threads : Nested(frames[t])

\* Where a host with functions f is in the hand-over; "run" if it is not in it.
PositionIn(f) ==
    IF f = <<>> THEN "none"
    ELSE IF f[1].in = "start" THEN f[1].at
    ELSE IF Last(f).in = "USR1" THEN Last(f).at
    ELSE "run"

Position(t) == PositionIn(frames[t])

\* The right to run is with the current thread: in its pipe, on its host, or
\* with the one host that has still to write to the pipe.  SIGUSR1 waits on
\* another host only where it is blocked.
Token ==
    /\ \A t \in Threads \ {thread_current} :
          /\ Position(t) \in {"none", "suspend", "read", "resume"}
          /\ block_pipe[t] = 0
          /\ pending[t] \subseteq {"USR1"}
          /\ pending[t] # {} => Unstarted(t)
    /\ block_pipe[thread_current] = 1 => Position(thread_current) = "read"
    /\ Position(thread_current) # "resume"
    /\ \A t \in Threads : Position(t) = "resume" =>
          /\ \A u \in Threads : Position(u) = "resume" => u = t
          /\ Position(thread_current) \in {"suspend", "read"}
          /\ block_pipe[thread_current] = 0

\* What a host is in and what the kernel and the flag say of it agree.
Agreement ==
    \A t \in Threads :
       /\ is_suspended[t] = TRUE <=> Position(t) \in {"read", "resumed"}
       /\ state[t] = "EMPTY" <=> frames[t] = <<>>
       /\ state[t] = "CREATED" => Unstarted(t) /\ t # thread_current
       /\ Unstarted(t) => /\ state[t] \in {"CREATED", "READY", "RUNNING"}
                          /\ Position(t) = "suspend" => state[t] = "CREATED"

\* A switch that was asked for, or may still be, is to a thread with a host.
Switching ==
    \/ kernel_execute_thread_switch
    \/ \E t \in Threads : "USR1" \in pending[t]
    \/ Position(thread_current) = "switch"

Targets ==
    /\ Switching => HasHost(thread_next)
    /\ \A t \in Threads : \A h \in Serving : HasHost(search[t][h].thread)
    /\ HasHost(thread_current)
    /\ CanRun(Idle) /\ syscall[Idle].id = "none" /\ depth[Idle] = 0

\* A call that was made is still to be taken, being handled, or served.
CallStands(t) ==
    /\ "URG" \in pending[t] =>
          pending[t] = {"URG"} /\ frames[t] = <<[in |-> "user", at |-> "called"]>>
    /\ "USR1" \in pending[t] /\ ~Unstarted(t) => Last(frames[t]).in # "USR1"
    /\ aborted = "no" /\ frames[t] # <<>> /\ frames[t][1].at = "called" =>
          \/ "URG" \in pending[t]
          \/ \E i \in DOMAIN frames[t] :
                frames[t][i].in = "URG" /\ frames[t][i].at \in {"handle", "yield", "commit", "spawn"}
          \/ syscall[t].retval = "served"

Calls == \A t \in Threads : CallStands(t)

PosixInv == Values /\ Token /\ Agreement /\ Targets /\ Calls

NoIrq == \A t \in Threads : \A i \in DOMAIN frames[t] : frames[t][i].in # "USR2"

\* Without interrupts the current thread c, whose innermost function is top, is
\* RUNNING unless it is on its way to the switch, the flag is set only while it
\* is about to be seen, and a search is up to date when it is committed.
OrderlyAt(c, top) ==
    /\ ~raised /\ NoIrq /\ aborted # "tick"
    /\ \A t \in Threads \ {c} : pending[t] = {} /\ state[t] # "RUNNING"
    /\ kernel_execute_thread_switch => top.at \in {"trigger", "clear"}
    /\ "USR1" \in pending[c] => top.at \in {"clear", "run", "called"}
    /\ \/ state[c] = "RUNNING"
       \/ "USR1" \in pending[c] \/ top.at = "switch"
       \/ /\ top.in = "URG"
          /\ \/ top.at \in {"yield", "commit"}
             \/ top.at = "trigger" /\ kernel_execute_thread_switch
    /\ kernel_execute_thread_switch \/ "USR1" \in pending[c] \/ top.at = "switch"
       => CanRun(thread_next)
    /\ top.at = "commit" => search[c][top.in].fresh /\ CanRun(search[c][top.in].thread)
    /\ top.in = "ALRM" => state[c] = "RUNNING"
    /\ state[c] # "READY"

Orderly == OrderlyAt(thread_current, Last(frames[thread_current]))

==============================================================================
