------------------------------- MODULE Notify -------------------------------
(***************************************************************************)
(* Waiting for objects and notifying them (src/os/kernel/notify.c), on top *)
(* of the scheduler.                                                       *)
(*                                                                         *)
(* Pending notifications are a counter per object here.  Module            *)
(* NotifyTable has the hash table the kernel keeps them in, and shows when *)
(* it implements these counters.  Waits have no timeout: no timer is armed *)
(* and os_find_timer finds none.                                           *)
(***************************************************************************)
EXTENDS Sched

CONSTANTS
    MaxPending      \* bound: no new notify call on an object with that many pending

\* Mutant: the entry stays in the list.
KeepEntry(s, i) == s

\* The array without its i-th entry; the ones behind it move up.
ARRAY_DELETE(s, i) == [j \in 1 .. Len(s) - 1 |-> IF j < i THEN s[j] ELSE s[j + 1]]

\* Threads that notify_object may wake for object o, as positions in the
\* waiter list.  The search starts from priority 0xFF with a strict comparison.
Candidates(o) ==
    {i \in DOMAIN waiters : /\ wait_object[waiters[i]] = o
                            /\ priority[waiters[i]] < IdlePriority}

\* Mutant: the thread that waited longest is woken, whatever its priority.
LongestWaiter(o) ==
    IF Candidates(o) = {} THEN None ELSE Lowest(Candidates(o))

\* The most urgent waiter for o; among equals the one that came first.
os_find_notified_thread_waiter(o) ==
    IF Candidates(o) = {} THEN None
    ELSE LET best == Lowest({priority[waiters[i]] : i \in Candidates(o)})
         IN  Lowest({i \in Candidates(o) : priority[waiters[i]] = best})

\* The callback of wait_for_object makes the thread runnable.
cb_syscall_notify_object(t) ==
    [state EXCEPT ![t] = IF t = thread_current THEN "RUNNING" ELSE "READY"]

\* The callback of thread_join stores the exit status and changes no state.
cb_thread_join_notify(t) == state

\* The wait callback runs; which one it is follows from the object.
Awakened(t) ==
    IF wait_object[t] \in Threads
    THEN cb_thread_join_notify(t)
    ELSE cb_syscall_notify_object(t)

\* The callback runs and the wait is over.
os_notify_thread(t) ==
    /\ state' = Awakened(t)
    /\ wait_object' = [wait_object EXCEPT ![t] = None]

os_notify_queue_event(o) == pending' = [pending EXCEPT ![o] = @ + 1]

------------------------------------------------------------------------------
(***************************************************************************)
(* notify_object, notify_object2                                           *)
(***************************************************************************)

sys_notify_object2 ==
    /\ SVC
    /\ \E o \in Objects, flags \in SUBSET {"QUEUE", "DROP"} :
          /\ pending[o] < MaxPending
          /\ call' = [NoCall EXCEPT !.obj = o, !.flags = flags]
    /\ Goto("notify")
    /\ UNCHANGED <<tableVars, signalVars, waitVars, switchVars>>

\* notify_object(o) is notify_object2(o, NOTIFY_QUEUE_NOTIFICATION).
sys_notify_object ==
    /\ SVC
    /\ \E o \in Objects :
          /\ pending[o] < MaxPending
          /\ call' = [NoCall EXCEPT !.obj = o, !.flags = {"QUEUE"}]
    /\ Goto("notify")
    /\ UNCHANGED <<tableVars, signalVars, waitVars, switchVars>>

os_notify_object ==
    /\ pc = "notify"
    /\ Found(os_find_notified_thread_waiter(call.obj), "notify_commit")
    /\ UNCHANGED <<tableVars, signalVars, waitVars, switchVars>>

\* Priority of the notifier: NOTIFY_PRIORITY_DROP acts only if someone is woken.
DroppedPriority ==
    IF "DROP" \in call.flags
    THEN [priority EXCEPT ![thread_current] = base_priority[thread_current]]
    ELSE priority

\* Wakes the waiter the search found.
NotifyWaiter ==
    LET t == waiters[call.cand]
    IN  /\ os_notify_thread(t)
        /\ priority' = DroppedPriority
        /\ waiters' = ARRAY_DELETE(waiters, call.cand)
        /\ IF "DROP" \in call.flags \/ priority'[t] < priority'[thread_current]
           THEN Goto("yield") /\ call' = NoCall
           ELSE Return
        /\ UNCHANGED pending

\* Nobody waits: the notification is kept for later, if so asked.
NotifyNobody ==
    /\ IF "QUEUE" \in call.flags
       THEN os_notify_queue_event(call.obj)
       ELSE UNCHANGED pending
    /\ Return
    /\ UNCHANGED <<state, priority, wait_object, waiters>>

os_notify_object_commit ==
    /\ pc = "notify_commit"
    /\ IF ~call.fresh
       THEN Goto("notify") /\ UNCHANGED <<state, priority, waitVars, call>>
       ELSE IF call.cand # None THEN NotifyWaiter ELSE NotifyNobody
    /\ UNCHANGED <<base_priority, stack_id, allocations, signalVars, switchVars>>

\* isr_notify_object, called by a device interrupt: os_notify_object with
\* nothing able to get in between, os_sched_yield included.  It commits a
\* read-write transaction of its own in any case.
isr_notify_object ==
    /\ \E o \in Objects :
          /\ pending[o] < MaxPending
          /\ LET w == os_find_notified_thread_waiter(o)
             IN  IF w = None
                 THEN /\ os_notify_queue_event(o)
                      /\ UNCHANGED <<state, wait_object, waiters, switchVars>>
                 ELSE LET t == waiters[w]
                      IN  /\ os_notify_thread(t)
                          /\ waiters' = ARRAY_DELETE(waiters, w)
                          /\ IF priority[t] < priority[thread_current]
                             THEN SwitchTo(os_get_next_thread(thread_current, Awakened(t), priority))
                             ELSE UNCHANGED <<thread_next, old_task, new_task, pendsv>>
                          /\ UNCHANGED <<pending, thread_current, cpu>>
    /\ call' = [call EXCEPT !.fresh = (pc = "user")]
    /\ UNCHANGED <<priority, base_priority, stack_id, allocations, signalVars, pc>>

------------------------------------------------------------------------------
(***************************************************************************)
(* wait_for_object, and the waiting half of thread_join                    *)
(***************************************************************************)

sys_wait_for_object ==
    /\ SVC
    /\ WaitersBound
    /\ \E o \in Objects : call' = [NoCall EXCEPT !.obj = o]
    /\ Goto("wait")
    /\ UNCHANGED <<tableVars, signalVars, waitVars, switchVars>>

\* os_sys_wait_for_object_value: the caller waits only if the value differs from
\* the expected one.
sys_wait_for_object_value ==
    /\ SVC
    /\ WaitersBound
    /\ \/ Return       \* E_OK_NO_WAIT, or E_ACCESS
       \/ /\ \E o \in Objects : call' = [NoCall EXCEPT !.obj = o]
          /\ Goto("wait")
    /\ UNCHANGED <<tableVars, signalVars, waitVars, switchVars>>

\* The caller's number is read once, its state again with every attempt.  A
\* caller that is neither READY nor RUNNING gets E_BUSY.
os_wait_for_object ==
    /\ pc = "wait"
    /\ LET me == IF call.tgt = None THEN thread_current ELSE call.tgt
       IN  IF RunnableIn(state, me)
           THEN /\ Goto("wait_commit")
                /\ call' = [call EXCEPT !.tgt = me, !.fresh = TRUE]
           ELSE Return
    /\ UNCHANGED <<tableVars, signalVars, waitVars, switchVars>>

HasPending(o) == o \in Objects /\ pending[o] > 0

\* os_notify_dequeue_event() found a notification: it is consumed.
Consume ==
    /\ pending' = [pending EXCEPT ![call.obj] = @ - 1]
    /\ Return
    /\ UNCHANGED <<state, wait_object, waiters>>

\* The branch that lets another thread inherit the priority tests
\* `flags & NOTIFY_PRIORITY_INHERIT_FLAG', a bit number that is 0, and is never
\* taken.
Block ==
    /\ waiters' = Append(waiters, call.tgt)
    /\ state' = [state EXCEPT ![call.tgt] = "WAITING"]
    /\ wait_object' = [wait_object EXCEPT ![call.tgt] = call.obj]
    /\ Goto("yield")
    /\ call' = NoCall
    /\ UNCHANGED pending

\* Mutant: pending notifications are not looked at.
BlockAlways == Block

\* Mutant: a wait consumes a notification that is not there.
ConsumeAlways == IF call.obj \in Objects THEN Consume ELSE Block

ConsumeOrBlock == IF HasPending(call.obj) THEN Consume ELSE Block

os_wait_for_object_commit ==
    /\ pc = "wait_commit"
    /\ IF call.fresh
       THEN ConsumeOrBlock
       ELSE Goto("wait") /\ UNCHANGED <<state, waitVars, call>>
    /\ UNCHANGED <<priority, base_priority, stack_id, allocations, signalVars, switchVars>>

------------------------------------------------------------------------------
(***************************************************************************)
(* init_waitable_object                                                    *)
(***************************************************************************)

sys_init_waitable_object ==
    /\ SVC
    /\ \E o \in Objects : call' = [NoCall EXCEPT !.obj = o, !.tgt = 0]
    /\ Goto("init")
    /\ UNCHANGED <<tableVars, signalVars, waitVars, switchVars>>

\* The loop over all threads moves on; behind the last one the pending
\* notifications are cleared.
NextInitThread ==
    IF call.tgt + 1 \in Threads
    THEN Goto("init") /\ call' = [call EXCEPT !.tgt = @ + 1]
    ELSE Goto("clear") /\ UNCHANGED call

\* Threads that do not wait for the object are passed over with the
\* transaction still open.
os_initialize_waitable_object ==
    /\ pc = "init"
    /\ IF state[call.tgt] = "WAITING" /\ wait_object[call.tgt] = call.obj
       THEN Goto("init_commit") /\ UNCHANGED call
       ELSE NextInitThread
    /\ UNCHANGED <<tableVars, signalVars, waitVars, switchVars>>

\* A woken thread stays in os_notification_waiters.  os_notify_thread never
\* returns E_YIELD, so there is no yield at the end.  A refused commit skips
\* the thread.
os_initialize_waitable_object_commit ==
    /\ pc = "init_commit"
    /\ IF call.fresh
       THEN os_notify_thread(call.tgt)
       ELSE UNCHANGED <<state, wait_object>>
    /\ IF call.tgt + 1 \in Threads
       THEN Goto("init") /\ call' = [call EXCEPT !.tgt = @ + 1, !.fresh = TRUE]
       ELSE Goto("clear") /\ call' = [call EXCEPT !.fresh = TRUE]
    /\ UNCHANGED <<priority, base_priority, stack_id, allocations,
                   signalVars, waiters, pending, switchVars>>

os_initialize_waitable_object_clear ==
    /\ pc = "clear"
    /\ Found(None, "clear_commit")
    /\ UNCHANGED <<tableVars, signalVars, waitVars, switchVars>>

os_initialize_waitable_object_clear_commit ==
    /\ pc = "clear_commit"
    /\ IF call.fresh
       THEN pending' = [pending EXCEPT ![call.obj] = 0] /\ Return
       ELSE Goto("clear") /\ UNCHANGED <<pending, call>>
    /\ UNCHANGED <<tableVars, signalVars, wait_object, waiters, switchVars>>
==============================================================================
