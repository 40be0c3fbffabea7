---------------------------- MODULE KernelProofs ----------------------------
(***************************************************************************)
(* Theorems about the kernel of modules Kernel and Timers, for any number  *)
(* of threads, stacks, objects, priorities and timers, any delays and tick *)
(* and any choice of entry points.                                         *)
(***************************************************************************)
EXTENDS Timers, WellFoundedInduction, TLAPS

------------------------------------------------------------------------------
(***************************************************************************)
(* The searches.                                                           *)
(***************************************************************************)

\* Lowest finds the least element of any nonempty set of numbers: the linear
\* scans of os_thread_alloc, os_stack_create and os_find_notified_thread_waiter
\* do find what is there.
LEMMA LowestIn ==
    ASSUME NEW S, S \subseteq Nat, S # {}
    PROVE  Lowest(S) \in S /\ \A y \in S : Lowest(S) <= y
<1> DEFINE Less == {ss \in Nat \X Nat : ss[1] < ss[2]}
<1>1. IsWellFoundedOn(Less, Nat)
  BY NatLessThanWellFounded, Zenon DEF OpToRel
<1> HIDE DEF Less
<1>2. PICK x \in S : \A y \in S : ~(<<y, x>> \in Less)
  BY <1>1, WFMin, Zenon
<1>3. ASSUME NEW y \in S PROVE x <= y
  <2>1. y \in Nat /\ x \in Nat
    OBVIOUS
  <2>2. y < x => <<y, x>> \in Less
    BY <2>1 DEF Less
  <2>3. ~(<<y, x>> \in Less)
    BY <1>2
  <2> QED BY <2>1, <2>2, <2>3
<1> QED BY <1>3 DEF Lowest

\* os_get_next_thread returns a slot of the table or reports that there is none.
LEMMA NextThreadType ==
    ASSUME NEW cur, NEW st, NEW pr
    PROVE  os_get_next_thread(cur, st, pr) \in Threads \cup {None}
BY DEF os_get_next_thread

\* os_find_notified_thread_waiter returns a position in the waiter list, or none.
LEMMA WaiterFound ==
    ASSUME TableType, WaitType, NEW o
    PROVE  os_find_notified_thread_waiter(o) \in DOMAIN waiters \cup {None}
<1>1. CASE Candidates(o) = {}
  BY <1>1 DEF os_find_notified_thread_waiter
<1>2. CASE Candidates(o) # {}
  <2> DEFINE prios == {priority[waiters[i]] : i \in Candidates(o)}
             best == Lowest(prios)
             firsts == {i \in Candidates(o) : priority[waiters[i]] = best}
  <2>1. /\ Candidates(o) \subseteq DOMAIN waiters
        /\ DOMAIN waiters \subseteq Nat
        /\ \A i \in DOMAIN waiters : priority[waiters[i]] \in Nat
    <3>1. Candidates(o) \subseteq DOMAIN waiters
      BY DEF Candidates
    <3>2. DOMAIN waiters \subseteq Nat /\ \A i \in DOMAIN waiters : waiters[i] \in Threads
      BY DEF WaitType
    <3>3. \A t \in Threads : priority[t] \in Nat
      BY DEF TableType, IdlePriority
    <3> QED BY <3>1, <3>2, <3>3
  <2>2. prios \subseteq Nat /\ prios # {}
    BY <1>2, <2>1
  <2>3. best \in prios
    BY <2>2, LowestIn
  <2>4. firsts \subseteq Nat /\ firsts # {}
    BY <2>1, <2>3
  <2>5. Lowest(firsts) \in firsts
    BY <2>4, LowestIn
  <2>6. os_find_notified_thread_waiter(o) = Lowest(firsts)
    BY <1>2 DEF os_find_notified_thread_waiter
  <2> QED BY <2>1, <2>5, <2>6
<1> QED BY <1>1, <1>2

\* ARRAY_DELETE leaves a list of threads.
LEMMA DeleteType ==
    ASSUME NEW S, NEW s \in Seq(S), NEW i \in DOMAIN s
    PROVE  ARRAY_DELETE(s, i) \in Seq(S)
<1>1. Len(s) - 1 \in Nat
  OBVIOUS
<1>2. ASSUME NEW j \in 1 .. Len(s) - 1
      PROVE  (IF j < i THEN s[j] ELSE s[j + 1]) \in S
  OBVIOUS
<1> QED BY <1>1, <1>2 DEF ARRAY_DELETE

\* os_notify_thread leaves thread states and wait objects well typed.
LEMMA NotifyThreadType ==
    ASSUME TableType, WaitType, NEW t \in Threads, os_notify_thread(t)
    PROVE  /\ state' \in [Threads -> States]
           /\ Awakened(t) \in [Threads -> States]
           /\ wait_object' \in [Threads -> Objects \cup Threads \cup {None}]
BY DEF os_notify_thread, Awakened, cb_syscall_notify_object,
       cb_thread_join_notify, TableType, WaitType, States

------------------------------------------------------------------------------
(***************************************************************************)
(* Type correctness.                                                       *)
(***************************************************************************)

\* The running handler is at one of its steps, with the locals that step needs.
ControlOK == pc \in Steps /\ call \in Calls /\ CallOK

\* Application priorities fit the field they are stored in.
LEMMA PriorityRange == \A p \in Priorities : p \in 0 .. IdlePriority
BY PriorityAssumption DEF IdlePriority

\* A group of variables that does not change keeps its type.
LEMMA Frames ==
    /\ TableType /\ UNCHANGED tableVars => TableType'
    /\ SignalType /\ UNCHANGED signalVars => SignalType'
    /\ WaitType /\ UNCHANGED waitVars => WaitType'
    /\ SwitchType /\ UNCHANGED switchVars => SwitchType'
BY DEF TableType, SignalType, WaitType, SwitchType,
       tableVars, signalVars, waitVars, switchVars

\* A context switch request leaves the scheduler's records well typed.
LEMMA SwitchToType ==
    ASSUME SwitchType, NEW next \in Threads \cup {None}, SwitchTo(next),
           UNCHANGED <<thread_current, cpu>>
    PROVE  SwitchType'
BY DEF SwitchTo, schedule_context_switch, os_request_context_switch, SwitchType

\* A handler that returns, or goes on to yield, leaves no locals behind.
LEMMA ReturnOK == Return => ControlOK'
BY DEF Return, NoCall, ControlOK, CallOK, Calls, Steps

\* The same for a handler that ends in os_sched_yield.
LEMMA YieldOK == pc' = "yield" /\ call' = NoCall => ControlOK'
BY DEF NoCall, ControlOK, CallOK, Calls, Steps

\* What a search stores.
LEMMA FoundFields ==
    ASSUME call \in Calls, NEW x \in Nat \cup {None}, NEW step, Found(x, step)
    PROVE  /\ call' \in Calls
           /\ pc' = step
           /\ call'.cand = x
           /\ call'.tgt = call.tgt /\ call'.obj = call.obj /\ call'.prio = call.prio
BY DEF Found, Calls

\* Handlers that are entered with a thread to work on.
LEMMA TargetOK ==
    ASSUME NEW t \in Threads, call' = [NoCall EXCEPT !.tgt = t],
           pc' \in {"kill", "self", "stop", "continue"}
    PROVE  ControlOK'
<1>1. call' \in Calls /\ call'.tgt \in Threads
  BY DEF NoCall, Calls
<1> QED BY <1>1 DEF ControlOK, CallOK, Steps

\* Every variable but the step of the handler has its type.
LocalsOK == call \in Calls /\ CallOK
Typed == TableType /\ SignalType /\ WaitType /\ SwitchType /\ LocalsOK

\* A device interrupt keeps the types, wherever it hits a handler.
LEMMA InterruptType ==
    ASSUME Typed, isr_notify_object \/ isr_kill
    PROVE  Typed' /\ pc' = pc
<1> SUFFICES TableType' /\ SignalType' /\ WaitType' /\ SwitchType' /\ LocalsOK'
  BY DEF Typed, isr_notify_object, isr_kill
<1>0. TableType /\ SignalType /\ WaitType /\ SwitchType /\ LocalsOK
  BY DEF Typed
<1>1. CASE isr_notify_object
  <2>1. PICK o \in Objects :
            LET w == os_find_notified_thread_waiter(o)
            IN  IF w = None
                THEN /\ os_notify_queue_event(o)
                     /\ UNCHANGED <<state, wait_object, waiters, switchVars>>
                ELSE LET t == waiters[w]
                     IN  /\ os_notify_thread(t)
                         /\ waiters' = ARRAY_DELETE(waiters, w)
                         /\ IF priority[t] < priority[thread_current]
                            THEN SwitchTo(os_get_next_thread(thread_current, Awakened(t), priority))
                            ELSE UNCHANGED <<thread_next, old_task, new_task, pendsv>>
                         /\ UNCHANGED <<pending, thread_current, cpu>>
    BY <1>1 DEF isr_notify_object
  <2> DEFINE w == os_find_notified_thread_waiter(o)
             t == waiters[w]
             next == os_get_next_thread(thread_current, Awakened(t), priority)
  <2>2. LocalsOK'
    <3>1. pc' = pc /\ call' = [call EXCEPT !.fresh = (pc = "user")]
      BY <1>1 DEF isr_notify_object
    <3>2. /\ call' \in Calls /\ call'.fresh = (pc = "user")
          /\ call'.tgt = call.tgt /\ call'.obj = call.obj
          /\ call'.prio = call.prio /\ call'.cand = call.cand
      BY <1>0, <3>1 DEF LocalsOK, Calls
    <3> QED BY <1>0, <3>1, <3>2 DEF LocalsOK, CallOK
  <2>3. CASE w = None
    <3>1. os_notify_queue_event(o) /\ UNCHANGED <<state, wait_object, waiters, switchVars>>
      BY <2>1, <2>3
    <3>2. WaitType'
      BY <1>0, <3>1 DEF os_notify_queue_event, WaitType
    <3>3. UNCHANGED <<tableVars, signalVars>>
      BY <1>1, <3>1 DEF isr_notify_object, tableVars
    <3> QED BY <1>0, <2>2, <3>1, <3>2, <3>3, Frames
  <2>4. CASE w # None
    <3>1. /\ os_notify_thread(t)
          /\ waiters' = ARRAY_DELETE(waiters, w)
          /\ IF priority[t] < priority[thread_current] THEN SwitchTo(next)
             ELSE UNCHANGED <<thread_next, old_task, new_task, pendsv>>
          /\ UNCHANGED <<pending, thread_current, cpu>>
      BY <2>1, <2>4
    <3>2. w \in DOMAIN waiters /\ t \in Threads
      BY <1>0, <2>4, WaiterFound DEF WaitType
    <3>3. next \in Threads \cup {None}
      BY NextThreadType
    <3> HIDE DEF w, t, next
    <3>4. /\ state' \in [Threads -> States]
          /\ wait_object' \in [Threads -> Objects \cup Threads \cup {None}]
      BY <1>0, <3>1, <3>2, NotifyThreadType
    <3>5. waiters' \in Seq(Threads)
      BY <1>0, <3>1, <3>2, DeleteType DEF WaitType
    <3>6. WaitType'
      BY <1>0, <3>1, <3>4, <3>5 DEF WaitType
    <3>7. TableType' /\ UNCHANGED signalVars
      BY <1>0, <1>1, <3>4 DEF isr_notify_object, TableType
    <3>8. SwitchType'
      <4>1. CASE SwitchTo(next)
        BY <1>0, <3>1, <3>3, <4>1, SwitchToType
      <4>2. CASE UNCHANGED <<thread_next, old_task, new_task, pendsv>>
        BY <1>0, <3>1, <4>2 DEF SwitchType
      <4> QED BY <3>1, <4>1, <4>2
    <3> QED BY <1>0, <2>2, <3>6, <3>7, <3>8, Frames
  <2> QED BY <2>3, <2>4
<1>2. CASE isr_kill
  <2>1. PICK t \in AppThreads :
            /\ signals' = signals \cup {t}
            /\ state' = IF state[t] = "STOPPED" THEN [state EXCEPT ![t] = "READY"] ELSE state
            /\ IF priority[t] > priority[thread_current]
               THEN /\ schedule_context_switch(thread_current, t)
                    /\ thread_current' = t
               ELSE UNCHANGED <<old_task, new_task, pendsv, thread_current>>
    BY <1>2 DEF isr_kill
  <2>2. t \in Threads
    BY DEF AppThreads
  <2>3. LocalsOK'
    BY <1>0, <1>2 DEF isr_kill, waitVars, LocalsOK, CallOK
  <2>4. TableType'
    BY <1>0, <1>2, <2>1, <2>2 DEF isr_kill, TableType, States
  <2>5. SignalType'
    BY <1>0, <1>2, <2>1, <2>2 DEF isr_kill, SignalType
  <2>6. SwitchType'
    BY <1>0, <1>2, <2>1, <2>2 DEF isr_kill, schedule_context_switch, os_request_context_switch, SwitchType
  <2> QED BY <1>0, <1>2, <2>3, <2>4, <2>5, <2>6, Frames DEF isr_kill
<1> QED BY <1>1, <1>2

\* Every step of every handler, of an interrupt and of PendSV keeps the types:
\* one case per action, each handler with the locals its step relies on.
LEMMA TypeStep ==
    ASSUME TypeInv, [Next]_vars
    PROVE  TypeInv'
<1> SUFFICES TableType' /\ SignalType' /\ WaitType' /\ SwitchType' /\ ControlOK'
  BY DEF TypeInv, TypeOK, ControlOK
<1>0. TableType /\ SignalType /\ WaitType /\ SwitchType /\ ControlOK
  BY DEF TypeInv, TypeOK, ControlOK
<1>1. CASE SVC_Handler
  <2>1. ControlOK'
    BY <1>0, <1>1 DEF SVC_Handler, Goto, ControlOK, CallOK, Steps
  <2> QED BY <1>0, <1>1, <2>1, Frames DEF SVC_Handler
<1>2. CASE os_system_call_reports
  <2>1. ControlOK'
    BY <1>2, ReturnOK DEF os_system_call_reports
  <2> QED BY <1>0, <1>2, <2>1, Frames DEF os_system_call_reports
<1>3. CASE sys_sched_yield
  <2>1. ControlOK'
    BY <1>3, YieldOK DEF sys_sched_yield, Goto
  <2> QED BY <1>0, <1>3, <2>1, Frames DEF sys_sched_yield
<1>4. CASE os_sched_yield
  <2>1. ControlOK'
    <3> DEFINE next == os_get_next_thread(thread_current, state, priority)
               step == IF next = None THEN "yield_clear" ELSE "yield_commit"
    <3>1. next \in Threads \cup {None} /\ Found(next, step)
      BY <1>4, NextThreadType DEF os_sched_yield
    <3> HIDE DEF next
    <3>2. call' \in Calls /\ pc' = step /\ call'.cand = next
      BY <1>0, <3>1, FoundFields DEF ControlOK, Threads
    <3> QED BY <3>1, <3>2 DEF ControlOK, CallOK, Steps
  <2> QED BY <1>0, <1>4, <2>1, Frames DEF os_sched_yield
<1>5. CASE SysTick
  <2>1. ControlOK'
    BY <1>0, <1>5 DEF SysTick, Goto, ControlOK, CallOK, Steps
  <2> QED BY <1>0, <1>5, <2>1, Frames DEF SysTick
<1>6. CASE sys_thread_exit
  <2>1. ControlOK'
    BY <1>0, <1>6, TargetOK DEF sys_thread_exit, Goto, SwitchType
  <2> QED BY <1>0, <1>6, <2>1, Frames DEF sys_thread_exit
<1>7. CASE sys_kill_SIGSTOP
  <2>0. PICK t \in AppThreads : call' = [NoCall EXCEPT !.tgt = t]
    BY <1>7 DEF sys_kill_SIGSTOP, os_kill_dispatch
  <2>1. ControlOK'
    BY <1>7, <2>0, TargetOK DEF sys_kill_SIGSTOP, os_kill_dispatch, Goto, AppThreads
  <2> QED BY <1>0, <1>7, <2>1, Frames DEF sys_kill_SIGSTOP, os_kill_dispatch
<1>8. CASE sys_kill_SIGCONT
  <2>0. PICK t \in AppThreads : call' = [NoCall EXCEPT !.tgt = t]
    BY <1>8 DEF sys_kill_SIGCONT, os_kill_dispatch
  <2>1. ControlOK'
    BY <1>8, <2>0, TargetOK DEF sys_kill_SIGCONT, os_kill_dispatch, Goto, AppThreads
  <2> QED BY <1>0, <1>8, <2>1, Frames DEF sys_kill_SIGCONT, os_kill_dispatch
<1>9. CASE sys_kill_SIGKILL
  <2>0. PICK t \in AppThreads : call' = [NoCall EXCEPT !.tgt = t]
    BY <1>9 DEF sys_kill_SIGKILL, os_kill_dispatch
  <2>1. ControlOK'
    BY <1>9, <2>0, TargetOK DEF sys_kill_SIGKILL, os_kill_dispatch, Goto, AppThreads
  <2> QED BY <1>0, <1>9, <2>1, Frames DEF sys_kill_SIGKILL, os_kill_dispatch
<1>10. CASE yield_if_current
  <2>1. ControlOK'
    BY <1>10, ReturnOK, YieldOK DEF yield_if_current, YieldIfCurrent, Goto
  <2> QED BY <1>0, <1>10, <2>1, Frames DEF yield_if_current
<1>11. CASE os_thread_stop
  <2>1. ControlOK'
    <3>1. CASE Return
      BY <3>1, ReturnOK
    <3>2. CASE Found(None, "stop_commit")
      <4>1. call' \in Calls /\ pc' = "stop_commit" /\ call'.tgt = call.tgt
        BY <1>0, <3>2, FoundFields DEF ControlOK
      <4> QED BY <1>0, <1>11, <4>1 DEF os_thread_stop, ControlOK, CallOK, Steps
    <3> QED BY <1>11, <3>1, <3>2 DEF os_thread_stop
  <2> QED BY <1>0, <1>11, <2>1, Frames DEF os_thread_stop
<1>12. CASE os_thread_continue
  <2>1. ControlOK'
    <3>1. CASE Return
      BY <3>1, ReturnOK
    <3>2. CASE Found(None, "continue_commit")
      <4>1. call' \in Calls /\ pc' = "continue_commit" /\ call'.tgt = call.tgt
        BY <1>0, <3>2, FoundFields DEF ControlOK
      <4> QED BY <1>0, <1>12, <4>1 DEF os_thread_continue, ControlOK, CallOK, Steps
    <3> QED BY <1>12, <3>1, <3>2 DEF os_thread_continue
  <2> QED BY <1>0, <1>12, <2>1, Frames DEF os_thread_continue
<1>13. CASE sys_thread_create
  <2>0. PICK p \in Priorities : call' = [NoCall EXCEPT !.prio = p]
    BY <1>13 DEF sys_thread_create
  <2>2. call' \in Calls /\ call'.prio \in Priorities
    BY <2>0 DEF NoCall, Calls
  <2>1. ControlOK'
    BY <1>13, <2>2 DEF sys_thread_create, Goto, ControlOK, CallOK, Steps
  <2> QED BY <1>0, <1>13, <2>1, Frames DEF sys_thread_create
<1>14. CASE os_thread_alloc
  <2> DEFINE empty == {t \in Threads : state[t] = "EMPTY"}
  <2>1. ControlOK'
    <3>1. CASE Return
      BY <3>1, ReturnOK
    <3>2. CASE empty # {} /\ Found(Lowest(empty), "alloc_commit")
      <4>1. Lowest(empty) \in Threads /\ Lowest(empty) \in Nat
        BY <3>2, LowestIn DEF Threads
      <4> HIDE DEF empty
      <4> QED BY <1>0, <1>14, <3>2, <4>1, FoundFields DEF os_thread_alloc, ControlOK, CallOK, Steps
    <3> QED BY <1>14, <3>1, <3>2 DEF os_thread_alloc
  <2> QED BY <1>0, <1>14, <2>1, Frames DEF os_thread_alloc
<1>15. CASE os_stack_create
  <2> DEFINE free == {q \in Stacks : allocations \cap StackMask(q) = {}}
  <2>1. ControlOK'
    <3>1. CASE Return
      BY <3>1, ReturnOK
    <3>2. CASE free # {} /\ Found(Lowest(free), "stack_commit")
      <4>1. Lowest(free) \in Stacks /\ Lowest(free) \in Nat
        BY <3>2, LowestIn DEF Stacks
      <4> HIDE DEF free
      <4> QED BY <1>0, <1>15, <3>2, <4>1, FoundFields DEF os_stack_create, ControlOK, CallOK, Steps
    <3> QED BY <1>15, <3>1, <3>2 DEF os_stack_create
  <2> QED BY <1>0, <1>15, <2>1, Frames DEF os_stack_create
<1>16. CASE sys_notify_object
  <2>0. PICK o \in Objects : call' = [NoCall EXCEPT !.obj = o, !.flags = {"QUEUE"}]
    BY <1>16 DEF sys_notify_object
  <2>2. call' \in Calls /\ call'.obj \in Objects
    BY <2>0 DEF NoCall, Calls
  <2>1. ControlOK'
    BY <1>16, <2>2 DEF sys_notify_object, Goto, ControlOK, CallOK, Steps
  <2> QED BY <1>0, <1>16, <2>1, Frames DEF sys_notify_object
<1>17. CASE sys_notify_object2
  <2>0. PICK o \in Objects, flags \in SUBSET {"QUEUE", "DROP"} :
            call' = [NoCall EXCEPT !.obj = o, !.flags = flags]
    BY <1>17 DEF sys_notify_object2
  <2>2. call' \in Calls /\ call'.obj \in Objects
    BY <2>0 DEF NoCall, Calls
  <2>1. ControlOK'
    BY <1>17, <2>2 DEF sys_notify_object2, Goto, ControlOK, CallOK, Steps
  <2> QED BY <1>0, <1>17, <2>1, Frames DEF sys_notify_object2
<1>18. CASE os_notify_object
  <2> DEFINE w == os_find_notified_thread_waiter(call.obj)
  <2>2. w \in DOMAIN waiters \cup {None} /\ DOMAIN waiters \subseteq Nat
    BY <1>0, WaiterFound DEF WaitType
  <2>3. Found(w, "notify_commit")
    BY <1>18 DEF os_notify_object
  <2> HIDE DEF w
  <2>4. /\ call' \in Calls /\ pc' = "notify_commit"
        /\ call'.cand = w /\ call'.obj = call.obj
    BY <1>0, <2>2, <2>3, FoundFields DEF ControlOK
  <2>5. waiters' = waiters /\ call.obj \in Objects
    BY <1>0, <1>18 DEF os_notify_object, waitVars, ControlOK, CallOK
  <2>1. ControlOK'
    BY <2>2, <2>4, <2>5 DEF ControlOK, CallOK, Steps
  <2> QED BY <1>0, <1>18, <2>1, Frames DEF os_notify_object
<1>19. CASE sys_wait_for_object
  <2>0. PICK o \in Objects : call' = [NoCall EXCEPT !.obj = o]
    BY <1>19 DEF sys_wait_for_object
  <2>2. call' \in Calls /\ call'.obj \in Objects
    BY <2>0 DEF NoCall, Calls
  <2>1. ControlOK'
    BY <1>19, <2>2 DEF sys_wait_for_object, Goto, ControlOK, CallOK, Steps
  <2> QED BY <1>0, <1>19, <2>1, Frames DEF sys_wait_for_object
<1>20. CASE sys_wait_for_object_value
  <2>1. ControlOK'
    <3>1. CASE Return
      BY <3>1, ReturnOK
    <3>2. ASSUME NEW o \in Objects,
                 call' = [NoCall EXCEPT !.obj = o], pc' = "wait"
          PROVE  ControlOK'
      <4>1. call' \in Calls /\ call'.obj \in Objects
        BY <3>2 DEF NoCall, Calls
      <4> QED BY <3>2, <4>1 DEF ControlOK, CallOK, Steps
    <3> QED BY <1>20, <3>1, <3>2 DEF sys_wait_for_object_value, Goto
  <2> QED BY <1>0, <1>20, <2>1, Frames DEF sys_wait_for_object_value
<1>21. CASE os_wait_for_object
  <2>1. ControlOK'
    <3>1. CASE Return
      BY <3>1, ReturnOK
    <3>2. ASSUME NEW me \in Threads, pc' = "wait_commit",
                 call' = [call EXCEPT !.tgt = me, !.fresh = TRUE]
          PROVE  ControlOK'
      <4>1. call' \in Calls /\ call'.tgt = me /\ call'.obj = call.obj
        BY <1>0, <3>2 DEF ControlOK, Calls
      <4> QED BY <1>0, <1>21, <3>2, <4>1 DEF os_wait_for_object, ControlOK, CallOK, Steps
    <3>3. (IF call.tgt = None THEN thread_current ELSE call.tgt) \in Threads
      BY <1>0 DEF ControlOK, Calls, SwitchType
    <3> QED BY <1>21, <3>1, <3>2, <3>3 DEF os_wait_for_object, Goto
  <2> QED BY <1>0, <1>21, <2>1, Frames DEF os_wait_for_object
<1>22. CASE sys_init_waitable_object
  <2>0. PICK o \in Objects : call' = [NoCall EXCEPT !.obj = o, !.tgt = 0]
    BY <1>22 DEF sys_init_waitable_object
  <2>2. 0 \in Threads
    BY TableAssumption DEF Threads
  <2>3. call' \in Calls /\ call'.obj \in Objects /\ call'.tgt \in Threads
    BY <2>0, <2>2 DEF NoCall, Calls
  <2>1. ControlOK'
    BY <1>22, <2>3 DEF sys_init_waitable_object, Goto, ControlOK, CallOK, Steps
  <2> QED BY <1>0, <1>22, <2>1, Frames DEF sys_init_waitable_object
<1>23. CASE os_initialize_waitable_object
  <2>2. call \in Calls /\ call.tgt \in Threads /\ call.obj \in Objects
    BY <1>0, <1>23 DEF os_initialize_waitable_object, ControlOK, CallOK
  <2>1. ControlOK'
    <3>1. CASE pc' \in {"init_commit", "clear"} /\ UNCHANGED call
      BY <2>2, <3>1 DEF ControlOK, CallOK, Steps
    <3>2. CASE /\ call.tgt + 1 \in Threads /\ pc' = "init"
               /\ call' = [call EXCEPT !.tgt = @ + 1]
      <4>1. call' \in Calls /\ call'.tgt \in Threads /\ call'.obj \in Objects
        BY <2>2, <3>2 DEF Calls
      <4> QED BY <3>2, <4>1 DEF ControlOK, CallOK, Steps
    <3> QED BY <1>23, <3>1, <3>2 DEF os_initialize_waitable_object, NextInitThread, Goto
  <2> QED BY <1>0, <1>23, <2>1, Frames DEF os_initialize_waitable_object
<1>24. CASE os_initialize_waitable_object_clear
  <2>1. ControlOK'
    <3>1. Found(None, "clear_commit")
      BY <1>24 DEF os_initialize_waitable_object_clear
    <3>2. call' \in Calls /\ pc' = "clear_commit" /\ call'.obj = call.obj
      BY <1>0, <3>1, FoundFields DEF ControlOK
    <3> QED BY <1>0, <1>24, <3>2 DEF os_initialize_waitable_object_clear, ControlOK, CallOK, Steps
  <2> QED BY <1>0, <1>24, <2>1, Frames DEF os_initialize_waitable_object_clear
<1>25. CASE os_sched_yield_commit
  <2>1. ControlOK'
    BY <1>25, ReturnOK DEF os_sched_yield_commit
  <2>2. SwitchType'
    <3>1. CASE call.fresh
      BY <1>0, <1>25, <3>1, SwitchToType DEF os_sched_yield_commit, ControlOK, CallOK
    <3>2. CASE ~call.fresh
      BY <1>0, <1>25, <3>2 DEF os_sched_yield_commit, SwitchType
    <3> QED BY <3>1, <3>2
  <2> QED BY <1>0, <1>25, <2>1, <2>2, Frames DEF os_sched_yield_commit
<1>26. CASE os_sched_yield_clear
  <2>1. ControlOK'
    BY <1>26, ReturnOK DEF os_sched_yield_clear
  <2>2. SwitchType'
    BY <1>0, <1>26, SwitchToType DEF os_sched_yield_clear
  <2> QED BY <1>0, <1>26, <2>1, <2>2, Frames DEF os_sched_yield_clear
<1>27. CASE sys_kill_signal
  <2>1. PICK t \in AppThreads :
            /\ signals' = signals \cup {t}
            /\ IF state[t] = "STOPPED"
               THEN Goto("continue") /\ call' = [NoCall EXCEPT !.tgt = t]
               ELSE Return
    BY <1>27 DEF sys_kill_signal
  <2>2. ControlOK'
    BY <2>1, ReturnOK, TargetOK DEF Goto, AppThreads
  <2>3. SignalType'
    BY <1>0, <1>27, <2>1 DEF sys_kill_signal, SignalType, AppThreads
  <2> QED BY <1>0, <1>27, <2>2, <2>3, Frames DEF sys_kill_signal
<1>28. CASE os_signal
  <2>1. ControlOK'
    BY <1>28, ReturnOK DEF os_signal
  <2>2. SignalType'
    BY <1>0, <1>28 DEF os_signal, SignalType, SwitchType
  <2> QED BY <1>0, <1>28, <2>1, <2>2, Frames DEF os_signal
<1>29. CASE os_thread_kill
  <2>0. call \in Calls /\ call.tgt \in Threads
    BY <1>0, <1>29 DEF os_thread_kill, ControlOK, CallOK
  <2>1. CASE Return /\ UNCHANGED <<state, stack_id>>
    <3>1. ControlOK'
      BY <2>1, ReturnOK
    <3>2. UNCHANGED tableVars
      BY <1>29, <2>1 DEF os_thread_kill, tableVars
    <3> QED BY <1>0, <1>29, <3>1, <3>2, Frames DEF os_thread_kill
  <2>2. CASE /\ state' = [state EXCEPT ![call.tgt] = "FINISHED"]
             /\ stack_id' = [stack_id EXCEPT ![call.tgt] = None]
             /\ Found(stack_id[call.tgt], "dispose")
    <3>1. stack_id[call.tgt] \in Stacks \cup {None} /\ Stacks \subseteq Nat
      BY <1>0, <2>0 DEF TableType, Stacks
    <3>2. /\ call' \in Calls /\ pc' = "dispose"
          /\ call'.cand = stack_id[call.tgt] /\ call'.tgt = call.tgt
      BY <2>0, <2>2, <3>1, FoundFields
    <3>3. ControlOK'
      BY <2>0, <3>1, <3>2 DEF ControlOK, CallOK, Steps
    <3>4. TableType'
      BY <1>0, <1>29, <2>0, <2>2 DEF os_thread_kill, TableType, States
    <3> QED BY <1>0, <1>29, <3>3, <3>4, Frames DEF os_thread_kill
  <2> QED BY <1>29, <2>1, <2>2 DEF os_thread_kill, DetachStack
<1>30. CASE os_thread_kill_dispose
  <2>1. ControlOK'
    BY <1>0, <1>30, TargetOK DEF os_thread_kill_dispose, Goto, ControlOK, CallOK
  <2>2. TableType'
    BY <1>0, <1>30 DEF os_thread_kill_dispose, os_stack_dispose, TableType
  <2> QED BY <1>0, <1>30, <2>1, <2>2, Frames DEF os_thread_kill_dispose
<1>31. CASE os_thread_stop_commit
  <2>1. ControlOK'
    BY <1>0, <1>31 DEF os_thread_stop_commit, Goto, ControlOK, CallOK, Steps
  <2>2. TableType'
    BY <1>0, <1>31 DEF os_thread_stop_commit, TableType, States, ControlOK, CallOK
  <2> QED BY <1>0, <1>31, <2>1, <2>2, Frames DEF os_thread_stop_commit
<1>32. CASE os_thread_continue_commit
  <2>1. ControlOK'
    BY <1>32, YieldOK DEF os_thread_continue_commit, Goto
  <2>2. TableType'
    BY <1>0, <1>32 DEF os_thread_continue_commit, TableType, States, ControlOK, CallOK
  <2> QED BY <1>0, <1>32, <2>1, <2>2, Frames DEF os_thread_continue_commit
<1>33. CASE os_setpriority
  <2>1. ControlOK'
    BY <1>33, YieldOK DEF os_setpriority, Goto
  <2>2. TableType'
    <3>1. PICK p \in Priorities :
              /\ base_priority' = [base_priority EXCEPT ![thread_current] = p]
              /\ priority' = IF priority[thread_current] < p
                             THEN [priority EXCEPT ![thread_current] = p]
                             ELSE priority
      BY <1>33 DEF os_setpriority
    <3>2. p \in 0 .. IdlePriority
      BY PriorityRange
    <3> QED BY <1>0, <1>33, <3>1, <3>2 DEF os_setpriority, TableType, SwitchType
  <2> QED BY <1>0, <1>33, <2>1, <2>2, Frames DEF os_setpriority
<1>34. CASE os_thread_join
  <2>1. PICK t \in AppThreads :
            IF state[t] = "FINISHED"
            THEN /\ state' = [state EXCEPT ![t] = "EMPTY"]
                 /\ Return
            ELSE /\ Goto("wait")
                 /\ call' = [NoCall EXCEPT !.obj = thread_current]
                 /\ UNCHANGED state
    BY <1>34 DEF os_thread_join
  <2>2. ControlOK'
    <3>1. CASE Return
      BY <3>1, ReturnOK
    <3>2. CASE pc' = "wait" /\ call' = [NoCall EXCEPT !.obj = thread_current]
      <4>1. call' \in Calls /\ call'.obj \in Threads
        BY <1>0, <3>2 DEF NoCall, Calls, SwitchType
      <4> QED BY <3>2, <4>1 DEF ControlOK, CallOK, Steps
    <3> QED BY <2>1, <3>1, <3>2 DEF Goto
  <2>3. TableType'
    BY <1>0, <1>34, <2>1 DEF os_thread_join, TableType, States, AppThreads
  <2> QED BY <1>0, <1>34, <2>2, <2>3, Frames DEF os_thread_join
<1>35. CASE os_thread_alloc_commit
  <2>0. call \in Calls /\ call.cand \in Threads /\ call.prio \in Priorities
    BY <1>0, <1>35 DEF os_thread_alloc_commit, ControlOK, CallOK
  <2>1. CASE call.fresh
    <3>1. ControlOK'
      <4>1. pc' = "stack" /\ call' = [call EXCEPT !.tgt = call.cand, !.cand = None]
        BY <1>35, <2>1 DEF os_thread_alloc_commit, Goto
      <4>2. call' \in Calls /\ call'.tgt = call.cand
        BY <2>0, <4>1 DEF Calls
      <4> QED BY <2>0, <4>1, <4>2 DEF ControlOK, CallOK, Steps
    <3>2. TableType'
      <4>1. call.prio \in 0 .. IdlePriority
        BY <2>0, PriorityRange
      <4> QED BY <1>0, <1>35, <2>0, <2>1, <4>1 DEF os_thread_alloc_commit, TableType, States
    <3>3. SignalType' /\ WaitType'
      BY <1>0, <1>35, <2>0, <2>1 DEF os_thread_alloc_commit, SignalType, WaitType
    <3> QED BY <1>0, <1>35, <3>1, <3>2, <3>3, Frames DEF os_thread_alloc_commit
  <2>2. CASE ~call.fresh
    <3>1. UNCHANGED <<tableVars, signalVars, waitVars, call>> /\ pc' = "alloc"
      BY <1>35, <2>2 DEF os_thread_alloc_commit, Goto, tableVars, signalVars, waitVars
    <3>2. ControlOK'
      BY <2>0, <3>1 DEF ControlOK, CallOK, Steps
    <3> QED BY <1>0, <1>35, <3>1, <3>2, Frames DEF os_thread_alloc_commit
  <2> QED BY <2>1, <2>2
<1>36. CASE os_stack_create_commit
  <2>0. call \in Calls /\ call.cand \in Stacks /\ call.tgt \in Threads
    BY <1>0, <1>36 DEF os_stack_create_commit, ControlOK, CallOK
  <2>1. ControlOK'
    <3>1. CASE call.fresh
      BY <2>0, <1>36, <3>1 DEF os_stack_create_commit, Goto, ControlOK, CallOK, Steps
    <3>2. CASE ~call.fresh
      <4>1. pc' = "stack" /\ call' = [call EXCEPT !.mask = call.mask + call.cand]
        BY <1>36, <3>2 DEF os_stack_create_commit, Goto
      <4>2. call' \in Calls /\ call'.tgt = call.tgt
        BY <2>0, <4>1 DEF Calls, Stacks
      <4> QED BY <2>0, <4>1, <4>2 DEF ControlOK, CallOK, Steps
    <3> QED BY <3>1, <3>2
  <2>2. TableType'
    BY <1>0, <1>36 DEF os_stack_create_commit, TableType, StackMask
  <2> QED BY <1>0, <1>36, <2>1, <2>2, Frames DEF os_stack_create_commit
<1>37. CASE os_thread_construct
  <2>1. ControlOK'
    BY <1>37, ReturnOK DEF os_thread_construct
  <2>2. TableType'
    BY <1>0, <1>37 DEF os_thread_construct, TableType, States, ControlOK, CallOK
  <2> QED BY <1>0, <1>37, <2>1, <2>2, Frames DEF os_thread_construct
<1>38. CASE os_notify_object_commit
  <2>0. /\ call \in Calls /\ call.obj \in Objects
        /\ call.fresh => call.cand \in DOMAIN waiters \cup {None}
    BY <1>0, <1>38 DEF os_notify_object_commit, ControlOK, CallOK
  <2>1. CASE ~call.fresh
    <3>1. /\ UNCHANGED <<state, priority, waitVars, call>> /\ pc' = "notify"
      BY <1>38, <2>1 DEF os_notify_object_commit, Goto
    <3>2. UNCHANGED tableVars
      BY <1>38, <3>1 DEF os_notify_object_commit, tableVars
    <3>3. ControlOK'
      BY <2>0, <3>1 DEF ControlOK, CallOK, Steps
    <3> QED BY <1>0, <1>38, <3>1, <3>2, <3>3, Frames DEF os_notify_object_commit
  <2>2. CASE call.fresh /\ call.cand # None
    <3> DEFINE t == waiters[call.cand]
    <3>1. NotifyWaiter
      BY <1>38, <2>2 DEF os_notify_object_commit
    <3>2. call.cand \in DOMAIN waiters /\ t \in Threads
      BY <1>0, <2>0, <2>2 DEF WaitType
    <3>3. ControlOK'
      BY <3>1, ReturnOK, YieldOK DEF NotifyWaiter, Goto
    <3>4. os_notify_thread(t)
      BY <3>1 DEF NotifyWaiter
    <3>5. /\ state' \in [Threads -> States]
          /\ wait_object' \in [Threads -> Objects \cup Threads \cup {None}]
      BY <1>0, <3>2, <3>4, NotifyThreadType
    <3>6. WaitType'
      <4>1. waiters' \in Seq(Threads)
        BY <1>0, <3>1, <3>2, DeleteType DEF NotifyWaiter, WaitType
      <4> QED BY <1>0, <3>1, <3>5, <4>1 DEF NotifyWaiter, WaitType
    <3>7. priority' \in [Threads -> 0 .. IdlePriority]
      BY <1>0, <3>1 DEF NotifyWaiter, DroppedPriority, TableType, SwitchType
    <3>8. TableType'
      BY <1>0, <1>38, <3>5, <3>7 DEF os_notify_object_commit, TableType
    <3> QED BY <1>0, <1>38, <3>3, <3>6, <3>8, Frames DEF os_notify_object_commit
  <2>3. CASE call.fresh /\ call.cand = None
    <3>1. NotifyNobody
      BY <1>38, <2>3 DEF os_notify_object_commit
    <3>2. ControlOK'
      BY <3>1, ReturnOK DEF NotifyNobody
    <3>3. WaitType'
      BY <1>0, <2>0, <3>1 DEF NotifyNobody, os_notify_queue_event, WaitType
    <3>4. UNCHANGED tableVars
      BY <1>38, <3>1 DEF os_notify_object_commit, NotifyNobody, tableVars
    <3> QED BY <1>0, <1>38, <3>2, <3>3, <3>4, Frames DEF os_notify_object_commit
  <2> QED BY <2>1, <2>2, <2>3
<1>39. CASE isr_notify_object \/ isr_kill
  <2>1. Typed
    BY <1>0 DEF Typed, LocalsOK, ControlOK
  <2>2. Typed' /\ pc' = pc
    BY <1>39, <2>1, InterruptType
  <2> QED BY <1>0, <2>2 DEF Typed, LocalsOK, ControlOK
<1>40. CASE os_wait_for_object_commit
  <2>0. call \in Calls /\ call.tgt \in Threads /\ call.obj \in Objects \cup Threads
    BY <1>0, <1>40 DEF os_wait_for_object_commit, ControlOK, CallOK
  <2>1. CASE ~call.fresh
    <3>1. UNCHANGED <<state, waitVars, call>> /\ pc' = "wait"
      BY <1>40, <2>1 DEF os_wait_for_object_commit, Goto
    <3>2. UNCHANGED tableVars
      BY <1>40, <3>1 DEF os_wait_for_object_commit, tableVars
    <3>3. ControlOK'
      BY <2>0, <3>1 DEF ControlOK, CallOK, Steps
    <3> QED BY <1>0, <1>40, <3>1, <3>2, <3>3, Frames DEF os_wait_for_object_commit
  <2>2. CASE call.fresh /\ HasPending(call.obj)
    <3>1. Consume
      BY <1>40, <2>2 DEF os_wait_for_object_commit, ConsumeOrBlock
    <3>2. ControlOK'
      BY <3>1, ReturnOK DEF Consume
    <3>3. WaitType'
      BY <1>0, <2>2, <3>1 DEF Consume, HasPending, WaitType
    <3>4. UNCHANGED tableVars
      BY <1>40, <3>1 DEF os_wait_for_object_commit, Consume, tableVars
    <3> QED BY <1>0, <1>40, <3>2, <3>3, <3>4, Frames DEF os_wait_for_object_commit
  <2>3. CASE call.fresh /\ ~HasPending(call.obj)
    <3>1. Block
      BY <1>40, <2>3 DEF os_wait_for_object_commit, ConsumeOrBlock
    <3>2. ControlOK'
      BY <3>1, YieldOK DEF Block, Goto
    <3>3. WaitType'
      BY <1>0, <2>0, <3>1 DEF Block, WaitType
    <3>4. TableType'
      BY <1>0, <1>40, <2>0, <3>1 DEF os_wait_for_object_commit, Block, TableType, States
    <3> QED BY <1>0, <1>40, <3>2, <3>3, <3>4, Frames DEF os_wait_for_object_commit
  <2> QED BY <2>1, <2>2, <2>3
<1>41. CASE os_initialize_waitable_object_commit
  <2>0. call \in Calls /\ call.tgt \in Threads /\ call.obj \in Objects
    BY <1>0, <1>41 DEF os_initialize_waitable_object_commit, ControlOK, CallOK
  <2>1. ControlOK'
    <3>1. CASE /\ call.tgt + 1 \in Threads /\ pc' = "init"
               /\ call' = [call EXCEPT !.tgt = call.tgt + 1, !.fresh = TRUE]
      <4>1. call' \in Calls /\ call'.tgt \in Threads /\ call'.obj \in Objects
        BY <2>0, <3>1 DEF Calls
      <4> QED BY <3>1, <4>1 DEF ControlOK, CallOK, Steps
    <3>2. CASE pc' = "clear" /\ call' = [call EXCEPT !.fresh = TRUE]
      <4>1. call' \in Calls /\ call'.obj \in Objects
        BY <2>0, <3>2 DEF Calls
      <4> QED BY <3>2, <4>1 DEF ControlOK, CallOK, Steps
    <3> QED BY <1>41, <3>1, <3>2 DEF os_initialize_waitable_object_commit, Goto
  <2>2. /\ state' \in [Threads -> States]
        /\ wait_object' \in [Threads -> Objects \cup Threads \cup {None}]
    <3>1. CASE os_notify_thread(call.tgt)
      BY <1>0, <2>0, <3>1, NotifyThreadType
    <3>2. CASE UNCHANGED <<state, wait_object>>
      BY <1>0, <3>2 DEF TableType, WaitType
    <3> QED BY <1>41, <3>1, <3>2 DEF os_initialize_waitable_object_commit
  <2>3. TableType' /\ WaitType'
    BY <1>0, <1>41, <2>2 DEF os_initialize_waitable_object_commit, TableType, WaitType
  <2> QED BY <1>0, <1>41, <2>1, <2>3, Frames DEF os_initialize_waitable_object_commit
<1>42. CASE os_initialize_waitable_object_clear_commit
  <2>0. call \in Calls /\ call.obj \in Objects
    BY <1>0, <1>42 DEF os_initialize_waitable_object_clear_commit, ControlOK, CallOK
  <2>1. ControlOK'
    <3>1. CASE Return
      BY <3>1, ReturnOK
    <3>2. CASE pc' = "clear" /\ UNCHANGED call
      BY <2>0, <3>2 DEF ControlOK, CallOK, Steps
    <3> QED BY <1>42, <3>1, <3>2 DEF os_initialize_waitable_object_clear_commit, Goto
  <2>2. WaitType'
    BY <1>0, <1>42, <2>0 DEF os_initialize_waitable_object_clear_commit, WaitType
  <2> QED BY <1>0, <1>42, <2>1, <2>2, Frames DEF os_initialize_waitable_object_clear_commit
<1>43. CASE PendSV
  <2>1. ControlOK'
    BY <1>0, <1>43 DEF PendSV, waitVars, ControlOK, CallOK
  <2>2. TableType'
    <3>1. Leave(state, thread_current) \in [Threads -> States]
      BY <1>0 DEF Leave, TableType, States
    <3> QED BY <1>0, <1>43, <3>1 DEF PendSV, TableType, SwitchType, States
  <2>3. SignalType'
    BY <1>0, <1>43 DEF PendSV, SignalType
  <2>4. SwitchType'
    BY <1>0, <1>43 DEF PendSV, os_request_context_switch, SwitchType
  <2> QED BY <1>0, <1>43, <2>1, <2>2, <2>3, <2>4, Frames DEF PendSV
<1>44. CASE UNCHANGED vars
  <2>1. UNCHANGED <<tableVars, signalVars, waitVars, switchVars, pc, call>>
    BY <1>44 DEF vars
  <2>2. ControlOK'
    BY <1>0, <2>1 DEF waitVars, ControlOK, CallOK
  <2> QED BY <1>0, <2>1, <2>2, Frames
<1> QED
  BY <1>1, <1>2, <1>3, <1>4, <1>5, <1>6, <1>7, <1>8, <1>9, <1>10, <1>11,
     <1>12, <1>13, <1>14, <1>15, <1>16, <1>17, <1>18, <1>19, <1>20, <1>21,
     <1>22, <1>23, <1>24, <1>25, <1>26, <1>27, <1>28, <1>29, <1>30, <1>31,
     <1>32, <1>33, <1>34, <1>35, <1>36, <1>37, <1>38, <1>39, <1>40, <1>41,
     <1>42, <1>43, <1>44
     DEF Next, Syscall, HandlerStep, Interrupt

\* With somebody to run, os_get_next_thread finds a thread, unless the current
\* one is runnable itself and nobody is more urgent.
LEMMA NobodyFound ==
    ASSUME NEW st, NEW pr \in [Threads -> 0 .. IdlePriority], NEW cur \in Nat,
           NEW r \in Threads, RunnableIn(st, r),
           os_get_next_thread(cur, st, pr) \notin Threads
    PROVE  /\ cur \in Threads
           /\ RunnableIn(st, cur)
           /\ \A u \in Threads : RunnableIn(st, u) => pr[cur] <= pr[u]
<1> DEFINE T == {t \in Threads : RunnableIn(st, t)}
           prios == {pr[t] : t \in T}
           best == Lowest(prios)
           B == {t \in T : pr[t] = best}
           places == {ScanPosition(cur, t) : t \in B}
           place == Lowest(places)
<1>1. prios \subseteq Nat /\ prios # {}
  BY DEF IdlePriority
<1>2. best \in prios /\ \A p \in prios : best <= p
  BY <1>1, LowestIn
<1>3. \A t \in Threads : ScanPosition(cur, t) \in Nat
  <2>1. (cur + 1) % OS_THREADS \in 0 .. OS_THREADS - 1
    BY TableAssumption
  <2>2. ASSUME NEW t \in Threads
        PROVE  t + OS_THREADS - ((cur + 1) % OS_THREADS) \in Nat
    BY <2>1, TableAssumption DEF Threads
  <2>3. \A x \in Nat : x % OS_THREADS \in Nat
    BY TableAssumption
  <2> QED BY <2>2, <2>3 DEF ScanPosition
<1>4. B # {}
  BY <1>2
<1>5. places \subseteq Nat /\ places # {}
  BY <1>3, <1>4
<1>6. place \in places /\ \A p \in places : place <= p
  BY <1>5, LowestIn
<1>7. PICK t \in B : ScanPosition(cur, t) = place
  BY <1>6
<1>8. ASSUME NEW u \in Threads, RunnableIn(st, u)
      PROVE  \/ pr[t] < pr[u]
             \/ pr[t] = pr[u] /\ ScanPosition(cur, t) <= ScanPosition(cur, u)
  <2>1. pr[u] \in prios /\ pr[t] = best
    BY <1>8
  <2>2. best <= pr[u] /\ best \in Nat /\ pr[u] \in Nat
    BY <1>1, <1>2, <2>1
  <2>3. CASE pr[u] = best
    <3>1. ScanPosition(cur, u) \in places
      BY <1>8, <2>3
    <3> QED BY <1>6, <1>7, <2>1, <2>3, <3>1
  <2> QED BY <2>1, <2>2, <2>3
<1>9. t \in Threads /\ RunnableIn(st, t)
  OBVIOUS
<1>10. t # cur => SettlesFor(cur, t, st, pr)
  BY <1>8, <1>9 DEF SettlesFor
<1> HIDE DEF T, prios, best, B, places, place
<1>11. t = cur
  BY <1>9, <1>10 DEF os_get_next_thread
<1>12. \A u \in Threads : pr[u] \in Nat
  BY DEF IdlePriority
<1> QED BY <1>8, <1>9, <1>11, <1>12

\* So a core whose current thread cannot go on, or that has none, finds one:
\* _os_start always has a thread to boot.
LEMMA SomeoneFound ==
    ASSUME NEW st, NEW pr \in [Threads -> 0 .. IdlePriority],
           NEW cur \in Nat, cur \notin Threads \/ ~RunnableIn(st, cur),
           NEW r \in Threads, RunnableIn(st, r)
    PROVE  os_get_next_thread(cur, st, pr) \in Threads
BY NobodyFound

\* os_init_core and os_start leave the tables, and the thread they boot, well
\* typed: the search for the first thread finds the idle thread if no other.
LEMMA TypeInit == Init => TypeInv
<1> SUFFICES ASSUME Init PROVE TypeInv
  OBVIOUS
<1> DEFINE st == [t \in Threads |-> IF t <= IdleThread THEN "READY" ELSE "EMPTY"]
           pr == [t \in Threads |-> IF t < IdleThread THEN Autostart[t + 1]
                                    ELSE IF t = IdleThread THEN IdlePriority ELSE 0]
           first == os_get_next_thread(255, st, pr)
<1>1. IdleThread \in Nat /\ IdleThread \in Threads /\ IdleThread \in Stacks
  BY TableAssumption DEF IdleThread, Threads, Stacks
<1>2. pr \in [Threads -> 0 .. IdlePriority]
  <2>1. ASSUME NEW t \in Threads, t < IdleThread
        PROVE  Autostart[t + 1] \in 0 .. IdlePriority
    <3>1. t + 1 \in 1 .. Len(Autostart) /\ Autostart \in Seq(Priorities)
      BY <2>1, TableAssumption DEF IdleThread, Threads
    <3>2. Autostart[t + 1] \in Priorities
      BY <3>1
    <3> QED BY <3>2, PriorityRange
  <2> QED BY <2>1 DEF IdlePriority
<1>3. first \in Threads
  <2>1. RunnableIn(st, IdleThread)
    BY <1>1 DEF RunnableIn
  <2>2. 255 \notin Threads
    BY TableAssumption DEF Threads
  <2> HIDE DEF st, pr
  <2> QED BY <1>1, <1>2, <2>1, <2>2, SomeoneFound
<1>4. st \in [Threads -> States]
  BY DEF States
<1> HIDE DEF pr, first
<1>5. /\ state = [st EXCEPT ![first] = "RUNNING"] /\ priority = pr /\ base_priority = pr
      /\ thread_current = first /\ cpu = first
  BY DEF Init, pr, first
<1>6. TableType
  <2>1. allocations \in SUBSET (0 .. MaskBits - 1)
    BY <1>1, TableAssumption DEF Init, Stacks, MaskBits
  <2>2. stack_id \in [Threads -> Stacks \cup {None}]
    BY <1>1, TableAssumption DEF Init, Stacks, Threads
  <2>3. state \in [Threads -> States]
    BY <1>4, <1>5 DEF States
  <2> QED BY <1>2, <1>5, <2>1, <2>2, <2>3 DEF TableType
<1>7. SignalType
  BY DEF Init, SignalType
<1>8. WaitType
  BY DEF Init, WaitType
<1>9. SwitchType
  <2>1. 0 \in Threads
    BY TableAssumption DEF Threads
  <2>2. pendsv = FALSE /\ thread_next = 0 /\ old_task = None /\ new_task = None
    BY DEF Init
  <2> QED BY <1>3, <1>5, <2>1, <2>2 DEF SwitchType
<1>10. pc = "user" /\ call = NoCall
  BY DEF Init
<1>11. pc \in Steps /\ call \in Calls /\ CallOK
  BY <1>10 DEF Steps, Calls, NoCall, CallOK
<1> QED BY <1>6, <1>7, <1>8, <1>9, <1>11 DEF TypeInv, TypeOK

\* Every variable keeps its type, whatever the applications call and wherever
\* interrupts hit: no handler of sched.c, signal.c, notify.c or isr.c indexes a
\* table out of range.
THEOREM TypeCorrect == Spec => []TypeOK
<1>1. TypeInv => TypeOK
  BY DEF TypeInv
<1> QED BY <1>1, TypeInit, TypeStep, PTL DEF Spec

------------------------------------------------------------------------------
(***************************************************************************)
(* Stacks.                                                                 *)
(***************************************************************************)

Owned == StackOwnership /\ CreationOwnsNothing

\* Steps that neither move a stack nor prepare to.
Quiet ==
    /\ UNCHANGED <<stack_id, allocations>>
    /\ \A t \in Threads : Gone(t)' => Gone(t)
    /\ pc \notin {"construct", "dispose"}
    /\ pc' \notin {"alloc", "alloc_commit", "stack", "stack_commit", "construct", "dispose"}

\* A step that touches no stack and no thread under construction keeps Owned.
LEMMA QuietOwned == Owned /\ Quiet => Owned'
<1> SUFFICES ASSUME Owned, Quiet PROVE Owned'
  OBVIOUS
<1>1. InTransit = {} /\ InTransit' = {}
  BY DEF Quiet, InTransit
<1>2. StackOwnership'
  BY <1>1 DEF Owned, Quiet, StackOwnership
<1>3. CreationOwnsNothing'
  BY DEF Owned, Quiet, CreationOwnsNothing
<1> QED BY <1>2, <1>3 DEF Owned

\* An interrupt changes neither the stacks nor the step of the handler it hits.
LEMMA InterruptOwned ==
    ASSUME Owned, UNCHANGED <<stack_id, allocations, pc>>,
           \A t \in Threads : Gone(t)' => Gone(t),
           call'.tgt = call.tgt, call'.cand = call.cand, call'.mask = call.mask,
           \/ call'.fresh = call.fresh
           \/ "create" \notin Ops
    PROVE  Owned'
<1>1. InTransit' = InTransit
  BY DEF InTransit
<1>2. StackOwnership'
  BY <1>1 DEF Owned, StackOwnership
<1>3. CreationOwnsNothing'
  BY DEF Owned, CreationOwnsNothing
<1> QED BY <1>2, <1>3 DEF Owned

\* No handler but os_thread_kill finishes a thread.
LEMMA NotifiedIsLive ==
    ASSUME TableType, NEW t \in Threads, os_notify_thread(t)
    PROVE  \A u \in Threads : Gone(u)' => Gone(u)
BY DEF os_notify_thread, Awakened, cb_syscall_notify_object,
       cb_thread_join_notify, TableType, Gone

\* A mask that starts at the first bit covers just the candidate: bit q stands
\* for stack q, and every stack has a bit.
LEMMA OneBit ==
  ASSUME call.mask = 0, NEW q \in Stacks
  PROVE  StackMask(q) = {q}
<1>1. OS_STACKS \in 1 .. 32
  BY TableAssumption DEF MaskBits
<1>2. q \in 0 .. MaskBits - 1
  BY <1>1 DEF Stacks, MaskBits
<1>3. call.mask + q = q
  BY <1>2 DEF MaskBits
<1> QED BY <1>2, <1>3 DEF StackMask

\* Every step keeps each stack with exactly one owner. Only the steps that
\* create or dispose a stack or finish a thread are not quiet.
LEMMA StackStep ==
    ASSUME "create" \notin Ops \/ "isr_notify" \notin Ops,
           StackInv, [Next]_vars
    PROVE  StackInv'
<1>0. /\ TypeInv /\ TypeInv' /\ Owned
      /\ TableType /\ WaitType /\ SwitchType /\ ControlOK
  BY TypeStep DEF StackInv, Owned, TypeInv, TypeOK, ControlOK
<1> SUFFICES Owned'
  BY <1>0 DEF StackInv, Owned
<1>1. CASE SVC_Handler
  <2>1. Quiet
    BY <1>0, <1>1 DEF Quiet, Gone, SVC_Handler, Goto, tableVars
  <2> QED BY <1>0, <2>1, QuietOwned
<1>2. CASE os_system_call_reports
  <2>1. Quiet
    BY <1>0, <1>2 DEF Quiet, Gone, os_system_call_reports, SVC, Return, tableVars
  <2> QED BY <1>0, <2>1, QuietOwned
<1>3. CASE sys_sched_yield
  <2>1. Quiet
    BY <1>0, <1>3 DEF Quiet, Gone, sys_sched_yield, SVC, Goto, tableVars
  <2> QED BY <1>0, <2>1, QuietOwned
<1>4. CASE os_sched_yield
  <2>1. Quiet
    BY <1>0, <1>4 DEF Quiet, Gone, os_sched_yield, Found, tableVars
  <2> QED BY <1>0, <2>1, QuietOwned
<1>5. CASE os_sched_yield_commit
  <2>1. Quiet
    BY <1>0, <1>5 DEF Quiet, Gone, os_sched_yield_commit, Return, tableVars
  <2> QED BY <1>0, <2>1, QuietOwned
<1>6. CASE os_sched_yield_clear
  <2>1. Quiet
    BY <1>0, <1>6 DEF Quiet, Gone, os_sched_yield_clear, Return, tableVars
  <2> QED BY <1>0, <2>1, QuietOwned
<1>7. CASE SysTick
  <2>1. Quiet
    BY <1>0, <1>7 DEF Quiet, Gone, SysTick, Goto, tableVars
  <2> QED BY <1>0, <2>1, QuietOwned
<1>8. CASE sys_kill_SIGSTOP
  <2>1. Quiet
    BY <1>0, <1>8 DEF Quiet, Gone, sys_kill_SIGSTOP, os_kill_dispatch, SVC, Goto, tableVars
  <2> QED BY <1>0, <2>1, QuietOwned
<1>9. CASE sys_kill_SIGCONT
  <2>1. Quiet
    BY <1>0, <1>9 DEF Quiet, Gone, sys_kill_SIGCONT, os_kill_dispatch, SVC, Goto, tableVars
  <2> QED BY <1>0, <2>1, QuietOwned
<1>10. CASE sys_kill_SIGKILL
  <2>1. Quiet
    BY <1>0, <1>10 DEF Quiet, Gone, sys_kill_SIGKILL, os_kill_dispatch, SVC, Goto, tableVars
  <2> QED BY <1>0, <2>1, QuietOwned
<1>11. CASE sys_kill_signal
  <2>1. Quiet
    BY <1>0, <1>11 DEF Quiet, Gone, sys_kill_signal, SVC, Goto, Return, tableVars
  <2> QED BY <1>0, <2>1, QuietOwned
<1>12. CASE os_signal
  <2>1. Quiet
    BY <1>0, <1>12 DEF Quiet, Gone, os_signal, SVC, Return, tableVars
  <2> QED BY <1>0, <2>1, QuietOwned
<1>13. CASE sys_thread_exit
  <2>1. Quiet
    BY <1>0, <1>13 DEF Quiet, Gone, sys_thread_exit, SVC, Goto, tableVars
  <2> QED BY <1>0, <2>1, QuietOwned
<1>14. CASE yield_if_current
  <2>1. Quiet
    BY <1>0, <1>14 DEF Quiet, Gone, yield_if_current, YieldIfCurrent, Goto, Return, tableVars
  <2> QED BY <1>0, <2>1, QuietOwned
<1>15. CASE os_thread_stop
  <2>1. Quiet
    BY <1>0, <1>15 DEF Quiet, Gone, os_thread_stop, Found, Return, tableVars
  <2> QED BY <1>0, <2>1, QuietOwned
<1>16. CASE os_thread_stop_commit
  <2>1. Quiet
    BY <1>0, <1>16 DEF Quiet, Gone, os_thread_stop_commit, Goto, ControlOK, CallOK, TableType, tableVars
  <2> QED BY <1>0, <2>1, QuietOwned
<1>17. CASE os_thread_continue
  <2>1. Quiet
    BY <1>0, <1>17 DEF Quiet, Gone, os_thread_continue, Found, Return, tableVars
  <2> QED BY <1>0, <2>1, QuietOwned
<1>18. CASE os_thread_continue_commit
  <2>1. Quiet
    BY <1>0, <1>18 DEF Quiet, Gone, os_thread_continue_commit, Goto, ControlOK, CallOK, TableType, tableVars
  <2> QED BY <1>0, <2>1, QuietOwned
<1>19. CASE os_setpriority
  <2>1. Quiet
    BY <1>0, <1>19 DEF Quiet, Gone, os_setpriority, SVC, Goto, tableVars
  <2> QED BY <1>0, <2>1, QuietOwned
<1>20. CASE os_thread_join
  <2>1. Quiet
    BY <1>0, <1>20 DEF Quiet, Gone, os_thread_join, SVC, Goto, Return, AppThreads, TableType, tableVars
  <2> QED BY <1>0, <2>1, QuietOwned
<1>21. CASE sys_notify_object
  <2>1. Quiet
    BY <1>0, <1>21 DEF Quiet, Gone, sys_notify_object, SVC, Goto, tableVars
  <2> QED BY <1>0, <2>1, QuietOwned
<1>22. CASE sys_notify_object2
  <2>1. Quiet
    BY <1>0, <1>22 DEF Quiet, Gone, sys_notify_object2, SVC, Goto, tableVars
  <2> QED BY <1>0, <2>1, QuietOwned
<1>23. CASE os_notify_object
  <2>1. Quiet
    BY <1>0, <1>23 DEF Quiet, Gone, os_notify_object, Found, tableVars
  <2> QED BY <1>0, <2>1, QuietOwned
<1>24. CASE sys_wait_for_object
  <2>1. Quiet
    BY <1>0, <1>24 DEF Quiet, Gone, sys_wait_for_object, SVC, Goto, tableVars
  <2> QED BY <1>0, <2>1, QuietOwned
<1>25. CASE sys_wait_for_object_value
  <2>1. Quiet
    BY <1>0, <1>25 DEF Quiet, Gone, sys_wait_for_object_value, SVC, Goto, Return, tableVars
  <2> QED BY <1>0, <2>1, QuietOwned
<1>26. CASE os_wait_for_object
  <2>1. Quiet
    BY <1>0, <1>26 DEF Quiet, Gone, os_wait_for_object, Goto, Return, tableVars
  <2> QED BY <1>0, <2>1, QuietOwned
<1>27. CASE sys_init_waitable_object
  <2>1. Quiet
    BY <1>0, <1>27 DEF Quiet, Gone, sys_init_waitable_object, SVC, Goto, tableVars
  <2> QED BY <1>0, <2>1, QuietOwned
<1>28. CASE os_initialize_waitable_object
  <2>1. Quiet
    BY <1>0, <1>28 DEF Quiet, Gone, os_initialize_waitable_object, NextInitThread, Goto, tableVars
  <2> QED BY <1>0, <2>1, QuietOwned
<1>29. CASE os_initialize_waitable_object_clear
  <2>1. Quiet
    BY <1>0, <1>29 DEF Quiet, Gone, os_initialize_waitable_object_clear, Found, tableVars
  <2> QED BY <1>0, <2>1, QuietOwned
<1>30. CASE os_initialize_waitable_object_clear_commit
  <2>1. Quiet
    BY <1>0, <1>30 DEF Quiet, Gone, os_initialize_waitable_object_clear_commit, Goto, Return, tableVars
  <2> QED BY <1>0, <2>1, QuietOwned
<1>31. CASE os_wait_for_object_commit
  <2>1. Quiet
    <3>1. \A t \in Threads : Gone(t)' => Gone(t)
      BY <1>0, <1>31 DEF os_wait_for_object_commit, ConsumeOrBlock, Consume, Block,
                        ControlOK, CallOK, TableType, Gone
    <3> QED BY <1>31, <3>1 DEF Quiet, os_wait_for_object_commit, ConsumeOrBlock, Consume, Block,
                              Goto, Return
  <2> QED BY <1>0, <2>1, QuietOwned
<1>32. CASE os_notify_object_commit
  <2>1. Quiet
    <3>1. \A t \in Threads : Gone(t)' => Gone(t)
      <4>1. CASE UNCHANGED state
        BY <4>1 DEF Gone
      <4>2. CASE call.fresh /\ call.cand # None /\ NotifyWaiter
        <5>1. waiters[call.cand] \in Threads
          BY <1>0, <1>32, <4>2 DEF os_notify_object_commit, ControlOK, CallOK, WaitType
        <5> QED BY <1>0, <4>2, <5>1, NotifiedIsLive DEF NotifyWaiter
      <4> QED BY <1>32, <4>1, <4>2 DEF os_notify_object_commit, NotifyNobody
    <3> QED BY <1>32, <3>1 DEF Quiet, os_notify_object_commit, NotifyWaiter, NotifyNobody,
                              Goto, Return
  <2> QED BY <1>0, <2>1, QuietOwned
<1>33. CASE os_initialize_waitable_object_commit
  <2>1. call.tgt \in Threads
    BY <1>0, <1>33 DEF os_initialize_waitable_object_commit, ControlOK, CallOK
  <2>2. \A t \in Threads : Gone(t)' => Gone(t)
    <3>1. CASE UNCHANGED state
      BY <3>1 DEF Gone
    <3>2. CASE os_notify_thread(call.tgt)
      BY <1>0, <2>1, <3>2, NotifiedIsLive
    <3> QED BY <1>33, <3>1, <3>2 DEF os_initialize_waitable_object_commit
  <2>3. Quiet
    BY <1>33, <2>2 DEF Quiet, os_initialize_waitable_object_commit, Goto
  <2> QED BY <1>0, <2>3, QuietOwned
<1>34. CASE PendSV
  <2>1. Quiet
    <3>1. \A t \in Threads : Gone(t)' => Gone(t)
      BY <1>0, <1>34 DEF PendSV, Leave, TableType, SwitchType, Gone
    <3> QED BY <1>34, <3>1 DEF Quiet, PendSV
  <2> QED BY <1>0, <2>1, QuietOwned
<1>35. CASE "isr_notify" \in Ops /\ isr_notify_object
  <2>1. \A t \in Threads : Gone(t)' => Gone(t)
    <3>1. CASE UNCHANGED state
      BY <3>1 DEF Gone
    <3>2. ASSUME NEW o \in Objects, os_find_notified_thread_waiter(o) # None,
                 os_notify_thread(waiters[os_find_notified_thread_waiter(o)])
          PROVE  \A t \in Threads : Gone(t)' => Gone(t)
      <4>1. waiters[os_find_notified_thread_waiter(o)] \in Threads
        BY <1>0, <3>2, WaiterFound DEF WaitType
      <4> QED BY <1>0, <3>2, <4>1, NotifiedIsLive
    <3> QED BY <1>35, <3>1, <3>2 DEF isr_notify_object
  <2>2. /\ call'.tgt = call.tgt /\ call'.cand = call.cand /\ call'.mask = call.mask
        /\ UNCHANGED <<stack_id, allocations, pc>>
    BY <1>0, <1>35 DEF isr_notify_object, ControlOK, Calls
  <2> QED BY <1>0, <1>35, <2>1, <2>2, InterruptOwned
<1>36. CASE isr_kill
  <2>1. \A t \in Threads : Gone(t)' => Gone(t)
    BY <1>0, <1>36 DEF isr_kill, AppThreads, TableType, Gone
  <2> QED BY <1>0, <1>36, <2>1, InterruptOwned DEF isr_kill
<1>37. CASE "create" \in Ops /\ sys_thread_create
  <2>1. PICK p \in Priorities : call' = [NoCall EXCEPT !.prio = p]
    BY <1>37 DEF sys_thread_create
  <2>2. pc = "svc" /\ pc' = "alloc" /\ call'.mask = 0 /\ call'.fresh = TRUE
    BY <1>37, <2>1 DEF sys_thread_create, SVC, Goto, NoCall
  <2>3. UNCHANGED <<state, stack_id, allocations>>
    BY <1>37 DEF sys_thread_create, tableVars
  <2>4. InTransit = {} /\ InTransit' = {}
    BY <2>2 DEF InTransit
  <2>5. StackOwnership'
    BY <1>0, <2>3, <2>4 DEF Owned, StackOwnership
  <2>6. CreationOwnsNothing'
    BY <1>0, <1>37, <2>2, <2>3 DEF Owned, CreationOwnsNothing, Gone
  <2> QED BY <2>5, <2>6 DEF Owned
<1>38. CASE os_thread_alloc
  <2> DEFINE empty == {t \in Threads : state[t] = "EMPTY"}
  <2>0. UNCHANGED <<state, stack_id, allocations>> /\ pc = "alloc"
    BY <1>38 DEF os_thread_alloc, tableVars
  <2>1. CASE Return
    <3>1. Quiet
      BY <2>0, <2>1 DEF Quiet, Return, Gone
    <3> QED BY <1>0, <3>1, QuietOwned
  <2>2. CASE empty # {} /\ Found(Lowest(empty), "alloc_commit")
    <3>1. Lowest(empty) \in empty
      BY <2>2, LowestIn DEF Threads
    <3>2. stack_id[Lowest(empty)] = None
      BY <1>0, <3>1 DEF Owned, CreationOwnsNothing, Gone
    <3> HIDE DEF empty
    <3>3. /\ pc' = "alloc_commit" /\ call'.cand = Lowest(empty)
          /\ call'.mask = call.mask /\ call'.fresh = TRUE
      BY <1>0, <2>2 DEF Found, ControlOK, Calls
    <3>4. InTransit = {} /\ InTransit' = {}
      BY <2>0, <3>3 DEF InTransit
    <3>5. StackOwnership'
      BY <1>0, <2>0, <3>4 DEF Owned, StackOwnership
    <3>6. CreationOwnsNothing'
      BY <1>0, <2>0, <3>2, <3>3 DEF Owned, CreationOwnsNothing, Gone
    <3> QED BY <3>5, <3>6 DEF Owned
  <2> QED BY <1>38, <2>1, <2>2 DEF os_thread_alloc
<1>39. CASE os_thread_alloc_commit
  <2>0. /\ call \in Calls /\ call.cand \in Threads /\ call.mask = 0 /\ call.fresh
        /\ stack_id[call.cand] = None /\ pc = "alloc_commit" /\ "create" \in Ops
    BY <1>0, <1>39 DEF os_thread_alloc_commit, ControlOK, CallOK, Owned, CreationOwnsNothing
  <2>1. /\ pc' = "stack" /\ call' = [call EXCEPT !.tgt = call.cand, !.cand = None]
        /\ stack_id' = [stack_id EXCEPT ![call.cand] = None]
        /\ state' = [state EXCEPT ![call.cand] = "CREATED"]
        /\ UNCHANGED allocations
    BY <1>39, <2>0 DEF os_thread_alloc_commit, Goto
  <2>2. call'.tgt = call.cand /\ call'.mask = 0 /\ call'.fresh
    BY <2>0, <2>1 DEF Calls
  <2>3. stack_id' = stack_id
    BY <1>0, <2>0, <2>1 DEF TableType
  <2>4. InTransit = {} /\ InTransit' = {}
    BY <2>0, <2>1 DEF InTransit
  <2>5. StackOwnership'
    BY <1>0, <2>1, <2>3, <2>4 DEF Owned, StackOwnership
  <2>6. CreationOwnsNothing'
    BY <1>0, <2>0, <2>1, <2>2, <2>3 DEF Owned, CreationOwnsNothing, Gone, TableType
  <2> QED BY <2>5, <2>6 DEF Owned
<1>40. CASE os_stack_create
  <2> DEFINE free == {q \in Stacks : allocations \cap StackMask(q) = {}}
  <2>0. /\ UNCHANGED <<state, stack_id, allocations>> /\ pc = "stack"
        /\ call.mask = 0 /\ call \in Calls /\ "create" \in Ops
        /\ stack_id[call.tgt] = None
    BY <1>0, <1>40 DEF os_stack_create, tableVars, Owned, CreationOwnsNothing, ControlOK
  <2>1. CASE Return
    <3>1. Quiet
      BY <2>0, <2>1 DEF Quiet, Return, Gone
    <3> QED BY <1>0, <3>1, QuietOwned
  <2>2. CASE free # {} /\ Found(Lowest(free), "stack_commit")
    <3>1. Lowest(free) \in free
      BY <2>2, LowestIn DEF Stacks
    <3>2. Lowest(free) \in StackMask(Lowest(free))
      BY <2>0, <3>1, OneBit
    <3>3. Lowest(free) \notin allocations
      BY <3>1, <3>2
    <3> HIDE DEF free
    <3>4. /\ pc' = "stack_commit" /\ call'.cand = Lowest(free) /\ call'.tgt = call.tgt
          /\ call'.mask = 0 /\ call'.fresh = TRUE
      BY <2>0, <2>2 DEF Found, Calls
    <3>5. InTransit = {} /\ InTransit' = {}
      BY <2>0, <3>4 DEF InTransit
    <3>6. StackOwnership'
      BY <1>0, <2>0, <3>5 DEF Owned, StackOwnership
    <3>7. CreationOwnsNothing'
      BY <1>0, <2>0, <3>3, <3>4 DEF Owned, CreationOwnsNothing, Gone
    <3> QED BY <3>6, <3>7 DEF Owned
  <2> QED BY <1>40, <2>1, <2>2 DEF os_stack_create
<1>41. CASE os_stack_create_commit
  <2>0. /\ call.cand \in Stacks /\ call.cand \notin allocations
        /\ call.mask = 0 /\ call.fresh
        /\ stack_id[call.tgt] = None /\ pc = "stack_commit"
    BY <1>0, <1>41 DEF os_stack_create_commit, ControlOK, CallOK, Owned, CreationOwnsNothing
  <2>1. StackMask(call.cand) = {call.cand}
    BY <2>0, OneBit
  <2>2. /\ allocations' = allocations \cup {call.cand}
        /\ pc' = "construct"
        /\ UNCHANGED <<state, stack_id, call>>
    BY <1>41, <2>0, <2>1 DEF os_stack_create_commit, Goto
  <2>3. call.cand # None
    BY <2>0, NoneAssumption DEF Stacks
  <2>4. InTransit = {} /\ InTransit' = {call.cand}
    BY <2>0, <2>2, <2>3 DEF InTransit
  <2>5. \A t \in Threads : stack_id[t] # call.cand
    <3>1. allocations = {stack_id[t] : t \in Threads} \ {None}
      BY <1>0, <2>4 DEF Owned, StackOwnership
    <3> QED BY <2>0, <2>3, <3>1
  <2>6. StackOwnership'
    BY <1>0, <2>2, <2>4, <2>5 DEF Owned, StackOwnership
  <2>7. CreationOwnsNothing'
    BY <1>0, <2>0, <2>2 DEF Owned, CreationOwnsNothing, Gone
  <2> QED BY <2>6, <2>7 DEF Owned
<1>42. CASE os_thread_construct
  <2>0. /\ call.cand \in Stacks /\ call.tgt \in Threads
        /\ stack_id[call.tgt] = None /\ pc = "construct"
    BY <1>0, <1>42 DEF os_thread_construct, ControlOK, CallOK, Owned, CreationOwnsNothing
  <2>1. /\ stack_id' = [stack_id EXCEPT ![call.tgt] = call.cand]
        /\ state' = [state EXCEPT ![call.tgt] = "READY"]
        /\ pc' = "user"
        /\ UNCHANGED allocations
    BY <1>42 DEF os_thread_construct, Return
  <2>2. call.cand # None
    BY <2>0, NoneAssumption DEF Stacks
  <2>3. InTransit = {call.cand} /\ InTransit' = {}
    BY <2>0, <2>1, <2>2 DEF InTransit
  <2>4. /\ \A t \in Threads : stack_id[t] # call.cand
        /\ allocations = ({stack_id[t] : t \in Threads} \ {None}) \cup {call.cand}
        /\ \A t, u \in Threads : stack_id[t] # None /\ stack_id[t] = stack_id[u] => t = u
    BY <1>0, <2>3 DEF Owned, StackOwnership
  <2>5. /\ stack_id'[call.tgt] = call.cand
        /\ \A t \in Threads \ {call.tgt} : stack_id'[t] = stack_id[t]
    BY <1>0, <2>0, <2>1 DEF TableType
  <2>6. {stack_id'[t] : t \in Threads} \ {None}
            = ({stack_id[t] : t \in Threads} \ {None}) \cup {call.cand}
    BY <2>0, <2>2, <2>5
  <2>7. StackOwnership'
    BY <2>0, <2>1, <2>3, <2>4, <2>5, <2>6 DEF StackOwnership
  <2>8. CreationOwnsNothing'
    BY <1>0, <2>0, <2>1, <2>5 DEF Owned, CreationOwnsNothing, Gone, TableType
  <2> QED BY <2>7, <2>8 DEF Owned
<1>43. CASE os_thread_kill
  <2>0. call \in Calls /\ call.tgt \in Threads /\ pc = "kill"
    BY <1>0, <1>43 DEF os_thread_kill, ControlOK, CallOK
  <2>1. CASE Return /\ UNCHANGED <<state, stack_id>>
    <3>1. Quiet
      BY <1>43, <2>0, <2>1 DEF Quiet, os_thread_kill, Return, Gone
    <3> QED BY <1>0, <3>1, QuietOwned
  <2>2. CASE /\ state' = [state EXCEPT ![call.tgt] = "FINISHED"]
             /\ stack_id' = [stack_id EXCEPT ![call.tgt] = None]
             /\ Found(stack_id[call.tgt], "dispose")
    <3>1. pc' = "dispose" /\ call'.cand = stack_id[call.tgt] /\ UNCHANGED allocations
      BY <1>43, <2>0, <2>2 DEF os_thread_kill, Found, Calls
    <3>2. InTransit = {} /\ InTransit' = {stack_id[call.tgt]} \ {None}
      BY <2>0, <3>1 DEF InTransit
    <3>3. /\ stack_id'[call.tgt] = None
          /\ \A t \in Threads \ {call.tgt} : stack_id'[t] = stack_id[t]
      BY <1>0, <2>0, <2>2 DEF TableType
    <3>4. /\ allocations = {stack_id[t] : t \in Threads} \ {None}
          /\ \A t, u \in Threads : stack_id[t] # None /\ stack_id[t] = stack_id[u] => t = u
      BY <1>0, <3>2 DEF Owned, StackOwnership
    <3>5. {stack_id[t] : t \in Threads} \ {None}
              = ({stack_id'[t] : t \in Threads} \ {None}) \cup ({stack_id[call.tgt]} \ {None})
      BY <2>0, <3>3
    <3>6. \A t \in Threads : stack_id'[t] \notin InTransit'
      BY <2>0, <3>2, <3>3, <3>4
    <3>7. StackOwnership'
      BY <2>0, <3>1, <3>2, <3>3, <3>4, <3>5, <3>6 DEF StackOwnership
    <3>8. CreationOwnsNothing'
      BY <1>0, <2>0, <2>2, <3>1, <3>3 DEF Owned, CreationOwnsNothing, Gone, TableType
    <3> QED BY <3>7, <3>8 DEF Owned
  <2> QED BY <1>43, <2>1, <2>2 DEF os_thread_kill, DetachStack
<1>44. CASE os_thread_kill_dispose
  <2>1. /\ allocations' = allocations \ {call.cand}
        /\ pc = "dispose" /\ pc' = "self"
        /\ UNCHANGED <<state, stack_id>>
    BY <1>44 DEF os_thread_kill_dispose, os_stack_dispose, Goto
  <2>2. InTransit = {call.cand} \ {None} /\ InTransit' = {}
    BY <2>1 DEF InTransit
  <2>3. /\ \A t \in Threads : stack_id[t] \notin {call.cand} \ {None}
        /\ allocations = ({stack_id[t] : t \in Threads} \ {None}) \cup ({call.cand} \ {None})
        /\ \A t, u \in Threads : stack_id[t] # None /\ stack_id[t] = stack_id[u] => t = u
    BY <1>0, <2>2 DEF Owned, StackOwnership
  <2>4. allocations' = {stack_id[t] : t \in Threads} \ {None}
    BY <2>1, <2>3
  <2>5. StackOwnership'
    BY <2>1, <2>2, <2>3, <2>4 DEF StackOwnership
  <2>6. CreationOwnsNothing'
    BY <1>0, <2>1 DEF Owned, CreationOwnsNothing, Gone
  <2> QED BY <2>5, <2>6 DEF Owned
<1>45. CASE UNCHANGED vars
  <2>1. UNCHANGED <<state, stack_id, allocations, pc, call>>
    BY <1>45 DEF vars, tableVars
  <2> QED BY <1>0, <2>1, InterruptOwned DEF Gone
<1> QED
  BY <1>1, <1>2, <1>3, <1>4, <1>5, <1>6, <1>7, <1>8, <1>9, <1>10, <1>11,
     <1>12, <1>13, <1>14, <1>15, <1>16, <1>17, <1>18, <1>19, <1>20, <1>21,
     <1>22, <1>23, <1>24, <1>25, <1>26, <1>27, <1>28, <1>29, <1>30, <1>31,
     <1>32, <1>33, <1>34, <1>35, <1>36, <1>37, <1>38, <1>39, <1>40, <1>41,
     <1>42, <1>43, <1>44, <1>45
     DEF Next, Syscall, HandlerStep, Interrupt

\* The threads constructed at start own the stacks they were given.
LEMMA StackInit == Init => StackInv
<1> SUFFICES ASSUME Init PROVE StackInv
  OBVIOUS
<1>1. TypeInv
  BY TypeInit
<1>2. /\ stack_id = [t \in Threads |-> IF t <= IdleThread THEN t ELSE None]
      /\ allocations = 0 .. IdleThread /\ pc = "user"
  BY DEF Init
<1>3. IdleThread \in Nat /\ IdleThread < OS_THREADS /\ OS_THREADS \in Nat
  BY TableAssumption DEF IdleThread
<1>4. InTransit = {}
  BY <1>2 DEF InTransit
<1>5. StackOwnership
  <2>1. allocations = {stack_id[t] : t \in Threads} \ {None}
    BY <1>2, <1>3, NoneAssumption DEF Threads
  <2>2. \A t, u \in Threads : stack_id[t] # None /\ stack_id[t] = stack_id[u] => t = u
    BY <1>2, <1>3, NoneAssumption DEF Threads
  <2> QED BY <1>4, <2>1, <2>2 DEF StackOwnership
<1>6. \A t \in Threads : Gone(t) => stack_id[t] = None
  <2> DEFINE st == [t \in Threads |-> IF t <= IdleThread THEN "READY" ELSE "EMPTY"]
  <2>1. PICK f : state = [st EXCEPT ![f] = "RUNNING"]
    BY DEF Init
  <2>2. \A t \in Threads : Gone(t) => st[t] = "EMPTY"
    BY <2>1 DEF Gone
  <2> QED BY <1>2, <2>2
<1>7. CreationOwnsNothing
  BY <1>2, <1>6 DEF CreationOwnsNothing
<1> QED BY <1>1, <1>5, <1>7 DEF StackInv

\* Stacks are neither shared, lost nor freed in use, for every size of the
\* tables and every sequence of calls, as long as thread_create is not
\* interrupted by an interrupt that notifies (a refused commit makes
\* os_stack_create hand out the wrong stack).
THEOREM StacksAreOwned ==
    ASSUME "create" \notin Ops \/ "isr_notify" \notin Ops
    PROVE  Spec => []StackOwnership
<1>1. StackInv => StackOwnership
  BY DEF StackInv
<1>2. StackInv /\ [Next]_vars => StackInv'
  BY StackStep
<1> QED BY <1>1, <1>2, StackInit, PTL DEF Spec

------------------------------------------------------------------------------
(***************************************************************************)
(* Wakeups.                                                                *)
(***************************************************************************)

\* os_find_notified_thread_waiter finds a waiter for the object that is at least
\* as urgent as every other one, and finds one if there is any.
LEMMA WaiterFoundIsBest ==
    ASSUME TableType, WaitType, NEW o
    PROVE  LET w == os_find_notified_thread_waiter(o)
           IN  /\ w = None => Candidates(o) = {}
               /\ w # None =>
                     /\ w \in Candidates(o)
                     /\ \A i \in Candidates(o) : priority[waiters[w]] <= priority[waiters[i]]
<1>1. /\ Candidates(o) \subseteq DOMAIN waiters /\ DOMAIN waiters \subseteq Nat
      /\ \A i \in Candidates(o) : priority[waiters[i]] \in Nat
  <2>1. DOMAIN waiters \subseteq Nat /\ \A i \in DOMAIN waiters : waiters[i] \in Threads
    BY DEF WaitType
  <2>2. \A t \in Threads : priority[t] \in Nat
    BY DEF TableType, IdlePriority
  <2> QED BY <2>1, <2>2 DEF Candidates
<1>2. CASE Candidates(o) = {}
  BY <1>2 DEF os_find_notified_thread_waiter
<1>3. CASE Candidates(o) # {}
  <2> DEFINE prios == {priority[waiters[i]] : i \in Candidates(o)}
             best == Lowest(prios)
             firsts == {i \in Candidates(o) : priority[waiters[i]] = best}
             w == Lowest(firsts)
  <2>1. prios \subseteq Nat /\ prios # {}
    BY <1>1, <1>3
  <2>2. best \in prios /\ \A p \in prios : best <= p
    BY <2>1, LowestIn
  <2>3. firsts \subseteq Nat /\ firsts # {}
    BY <1>1, <2>2
  <2>4. w \in firsts
    BY <2>3, LowestIn
  <2>5. w # None
    BY <2>3, <2>4, NoneAssumption
  <2>6. \A i \in Candidates(o) : priority[waiters[w]] <= priority[waiters[i]]
    BY <2>2, <2>4
  <2>7. os_find_notified_thread_waiter(o) = w
    BY <1>3 DEF os_find_notified_thread_waiter
  <2> QED BY <2>4, <2>5, <2>6, <2>7
<1> QED BY <1>2, <1>3

\* ARRAY_DELETE keeps every entry but the one it deletes, and adds none.
LEMMA DeleteKeeps ==
    ASSUME NEW S, NEW s \in Seq(S), NEW i \in DOMAIN s
    PROVE  /\ \A j \in DOMAIN s \ {i} : \E k \in DOMAIN ARRAY_DELETE(s, i) :
                 ARRAY_DELETE(s, i)[k] = s[j]
           /\ \A k \in DOMAIN ARRAY_DELETE(s, i) :
                 ARRAY_DELETE(s, i)[k] = s[IF k < i THEN k ELSE k + 1]
<1>1. /\ Len(s) \in Nat /\ DOMAIN s = 1 .. Len(s)
      /\ DOMAIN ARRAY_DELETE(s, i) = 1 .. Len(s) - 1
  BY DEF ARRAY_DELETE
<1>2. ASSUME NEW k \in 1 .. Len(s) - 1
      PROVE  ARRAY_DELETE(s, i)[k] = s[IF k < i THEN k ELSE k + 1]
  BY DEF ARRAY_DELETE
<1>3. ASSUME NEW j \in DOMAIN s \ {i}
      PROVE  \E k \in DOMAIN ARRAY_DELETE(s, i) : ARRAY_DELETE(s, i)[k] = s[j]
  <2>1. CASE j < i
    BY <1>1, <1>2, <2>1
  <2>2. CASE j > i
    <3>1. j - 1 \in 1 .. Len(s) - 1 /\ ~(j - 1 < i) /\ (j - 1) + 1 = j
      BY <1>1, <2>2
    <3>2. ARRAY_DELETE(s, i)[j - 1] = s[j]
      BY <1>2, <3>1
    <3> QED BY <1>1, <3>1, <3>2
  <2> QED BY <1>1, <2>1, <2>2
<1> QED BY <1>1, <1>2, <1>3

\* Application priorities are above the idle one.
LEMMA PriorityBelow == \A p \in Priorities : p \in Nat /\ p < IdlePriority
BY PriorityAssumption DEF IdlePriority

\* Steps that neither touch waits and priorities nor search for a waiter.
Waitless == UNCHANGED <<waitVars, priority, base_priority>> /\ pc' # "notify_commit"

\* Such a step loses no wakeup.
LEMMA WaitlessKeeps == WakeupInv /\ Waitless => WakeupInv'
BY DEF WakeupInv, WaitersAreFound, NoLostWakeup, Waitless, waitVars

\* What wakes one thread keeps the others findable.
LEMMA WakingKeeps ==
    ASSUME WaitType, WaitersAreFound, NEW w \in DOMAIN waiters,
           wait_object' = [wait_object EXCEPT ![waiters[w]] = None],
           waiters' = ARRAY_DELETE(waiters, w)
    PROVE  \A t \in Threads : wait_object'[t] # None => \E i \in DOMAIN waiters' : waiters'[i] = t
<1> SUFFICES ASSUME NEW t \in Threads, wait_object'[t] # None
             PROVE  \E i \in DOMAIN waiters' : waiters'[i] = t
  OBVIOUS
<1>1. /\ wait_object \in [Threads -> Objects \cup Threads \cup {None}]
      /\ waiters \in Seq(Threads) /\ waiters[w] \in Threads
  BY DEF WaitType
<1>2. t # waiters[w] /\ wait_object[t] # None
  BY <1>1
<1>3. PICK j \in DOMAIN waiters : waiters[j] = t
  BY <1>2 DEF WaitersAreFound
<1>4. j # w
  BY <1>2, <1>3
<1> QED BY <1>1, <1>3, <1>4, DeleteKeeps

\* Waiting ends for whoever is made to wait for nothing; a lost wakeup would need
\* somebody to wait who did not.
LEMMA EndingKeeps ==
    ASSUME WakeupInv, WaitType, NEW t \in Threads,
           wait_object' = [wait_object EXCEPT ![t] = None],
           UNCHANGED pending
    PROVE  NoLostWakeup'
BY NoneAssumption DEF WakeupInv, NoLostWakeup, WaitType, AppThreads

\* A notification is kept for later only if nobody waits.
LEMMA KeepingKeeps ==
    ASSUME WakeupInv, WaitType, NEW o \in Objects, Candidates(o) = {},
           os_notify_queue_event(o), UNCHANGED wait_object
    PROVE  NoLostWakeup'
<1> SUFFICES ASSUME NEW t \in AppThreads, wait_object[t] \in Objects
             PROVE  pending'[wait_object[t]] = 0
  BY DEF NoLostWakeup
<1>1. t \in Threads /\ wait_object[t] # None
  BY NoneAssumption DEF AppThreads
<1>2. PICK i \in DOMAIN waiters : waiters[i] = t
  BY <1>1 DEF WakeupInv, WaitersAreFound
<1>3. priority[t] < IdlePriority
  BY DEF WakeupInv, WaitersAreFound
<1>4. wait_object[t] # o
  BY <1>2, <1>3 DEF Candidates
<1>5. pending[wait_object[t]] = 0
  BY DEF WakeupInv, NoLostWakeup
<1> QED BY <1>4, <1>5 DEF os_notify_queue_event, WaitType

\* Entry points, and steps that only search, yield, or work on thread states.
LEMMA WaitlessSteps ==
    ASSUME \/ SVC_Handler \/ SysTick \/ PendSV \/ isr_kill
           \/ os_system_call_reports \/ sys_sched_yield \/ sys_thread_exit
           \/ sys_kill_SIGKILL \/ sys_kill_SIGSTOP \/ sys_kill_SIGCONT
           \/ sys_kill_signal \/ os_signal \/ os_thread_join \/ sys_thread_create
           \/ sys_notify_object \/ sys_notify_object2
           \/ sys_wait_for_object \/ sys_wait_for_object_value \/ sys_init_waitable_object
           \/ os_sched_yield \/ os_sched_yield_commit \/ os_sched_yield_clear
           \/ os_thread_kill \/ os_thread_kill_dispose \/ yield_if_current
           \/ os_thread_stop \/ os_thread_stop_commit
           \/ os_thread_continue \/ os_thread_continue_commit
           \/ os_thread_alloc \/ os_stack_create \/ os_stack_create_commit \/ os_thread_construct
           \/ os_wait_for_object \/ os_initialize_waitable_object
           \/ os_initialize_waitable_object_clear
    PROVE  Waitless \/ (pc = "notify_commit" /\ UNCHANGED <<waitVars, priority, base_priority, pc, call>>)
<1> USE DEF Waitless, tableVars, Goto, Return, Found
<1>1. CASE isr_kill
  BY <1>1 DEF isr_kill
<1>2. CASE SVC_Handler \/ SysTick \/ PendSV
  BY <1>2 DEF SVC_Handler, SysTick, PendSV
<1>3. CASE \/ os_system_call_reports \/ sys_sched_yield \/ sys_thread_exit
           \/ sys_kill_SIGKILL \/ sys_kill_SIGSTOP \/ sys_kill_SIGCONT
           \/ sys_kill_signal \/ os_signal
  BY <1>3 DEF os_system_call_reports, sys_sched_yield, sys_thread_exit, sys_kill_SIGKILL,
              sys_kill_SIGSTOP, sys_kill_SIGCONT, os_kill_dispatch, sys_kill_signal, os_signal
<1>4. CASE os_thread_join \/ sys_thread_create
  BY <1>4 DEF os_thread_join, sys_thread_create
<1>5. CASE \/ sys_notify_object \/ sys_notify_object2
           \/ sys_wait_for_object \/ sys_wait_for_object_value \/ sys_init_waitable_object
  BY <1>5 DEF sys_notify_object, sys_notify_object2, sys_wait_for_object,
              sys_wait_for_object_value, sys_init_waitable_object
<1>6. CASE os_sched_yield \/ os_sched_yield_commit \/ os_sched_yield_clear
  BY <1>6 DEF os_sched_yield, os_sched_yield_commit, os_sched_yield_clear
<1>7. CASE \/ os_thread_kill \/ os_thread_kill_dispose \/ yield_if_current
           \/ os_thread_stop \/ os_thread_stop_commit
           \/ os_thread_continue \/ os_thread_continue_commit
  BY <1>7 DEF os_thread_kill, os_thread_kill_dispose, yield_if_current, YieldIfCurrent,
              os_thread_stop, os_thread_stop_commit, os_thread_continue, os_thread_continue_commit
<1>8. CASE os_thread_alloc \/ os_stack_create \/ os_stack_create_commit \/ os_thread_construct
  BY <1>8 DEF os_thread_alloc, os_stack_create, os_stack_create_commit, os_thread_construct
<1>9. CASE os_wait_for_object \/ os_initialize_waitable_object \/ os_initialize_waitable_object_clear
  BY <1>9 DEF os_wait_for_object, os_initialize_waitable_object, NextInitThread,
              os_initialize_waitable_object_clear
<1> QED BY <1>1, <1>2, <1>3, <1>4, <1>5, <1>6, <1>7, <1>8, <1>9

\* isr_notify_object loses no wakeup, wherever it hits a handler.
LEMMA InterruptWakeup ==
    ASSUME Typed, WakeupInv, isr_notify_object
    PROVE  WakeupInv'
<1>0. TableType /\ WaitType /\ SwitchType /\ call \in Calls /\ CallOK
  BY DEF Typed, LocalsOK
<1>00. /\ WaitersAreFound
       /\ \A t \in AppThreads : priority[t] < IdlePriority /\ base_priority[t] < IdlePriority
  BY DEF WakeupInv, WaitersAreFound
<1> DEFINE Listed == \A t \in Threads : wait_object[t] # None => \E i \in DOMAIN waiters : waiters[i] = t
<1>1. PICK o \in Objects :
        LET w == os_find_notified_thread_waiter(o)
        IN  \/ /\ w = None
               /\ os_notify_queue_event(o)
               /\ UNCHANGED <<state, wait_object, waiters, switchVars>>
            \/ /\ w # None
               /\ os_notify_thread(waiters[w])
               /\ waiters' = ARRAY_DELETE(waiters, w)
               /\ UNCHANGED <<pending, thread_current, cpu>>
  BY DEF isr_notify_object
<1>2. /\ UNCHANGED <<priority, base_priority, pc>>
      /\ call' = [call EXCEPT !.fresh = (pc = "user")]
  BY DEF isr_notify_object
<1>3. pc' = "notify_commit" => ~call'.fresh
  BY <1>0, <1>2 DEF Calls
<1> DEFINE w == os_find_notified_thread_waiter(o)
<1>4. CASE w = None
  <2>1. os_notify_queue_event(o) /\ UNCHANGED <<wait_object, waiters>>
    BY <1>1, <1>4
  <2>2. Candidates(o) = {}
    BY <1>0, <1>4, WaiterFoundIsBest
  <2>3. NoLostWakeup'
    BY <1>0, <2>1, <2>2, KeepingKeeps
  <2> QED BY <1>00, <1>2, <1>3, <2>1, <2>3 DEF WakeupInv, WaitersAreFound
<1>5. CASE w # None
  <2>1. /\ wait_object' = [wait_object EXCEPT ![waiters[w]] = None]
        /\ waiters' = ARRAY_DELETE(waiters, w) /\ UNCHANGED pending
    BY <1>1, <1>5 DEF os_notify_thread
  <2>2. w \in DOMAIN waiters /\ waiters[w] \in Threads
    BY <1>0, <1>5, WaiterFound DEF WaitType
  <2> HIDE DEF w
  <2>3. Listed'
    BY <1>0, <1>00, <2>1, <2>2, WakingKeeps
  <2>4. NoLostWakeup'
    BY <1>0, <2>1, <2>2, EndingKeeps
  <2> QED BY <1>00, <1>2, <1>3, <2>3, <2>4 DEF WakeupInv, WaitersAreFound
<1> QED BY <1>4, <1>5

\* No step loses a wakeup: one case per action that touches waits or priorities.
LEMMA WakeupStep ==
    ASSUME TypeInv, WakeupInv, [Next]_vars
    PROVE  WakeupInv'
<1>0. TableType /\ WaitType /\ SwitchType /\ call \in Calls /\ CallOK
  BY DEF TypeInv, TypeOK
<1>00. /\ WaitersAreFound
       /\ \A t \in AppThreads : priority[t] < IdlePriority /\ base_priority[t] < IdlePriority
  BY DEF WakeupInv, WaitersAreFound
<1> DEFINE Listed == \A t \in Threads : wait_object[t] # None => \E i \in DOMAIN waiters : waiters[i] = t
           Visible == \A t \in AppThreads : priority[t] < IdlePriority /\ base_priority[t] < IdlePriority
<1>1. CASE Waitless
  BY <1>1, WaitlessKeeps
<1>2. CASE UNCHANGED <<waitVars, priority, base_priority, pc, call>>
  <2>1. \A o : os_find_notified_thread_waiter(o)' = os_find_notified_thread_waiter(o)
    BY <1>2 DEF os_find_notified_thread_waiter, Candidates, waitVars
  <2> QED BY <1>2, <2>1 DEF WakeupInv, WaitersAreFound, NoLostWakeup, waitVars
<1>3. CASE os_setpriority
  <2>1. PICK p \in Priorities :
            /\ base_priority' = [base_priority EXCEPT ![thread_current] = p]
            /\ priority' = IF priority[thread_current] < p
                           THEN [priority EXCEPT ![thread_current] = p] ELSE priority
    BY <1>3 DEF os_setpriority
  <2>2. p < IdlePriority
    BY PriorityBelow
  <2>3. pc' = "yield" /\ UNCHANGED waitVars
    BY <1>3 DEF os_setpriority, Goto
  <2>4. Visible'
    BY <1>0, <1>00, <2>1, <2>2 DEF TableType
  <2> QED BY <2>3, <2>4 DEF WakeupInv, WaitersAreFound, NoLostWakeup, waitVars
<1>4. CASE os_thread_alloc_commit
  <2>1. CASE call.fresh
    <3>1. call.cand \in Threads /\ call.prio \in Priorities
      BY <1>0, <1>4 DEF os_thread_alloc_commit, CallOK
    <3>2. call.prio < IdlePriority
      BY <3>1, PriorityBelow
    <3>3. /\ wait_object' = [wait_object EXCEPT ![call.cand] = None]
          /\ priority' = [priority EXCEPT ![call.cand] = call.prio]
          /\ base_priority' = [base_priority EXCEPT ![call.cand] = call.prio]
          /\ pc' = "stack" /\ UNCHANGED <<waiters, pending>>
      BY <1>4, <2>1 DEF os_thread_alloc_commit, Goto
    <3>4. Visible'
      BY <1>0, <1>00, <3>2, <3>3 DEF TableType
    <3>5. Listed'
      BY <1>0, <1>00, <3>1, <3>3 DEF WaitersAreFound, WaitType
    <3>6. NoLostWakeup'
      BY <1>0, <3>1, <3>3, EndingKeeps
    <3> QED BY <3>3, <3>4, <3>5, <3>6 DEF WakeupInv, WaitersAreFound
  <2>2. CASE ~call.fresh
    <3>1. Waitless
      BY <1>4, <2>2 DEF os_thread_alloc_commit, Waitless, waitVars, Goto
    <3> QED BY <3>1, WaitlessKeeps
  <2> QED BY <2>1, <2>2
<1>5. CASE os_notify_object
  <2>1. /\ pc' = "notify_commit" /\ UNCHANGED <<waitVars, priority, base_priority>>
        /\ call' = [call EXCEPT !.cand = os_find_notified_thread_waiter(call.obj), !.fresh = TRUE]
    BY <1>5 DEF os_notify_object, Found, tableVars
  <2>2. call'.cand = os_find_notified_thread_waiter(call.obj) /\ call'.obj = call.obj
    BY <1>0, <2>1 DEF Calls
  <2>3. os_find_notified_thread_waiter(call.obj)' = os_find_notified_thread_waiter(call.obj)
    BY <2>1, <2>2 DEF os_find_notified_thread_waiter, Candidates, waitVars
  <2> QED BY <2>1, <2>2, <2>3 DEF WakeupInv, WaitersAreFound, NoLostWakeup, waitVars
<1>6. CASE os_notify_object_commit
  <2>0. pc = "notify_commit" /\ call.obj \in Objects /\ UNCHANGED base_priority
    BY <1>0, <1>6 DEF os_notify_object_commit, CallOK
  <2>1. CASE ~call.fresh
    <3>1. Waitless
      BY <1>6, <2>1 DEF os_notify_object_commit, Waitless, waitVars, Goto
    <3> QED BY <3>1, WaitlessKeeps
  <2>2. CASE call.fresh /\ call.cand # None
    <3>1. call.cand \in DOMAIN waiters /\ waiters[call.cand] \in Threads
      BY <1>0, <2>0, <2>2 DEF CallOK, WaitType
    <3>2. NotifyWaiter
      BY <1>6, <2>2 DEF os_notify_object_commit
    <3>3. /\ wait_object' = [wait_object EXCEPT ![waiters[call.cand]] = None]
          /\ waiters' = ARRAY_DELETE(waiters, call.cand)
          /\ UNCHANGED pending /\ priority' = DroppedPriority
      BY <3>2 DEF NotifyWaiter, os_notify_thread
    <3>4. pc' # "notify_commit"
      BY <3>2 DEF NotifyWaiter, Goto, Return
    <3>5. Listed'
      BY <1>0, <1>00, <3>1, <3>3, WakingKeeps
    <3>6. Visible'
      BY <1>0, <1>00, <2>0, <3>3 DEF DroppedPriority, TableType, SwitchType
    <3>7. NoLostWakeup'
      BY <1>0, <3>1, <3>3, EndingKeeps
    <3> QED BY <3>4, <3>5, <3>6, <3>7 DEF WakeupInv, WaitersAreFound
  <2>3. CASE call.fresh /\ call.cand = None
    <3>1. NotifyNobody
      BY <1>6, <2>3 DEF os_notify_object_commit
    <3>2. pc' # "notify_commit" /\ UNCHANGED <<priority, wait_object, waiters>>
      BY <3>1 DEF NotifyNobody, Return
    <3>3. Candidates(call.obj) = {}
      BY <1>0, <1>00, <2>0, <2>3, WaiterFoundIsBest DEF WaitersAreFound
    <3>4. NoLostWakeup'
      <4>1. CASE os_notify_queue_event(call.obj)
        BY <1>0, <2>0, <3>2, <3>3, <4>1, KeepingKeeps
      <4>2. CASE UNCHANGED pending
        BY <3>2, <4>2 DEF WakeupInv, NoLostWakeup
      <4> QED BY <3>1, <4>1, <4>2 DEF NotifyNobody
    <3> QED BY <1>00, <2>0, <3>2, <3>4 DEF WakeupInv, WaitersAreFound
  <2> QED BY <2>1, <2>2, <2>3
<1>7. CASE isr_notify_object
  <2>1. Typed
    BY <1>0 DEF Typed, LocalsOK, TypeInv, TypeOK
  <2> QED BY <1>7, <2>1, InterruptWakeup
<1>8. CASE os_wait_for_object_commit
  <2>0. /\ pc = "wait_commit" /\ call.tgt \in Threads /\ call.obj \in Objects \cup Threads
        /\ UNCHANGED <<priority, base_priority>>
    BY <1>0, <1>8 DEF os_wait_for_object_commit, CallOK
  <2>1. CASE ~call.fresh
    <3>1. Waitless
      BY <1>8, <2>0, <2>1 DEF os_wait_for_object_commit, Waitless, waitVars, Goto
    <3> QED BY <3>1, WaitlessKeeps
  <2>2. CASE call.fresh /\ HasPending(call.obj)
    <3>1. /\ call.obj \in Objects /\ pending[call.obj] > 0
          /\ pending' = [pending EXCEPT ![call.obj] = @ - 1]
          /\ pc' = "user" /\ UNCHANGED <<wait_object, waiters>>
      BY <1>8, <2>2 DEF os_wait_for_object_commit, ConsumeOrBlock, Consume, Return, HasPending
    <3>2. NoLostWakeup'
      BY <1>0, <3>1 DEF WakeupInv, NoLostWakeup, WaitType
    <3> QED BY <1>00, <2>0, <3>1, <3>2 DEF WakeupInv, WaitersAreFound
  <2>3. CASE call.fresh /\ ~HasPending(call.obj)
    <3>1. /\ waiters' = Append(waiters, call.tgt)
          /\ wait_object' = [wait_object EXCEPT ![call.tgt] = call.obj]
          /\ pc' = "yield" /\ UNCHANGED pending
      BY <1>8, <2>3 DEF os_wait_for_object_commit, ConsumeOrBlock, Block, Goto
    <3>2. call.obj \in Objects => pending[call.obj] = 0
      BY <1>0, <2>3 DEF HasPending, WaitType
    <3>3. NoLostWakeup'
      BY <1>0, <2>0, <3>1, <3>2 DEF WakeupInv, NoLostWakeup, WaitType, AppThreads
    <3>4. Listed'
      <4>1. /\ Len(waiters) \in Nat /\ DOMAIN waiters = 1 .. Len(waiters)
            /\ DOMAIN waiters' = 1 .. Len(waiters) + 1
            /\ waiters'[Len(waiters) + 1] = call.tgt
            /\ \A i \in DOMAIN waiters : waiters'[i] = waiters[i]
        BY <1>0, <2>0, <3>1 DEF WaitType
      <4>2. \A t \in Threads \ {call.tgt} : wait_object'[t] = wait_object[t]
        BY <1>0, <2>0, <3>1 DEF WaitType
      <4>3. ASSUME NEW t \in Threads, wait_object'[t] # None
            PROVE  \E i \in DOMAIN waiters' : waiters'[i] = t
        <5>1. CASE t = call.tgt
          BY <4>1, <5>1
        <5>2. CASE t # call.tgt
          <6>1. PICK i \in DOMAIN waiters : waiters[i] = t
            BY <1>00, <4>2, <4>3, <5>2 DEF WaitersAreFound
          <6> QED BY <4>1, <6>1
        <5> QED BY <5>1, <5>2
      <4> QED BY <4>3
    <3> QED BY <1>00, <2>0, <3>1, <3>3, <3>4 DEF WakeupInv, WaitersAreFound
  <2> QED BY <2>1, <2>2, <2>3
<1>9. CASE os_initialize_waitable_object_commit
  <2>0. call.tgt \in Threads /\ UNCHANGED <<priority, base_priority, waiters, pending>>
    BY <1>0, <1>9 DEF os_initialize_waitable_object_commit, CallOK
  <2>1. pc' # "notify_commit"
    BY <1>9 DEF os_initialize_waitable_object_commit, Goto
  <2>2. CASE wait_object' = [wait_object EXCEPT ![call.tgt] = None]
    <3>1. Listed'
      BY <1>0, <1>00, <2>0, <2>2 DEF WaitersAreFound, WaitType
    <3>2. NoLostWakeup'
      BY <1>0, <2>0, <2>2, EndingKeeps
    <3> QED BY <1>00, <2>0, <2>1, <3>1, <3>2 DEF WakeupInv, WaitersAreFound
  <2>3. CASE UNCHANGED wait_object
    BY <2>0, <2>1, <2>3, WaitlessKeeps DEF Waitless, waitVars
  <2> QED BY <1>9, <2>2, <2>3 DEF os_initialize_waitable_object_commit, os_notify_thread
<1>10. CASE os_initialize_waitable_object_clear_commit
  <2>1. /\ pc' # "notify_commit" /\ UNCHANGED <<priority, base_priority, wait_object, waiters>>
        /\ pending' = [pending EXCEPT ![call.obj] = 0] \/ UNCHANGED pending
    BY <1>10 DEF os_initialize_waitable_object_clear_commit, Goto, Return, tableVars
  <2>2. NoLostWakeup'
    BY <1>0, <2>1 DEF WakeupInv, NoLostWakeup, WaitType
  <2> QED BY <1>00, <2>1, <2>2 DEF WakeupInv, WaitersAreFound
<1>11. CASE UNCHANGED vars
  BY <1>2, <1>11 DEF vars, tableVars
<1> HIDE DEF Listed, Visible
<1> QED
  BY <1>1, <1>2, <1>3, <1>4, <1>5, <1>6, <1>7, <1>8, <1>9, <1>10, <1>11, WaitlessSteps
     DEF Next, Syscall, HandlerStep, Interrupt

\* At start nobody waits and nothing is pending.
LEMMA WakeupInit == Init => WakeupInv
<1> SUFFICES ASSUME Init PROVE WakeupInv
  OBVIOUS
<1>1. /\ wait_object = [t \in Threads |-> None] /\ waiters = <<>>
      /\ pending = [o \in Objects |-> 0] /\ pc = "user" /\ base_priority = priority
      /\ priority = [t \in Threads |-> IF t < IdleThread THEN Autostart[t + 1]
                                       ELSE IF t = IdleThread THEN IdlePriority ELSE 0]
  BY DEF Init
<1>2. \A t \in AppThreads : priority[t] < IdlePriority
  <2> SUFFICES ASSUME NEW t \in AppThreads PROVE priority[t] < IdlePriority
    OBVIOUS
  <2>1. CASE t < IdleThread
    <3>1. t + 1 \in 1 .. Len(Autostart) /\ Autostart \in Seq(Priorities)
      BY <2>1, TableAssumption DEF IdleThread, Threads, AppThreads
    <3>2. Autostart[t + 1] \in Priorities
      BY <3>1
    <3> QED BY <1>1, <2>1, <3>2, PriorityBelow DEF AppThreads
  <2> QED BY <1>1, <2>1 DEF AppThreads, IdlePriority
<1> QED BY <1>1, <1>2, NoneAssumption DEF WakeupInv, WaitersAreFound, NoLostWakeup, AppThreads

\* No wakeup is lost, for tables of any size and any entry points: wherever
\* isr_notify_object and isr_kill interrupt wait_for_object, notify_object and
\* init_waitable_object, a notification is not left pending beside a thread that
\* waits for its object.
THEOREM WakeupsAreNotLost == Spec => []NoLostWakeup
<1>1. TypeInv /\ WakeupInv => NoLostWakeup
  BY DEF WakeupInv
<1>2. TypeInv /\ WakeupInv /\ [Next]_vars => (TypeInv /\ WakeupInv)'
  BY TypeStep, WakeupStep
<1>3. Init => TypeInv /\ WakeupInv
  BY TypeInit, WakeupInit
<1> QED BY <1>1, <1>2, <1>3, PTL DEF Spec

\* The waiter a search finds is at least as urgent as everybody who waits for
\* the object, whether the search could see them or not.
LEMMA BestWaiter ==
    ASSUME TypeInv, WakeupInv, NEW o \in Objects,
           os_find_notified_thread_waiter(o) # None,
           NEW u \in Threads, wait_object[u] = o
    PROVE  priority[waiters[os_find_notified_thread_waiter(o)]] <= priority[u]
<1> DEFINE w == os_find_notified_thread_waiter(o)
<1>0. TableType /\ WaitType
  BY DEF TypeInv, TypeOK
<1>1. w \in Candidates(o) /\ \A i \in Candidates(o) : priority[waiters[w]] <= priority[waiters[i]]
  BY <1>0, WaiterFoundIsBest
<1> SUFFICES priority[waiters[w]] <= priority[u]
  OBVIOUS
<1> HIDE DEF w
<1>2. PICK i \in DOMAIN waiters : waiters[i] = u
  BY NoneAssumption DEF WakeupInv, WaitersAreFound
<1>3. w \in DOMAIN waiters /\ priority[waiters[w]] < IdlePriority
  BY <1>1 DEF Candidates
<1>4. CASE priority[u] < IdlePriority
  BY <1>1, <1>2, <1>4 DEF Candidates
<1>5. CASE ~(priority[u] < IdlePriority)
  <2>1. waiters[w] \in Threads
    BY <1>0, <1>3 DEF WaitType
  <2>2. \A t \in Threads : priority[t] \in Nat
    BY <1>0 DEF TableType, IdlePriority
  <2>3. priority[waiters[w]] \in Nat /\ priority[u] \in Nat
    BY <2>1, <2>2
  <2> QED BY <1>3, <1>5, <2>3 DEF IdlePriority
<1> QED BY <1>4, <1>5

\* The steps of thread_create.
CreateSteps == {"alloc", "alloc_commit", "stack", "stack_commit", "construct"}

\* Nobody creates threads unless the applications call thread_create.
LEMMA NoCreation ==
    ASSUME "create" \notin Ops, pc \notin CreateSteps, [Next]_vars
    PROVE  pc' \notin CreateSteps
<1> USE DEF CreateSteps, Goto, Return, Found
<1>1. CASE SVC_Handler \/ SysTick \/ PendSV \/ Interrupt \/ UNCHANGED vars
  BY <1>1 DEF SVC_Handler, SysTick, PendSV, Interrupt, isr_notify_object, isr_kill, vars
<1>2. CASE Syscall
  BY <1>2 DEF Syscall, os_system_call_reports, sys_sched_yield, sys_thread_exit,
              sys_kill_SIGKILL, sys_kill_SIGSTOP, sys_kill_SIGCONT, os_kill_dispatch,
              sys_kill_signal, os_signal, os_setpriority, os_thread_join, sys_notify_object,
              sys_notify_object2, sys_wait_for_object, sys_wait_for_object_value,
              sys_init_waitable_object
<1>3. CASE \/ os_sched_yield \/ os_sched_yield_commit \/ os_sched_yield_clear
           \/ os_thread_kill \/ os_thread_kill_dispose \/ yield_if_current
           \/ os_thread_stop \/ os_thread_stop_commit
           \/ os_thread_continue \/ os_thread_continue_commit
  BY <1>3 DEF os_sched_yield, os_sched_yield_commit, os_sched_yield_clear,
              os_thread_kill, os_thread_kill_dispose, yield_if_current, YieldIfCurrent,
              os_thread_stop, os_thread_stop_commit, os_thread_continue, os_thread_continue_commit
<1>4. CASE \/ os_notify_object \/ os_notify_object_commit
           \/ os_wait_for_object \/ os_wait_for_object_commit
  BY <1>4 DEF os_notify_object, os_notify_object_commit, NotifyWaiter, NotifyNobody,
              os_wait_for_object, os_wait_for_object_commit, ConsumeOrBlock, Consume, Block
<1>5. CASE \/ os_initialize_waitable_object \/ os_initialize_waitable_object_commit
           \/ os_initialize_waitable_object_clear \/ os_initialize_waitable_object_clear_commit
  BY <1>5 DEF os_initialize_waitable_object, NextInitThread, os_initialize_waitable_object_commit,
              os_initialize_waitable_object_clear, os_initialize_waitable_object_clear_commit
<1>6. ~(os_thread_alloc \/ os_thread_alloc_commit \/ os_stack_create
        \/ os_stack_create_commit \/ os_thread_construct)
  BY DEF os_thread_alloc, os_thread_alloc_commit, os_stack_create,
         os_stack_create_commit, os_thread_construct
<1> QED BY <1>1, <1>2, <1>3, <1>4, <1>5, <1>6 DEF Next, HandlerStep

\* Whoever a step wakes, apart from init_waitable_object and a new life of the
\* slot, was the most urgent waiter.
LEMMA WakingStep ==
    ASSUME TypeInv, WakeupInv, [Next]_vars, pc \notin CreateSteps, pc # "init_commit",
           NEW t \in Threads, wait_object[t] \in Objects, wait_object'[t] = None,
           NEW u \in Threads, wait_object[u] = wait_object[t]
    PROVE  priority[t] <= priority[u]
<1>0. TableType /\ WaitType /\ call \in Calls /\ CallOK
  BY DEF TypeInv, TypeOK
<1>1. wait_object'[t] # wait_object[t]
  BY NoneAssumption
<1>2. ASSUME NEW o \in Objects, os_find_notified_thread_waiter(o) # None,
             os_notify_thread(waiters[os_find_notified_thread_waiter(o)])
      PROVE  priority[t] <= priority[u]
  <2> DEFINE w == os_find_notified_thread_waiter(o)
  <2>1. w \in Candidates(o) /\ w \in DOMAIN waiters
    BY <1>0, <1>2, WaiterFoundIsBest DEF Candidates
  <2>2. wait_object' = [wait_object EXCEPT ![waiters[w]] = None]
    BY <1>2 DEF os_notify_thread
  <2> HIDE DEF w
  <2>3. t = waiters[w]
    BY <1>0, <1>1, <2>1, <2>2 DEF WaitType
  <2>4. wait_object[u] = o
    BY <2>1, <2>3 DEF Candidates
  <2> QED BY <1>2, <2>3, <2>4, BestWaiter DEF w
<1>3. CASE os_notify_object_commit
  <2>1. call.fresh /\ call.cand # None /\ NotifyWaiter /\ pc = "notify_commit"
    BY <1>1, <1>3 DEF os_notify_object_commit, NotifyNobody, waitVars
  <2>2. call.cand = os_find_notified_thread_waiter(call.obj) /\ call.obj \in Objects
    BY <1>0, <2>1 DEF WakeupInv, WaitersAreFound, CallOK
  <2> QED BY <1>2, <2>1, <2>2 DEF NotifyWaiter
<1>4. CASE isr_notify_object
  <2>1. PICK o \in Objects :
          LET w == os_find_notified_thread_waiter(o)
          IN  UNCHANGED wait_object \/ (w # None /\ os_notify_thread(waiters[w]))
    BY <1>4 DEF isr_notify_object
  <2> QED BY <1>1, <1>2, <2>1
<1>5. CASE os_wait_for_object_commit
  <2>1. call.tgt \in Threads /\ call.obj \in Objects \cup Threads
    BY <1>0, <1>5 DEF os_wait_for_object_commit, CallOK
  <2>2. wait_object' = [wait_object EXCEPT ![call.tgt] = call.obj]
    BY <1>1, <1>5 DEF os_wait_for_object_commit, ConsumeOrBlock, Consume, Block, waitVars
  <2>3. call.obj # None
    BY <2>1, NoneAssumption DEF Threads
  <2> QED BY <1>0, <1>1, <2>1, <2>2, <2>3 DEF WaitType
<1>6. ~Waitless /\ ~UNCHANGED <<waitVars, priority, base_priority, pc, call>>
  BY <1>1 DEF Waitless, waitVars
<1>7. ~(os_setpriority \/ os_notify_object \/ os_initialize_waitable_object_clear_commit
        \/ os_thread_alloc_commit \/ os_initialize_waitable_object_commit \/ UNCHANGED vars)
  BY <1>1 DEF os_setpriority, os_notify_object, os_initialize_waitable_object_clear_commit,
              os_thread_alloc_commit, os_initialize_waitable_object_commit, CreateSteps,
              waitVars, vars
<1> QED
  BY <1>3, <1>4, <1>5, <1>6, <1>7, WaitlessSteps DEF Next, Syscall, HandlerStep, Interrupt

\* A notification wakes the most urgent waiter of its object as of that moment,
\* although os_notify_object made its search before and interrupts may have come
\* in between; for any entry points but thread_create, which clears what a
\* thread that ended while listed as a waiter has left behind.
THEOREM MostUrgentIsWoken ==
    ASSUME "create" \notin Ops
    PROVE  Spec => WakesMostUrgent
<1> DEFINE IInv == TypeInv /\ WakeupInv /\ pc \notin CreateSteps
           Wakes == \A t \in Threads :
                      pc # "init_commit" /\ wait_object[t] \in Objects /\ wait_object'[t] = None =>
                         \A u \in Threads : wait_object[u] = wait_object[t] =>
                                               priority[t] <= priority[u]
<1>1. Init => IInv
  BY TypeInit, WakeupInit DEF Init, CreateSteps
<1>2. IInv /\ [Next]_vars => IInv'
  BY TypeStep, WakeupStep, NoCreation
<1>3. IInv /\ [Next]_vars => [Wakes]_vars
  BY WakingStep
<1> HIDE DEF IInv
<1> QED BY <1>1, <1>2, <1>3, PTL DEF Spec, WakesMostUrgent

------------------------------------------------------------------------------
(***************************************************************************)
(* Commits without interrupts.                                             *)
(***************************************************************************)

\* Only isr_notify_object makes the commit of a handler be refused.
LEMMA FreshStep ==
    ASSUME "isr_notify" \notin Ops, call \in Calls, call.fresh = TRUE, [Next]_vars
    PROVE  call'.fresh = TRUE
<1>0. (\A x, step : Found(x, step) => call'.fresh = TRUE) /\ (Return => call'.fresh = TRUE)
  <2>1. ASSUME NEW x, NEW step, Found(x, step) PROVE call'.fresh = TRUE
    BY <2>1 DEF Found, Calls
  <2>2. Return => call'.fresh = TRUE
    BY DEF Return, NoCall
  <2> QED BY <2>1, <2>2
<1> USE DEF Goto, NoCall, Calls
<1>1. CASE SVC_Handler \/ SysTick \/ PendSV \/ Interrupt \/ UNCHANGED vars
  BY <1>1 DEF SVC_Handler, SysTick, PendSV, Interrupt, isr_kill, vars
<1>2. CASE os_system_call_reports
  BY <1>0, <1>2 DEF os_system_call_reports
<1>3. CASE sys_sched_yield
  BY <1>3 DEF sys_sched_yield
<1>4. CASE sys_thread_exit
  BY <1>4 DEF sys_thread_exit
<1>5. CASE sys_kill_SIGKILL \/ sys_kill_SIGSTOP \/ sys_kill_SIGCONT
  BY <1>5 DEF sys_kill_SIGKILL, sys_kill_SIGSTOP, sys_kill_SIGCONT, os_kill_dispatch
<1>6. CASE sys_kill_signal
  BY <1>0, <1>6 DEF sys_kill_signal
<1>7. CASE os_signal
  BY <1>0, <1>7 DEF os_signal
<1>8. CASE os_setpriority
  BY <1>8 DEF os_setpriority
<1>9. CASE os_thread_join
  BY <1>0, <1>9 DEF os_thread_join
<1>10. CASE sys_thread_create
  BY <1>10 DEF sys_thread_create
<1>11. CASE sys_notify_object
  BY <1>11 DEF sys_notify_object
<1>12. CASE sys_notify_object2
  BY <1>12 DEF sys_notify_object2
<1>13. CASE sys_wait_for_object
  BY <1>13 DEF sys_wait_for_object
<1>14. CASE sys_wait_for_object_value
  BY <1>0, <1>14 DEF sys_wait_for_object_value
<1>15. CASE sys_init_waitable_object
  BY <1>15 DEF sys_init_waitable_object
<1>16. CASE os_sched_yield
  BY <1>0, <1>16 DEF os_sched_yield
<1>17. CASE os_sched_yield_commit
  BY <1>0, <1>17 DEF os_sched_yield_commit
<1>18. CASE os_sched_yield_clear
  BY <1>0, <1>18 DEF os_sched_yield_clear
<1>19. CASE os_thread_kill
  BY <1>0, <1>19 DEF os_thread_kill
<1>20. CASE os_thread_kill_dispose
  BY <1>20 DEF os_thread_kill_dispose
<1>21. CASE yield_if_current
  BY <1>0, <1>21 DEF yield_if_current, YieldIfCurrent
<1>22. CASE os_thread_stop
  BY <1>0, <1>22 DEF os_thread_stop
<1>23. CASE os_thread_stop_commit
  BY <1>23 DEF os_thread_stop_commit
<1>24. CASE os_thread_continue
  BY <1>0, <1>24 DEF os_thread_continue
<1>25. CASE os_thread_continue_commit
  BY <1>25 DEF os_thread_continue_commit
<1>26. CASE os_thread_alloc
  BY <1>0, <1>26 DEF os_thread_alloc
<1>27. CASE os_thread_alloc_commit
  BY <1>27 DEF os_thread_alloc_commit
<1>28. CASE os_stack_create
  BY <1>0, <1>28 DEF os_stack_create
<1>29. CASE os_stack_create_commit
  BY <1>29 DEF os_stack_create_commit
<1>30. CASE os_thread_construct
  BY <1>0, <1>30 DEF os_thread_construct
<1>31. CASE os_notify_object
  BY <1>0, <1>31 DEF os_notify_object
<1>32. CASE os_notify_object_commit
  BY <1>0, <1>32 DEF os_notify_object_commit, NotifyWaiter, NotifyNobody
<1>33. CASE os_wait_for_object
  BY <1>0, <1>33 DEF os_wait_for_object
<1>34. CASE os_wait_for_object_commit
  BY <1>0, <1>34 DEF os_wait_for_object_commit, ConsumeOrBlock, Consume, Block
<1>35. CASE os_initialize_waitable_object
  BY <1>35 DEF os_initialize_waitable_object, NextInitThread
<1>36. CASE os_initialize_waitable_object_commit
  BY <1>36 DEF os_initialize_waitable_object_commit
<1>37. CASE os_initialize_waitable_object_clear
  BY <1>0, <1>37 DEF os_initialize_waitable_object_clear
<1>38. CASE os_initialize_waitable_object_clear_commit
  BY <1>0, <1>38 DEF os_initialize_waitable_object_clear_commit
<1> QED
  BY <1>1, <1>2, <1>3, <1>4, <1>5, <1>6, <1>7, <1>8, <1>9, <1>10, <1>11, <1>12, <1>13,
     <1>14, <1>15, <1>16, <1>17, <1>18, <1>19, <1>20, <1>21, <1>22, <1>23, <1>24, <1>25,
     <1>26, <1>27, <1>28, <1>29, <1>30, <1>31, <1>32, <1>33, <1>34, <1>35, <1>36, <1>37,
     <1>38
     DEF Next, Syscall, HandlerStep

------------------------------------------------------------------------------
(***************************************************************************)
(* The scheduler without device interrupts.                                *)
(***************************************************************************)

\* What the scheduling invariant speaks of, apart from the step of the handler.
Still == UNCHANGED <<state, stack_id, wait_object, waiters, switchVars>>

\* A thread that gave up the CPU stays on its way out.
LeavingGoesOn == state[thread_current] = "RUNNING" \/ GivingUp'

\* A step that leaves the tables alone need only respect the handler's own record.
LEMMA StillKeeps ==
    ASSUME ScheduleInv, Still, ~pendsv, LeavingGoesOn,
           thread_current # IdleThread \/ pc' \in {"user"} \cup YieldSteps,
           CheckedStands'
    PROVE  ScheduleInv'
<1> USE DEF ScheduleInv, Still, switchVars
<1>1. OneRunning'
  BY DEF OneRunning, LeavingGoesOn, RunnableIn
<1>2. RequestStands'
  BY DEF RequestStands
<1>3. WaitersAreWaiting'
  BY DEF WaitersAreWaiting
<1>4. LiveHasStack'
  BY DEF LiveHasStack, Live
<1> QED BY <1>1, <1>2, <1>3, <1>4

\* Inside a handler that has not given up the CPU the caller runs, is not the
\* idle thread, and no switch is pending.
LEMMA CallerRuns ==
    ASSUME ScheduleInv, pc \notin {"user", "dispose", "self"} \cup YieldSteps
    PROVE  /\ ~pendsv
           /\ state[thread_current] = "RUNNING"
           /\ thread_current # IdleThread
BY DEF ScheduleInv, OneRunning, RequestStands, GivingUp, YieldSteps

\* Nor is one pending later in a handler.
LEMMA NoneRequested ==
    ASSUME ScheduleInv, pc # "user"
    PROVE  ~pendsv
BY DEF ScheduleInv, RequestStands

\* Such a handler's steps that leave the tables alone keep the invariant if what
\* they have checked stands.
LEMMA CallerKeeps ==
    ASSUME ScheduleInv, Still, pc \notin {"user", "dispose", "self"} \cup YieldSteps,
           CheckedStands'
    PROVE  ScheduleInv'
BY CallerRuns, StillKeeps DEF LeavingGoesOn

\* Steps at which nothing is checked.
Unchecked == {"user", "svc", "yield", "yield_clear", "dispose", "self", "continue", "alloc",
              "notify", "notify_commit"}

LEMMA UncheckedStands ==
    ASSUME call'.fresh = TRUE, pc' \in Unchecked
    PROVE  CheckedStands'
BY DEF CheckedStands, Unchecked, InitSteps

\* A thread that does not wait is not listed as a waiter.
LEMMA RunningIsNotListed ==
    ASSUME WaitersAreWaiting, NEW t \in Threads, state[t] # "WAITING"
    PROVE  \A i \in DOMAIN waiters : waiters[i] # t
BY DEF WaitersAreWaiting

\* Changing the state of a thread that does not wait, to one that is not waiting.
LEMMA WaitersUntouched ==
    ASSUME TableType, WaitType, WaitersAreWaiting, NEW t \in Threads, state[t] # "WAITING",
           NEW new \in States, new # "WAITING",
           state' = [state EXCEPT ![t] = new], UNCHANGED waiters,
           \A u \in Threads \ {t} : wait_object'[u] = wait_object[u]
    PROVE  WaitersAreWaiting'
<1>1. state \in [Threads -> States] /\ waiters \in Seq(Threads)
  BY DEF TableType, WaitType
<1>2. \A i \in DOMAIN waiters : waiters[i] # t /\ waiters[i] \in Threads
  BY <1>1, RunningIsNotListed
<1>3. \A u \in Threads : state'[u] = "WAITING" => u # t /\ state[u] = "WAITING"
  BY <1>1
<1>4. \A u \in Threads \ {t} : state'[u] = state[u]
  BY <1>1
<1> QED BY <1>2, <1>3, <1>4 DEF WaitersAreWaiting

\* Waking a listed waiter and deleting its entry.
LEMMA WakingOne ==
    ASSUME TableType, WaitType, WaitersAreWaiting, NEW w \in DOMAIN waiters,
           NEW new \in {"READY", "RUNNING"}, state' = [state EXCEPT ![waiters[w]] = new],
           wait_object' = [wait_object EXCEPT ![waiters[w]] = None],
           waiters' = ARRAY_DELETE(waiters, w)
    PROVE  WaitersAreWaiting'
<1> DEFINE s == ARRAY_DELETE(waiters, w)
           at(k) == IF k < w THEN k ELSE k + 1
<1>1. /\ state \in [Threads -> States] /\ waiters \in Seq(Threads)
      /\ wait_object \in [Threads -> Objects \cup Threads \cup {None}]
  BY DEF TableType, WaitType
<1>2. /\ Len(waiters) \in Nat /\ DOMAIN waiters = 1 .. Len(waiters)
      /\ DOMAIN s = 1 .. Len(waiters) - 1
  BY <1>1 DEF ARRAY_DELETE
<1>3. \A k \in DOMAIN s : s[k] = waiters[at(k)]
  BY <1>1, DeleteKeeps
<1>4. \A k \in DOMAIN s : at(k) \in DOMAIN waiters /\ at(k) # w
  BY <1>2
<1>5. \A k, l \in DOMAIN s : at(k) = at(l) => k = l
  BY <1>2
<1>6. \A j \in DOMAIN waiters \ {w} : \E k \in DOMAIN s : s[k] = waiters[j]
  BY <1>1, DeleteKeeps
<1> HIDE DEF at, s
<1>7. waiters[w] \in Threads /\ \A i, j \in DOMAIN waiters : waiters[i] = waiters[j] => i = j
  BY <1>1 DEF WaitersAreWaiting
<1>8. \A k \in DOMAIN s : s[k] # waiters[w] /\ s[k] \in Threads /\ state[s[k]] = "WAITING"
  BY <1>1, <1>3, <1>4, <1>7 DEF WaitersAreWaiting
<1>9. \A t \in Threads \ {waiters[w]} : state'[t] = state[t] /\ wait_object'[t] = wait_object[t]
  BY <1>1
<1>10. \A i \in DOMAIN waiters' : state'[waiters'[i]] = "WAITING"
  BY <1>8, <1>9 DEF s
<1>11. \A i, j \in DOMAIN waiters' : waiters'[i] = waiters'[j] => i = j
  BY <1>3, <1>4, <1>5, <1>7 DEF s
<1>12. ASSUME NEW t \in Threads, state'[t] = "WAITING"
       PROVE  wait_object'[t] # None /\ \E i \in DOMAIN waiters' : waiters'[i] = t
  <2>1. t # waiters[w] /\ state[t] = "WAITING"
    BY <1>1, <1>7, <1>12
  <2>2. PICK j \in DOMAIN waiters : waiters[j] = t
    BY <2>1 DEF WaitersAreWaiting
  <2>3. \E k \in DOMAIN s : s[k] = t
    BY <1>6, <2>1, <2>2
  <2> QED BY <1>9, <2>1, <2>3 DEF WaitersAreWaiting, s
<1> QED BY <1>10, <1>11, <1>12 DEF WaitersAreWaiting

\* Listing a thread that starts to wait.
LEMMA WaitingOne ==
    ASSUME TableType, WaitType, WaitersAreWaiting, NEW t \in Threads, state[t] # "WAITING",
           NEW o \in Objects \cup Threads, o # None,
           state' = [state EXCEPT ![t] = "WAITING"],
           wait_object' = [wait_object EXCEPT ![t] = o],
           waiters' = Append(waiters, t)
    PROVE  WaitersAreWaiting'
<1>1. /\ state \in [Threads -> States] /\ waiters \in Seq(Threads)
      /\ wait_object \in [Threads -> Objects \cup Threads \cup {None}]
  BY DEF TableType, WaitType
<1>2. /\ Len(waiters) \in Nat /\ DOMAIN waiters = 1 .. Len(waiters)
      /\ DOMAIN waiters' = 1 .. Len(waiters) + 1
      /\ waiters'[Len(waiters) + 1] = t
      /\ \A i \in DOMAIN waiters : waiters'[i] = waiters[i]
  BY <1>1
<1>3. \A i \in DOMAIN waiters : waiters[i] # t /\ waiters[i] \in Threads
  BY <1>1, RunningIsNotListed
<1>4. /\ \A u \in Threads \ {t} : state'[u] = state[u] /\ wait_object'[u] = wait_object[u]
      /\ state'[t] = "WAITING" /\ wait_object'[t] = o
  BY <1>1
<1>5. \A i \in DOMAIN waiters' : state'[waiters'[i]] = "WAITING"
  BY <1>2, <1>3, <1>4 DEF WaitersAreWaiting
<1>6. \A i, j \in DOMAIN waiters' : waiters'[i] = waiters'[j] => i = j
  BY <1>2, <1>3 DEF WaitersAreWaiting
<1>7. ASSUME NEW u \in Threads, state'[u] = "WAITING"
      PROVE  wait_object'[u] # None /\ \E i \in DOMAIN waiters' : waiters'[i] = u
  <2>1. CASE u = t
    BY <1>2, <1>4, <2>1
  <2>2. CASE u # t
    <3>1. wait_object[u] # None /\ \E i \in DOMAIN waiters : waiters[i] = u
      BY <1>4, <1>7, <2>2 DEF WaitersAreWaiting
    <3> QED BY <1>2, <1>4, <2>2, <3>1
  <2> QED BY <2>1, <2>2
<1> QED BY <1>5, <1>6, <1>7 DEF WaitersAreWaiting

\* The scheduling invariant is inductive: one case per action.
LEMMA ScheduleStep ==
    ASSUME Undisturbed, TypeInv, WakeupInv, ScheduleInv, [Next]_vars
    PROVE  ScheduleInv'
<1>0. /\ TableType /\ WaitType /\ SwitchType /\ call \in Calls /\ CallOK
      /\ call.fresh = TRUE /\ call'.fresh = TRUE
  BY FreshStep DEF TypeInv, TypeOK, ScheduleInv, CheckedStands, Undisturbed
<1>00. /\ OneRunning /\ RequestStands /\ CheckedStands /\ WaitersAreWaiting /\ LiveHasStack
       /\ TableType /\ WaitType /\ state \in [Threads -> States] /\ waiters \in Seq(Threads)
       /\ thread_current \in Threads /\ IdleThread \in Threads /\ pc \notin InitSteps
  <2>1. state \in [Threads -> States] /\ waiters \in Seq(Threads) /\ thread_current \in Threads
    BY <1>0 DEF TableType, WaitType, SwitchType
  <2>2. IdleThread \in Threads
    BY TableAssumption DEF IdleThread, Threads
  <2> QED BY <1>0, <2>1, <2>2 DEF ScheduleInv, CheckedStands
<1>1. CASE SVC_Handler
  <2>1. Still /\ pc = "user" /\ ~pendsv /\ pc' = "svc" /\ thread_current # IdleThread
    BY <1>00, <1>1 DEF SVC_Handler, Still, Goto, OneRunning, tableVars, waitVars
  <2>2. LeavingGoesOn
    BY <1>00, <2>1 DEF LeavingGoesOn, OneRunning, GivingUp
  <2> QED BY <1>0, <2>1, <2>2, StillKeeps, UncheckedStands DEF Unchecked
<1>2. CASE SysTick
  <2>1. Still /\ pc = "user" /\ ~pendsv /\ pc' = "yield"
    BY <1>2 DEF SysTick, Still, Goto, tableVars, waitVars
  <2>2. LeavingGoesOn
    BY <1>00, <2>1 DEF LeavingGoesOn, OneRunning, GivingUp
  <2> QED BY <1>0, <2>1, <2>2, StillKeeps, UncheckedStands DEF Unchecked, YieldSteps
<1>3. CASE PendSV
  <2>1. /\ pc = "user" /\ pendsv /\ pendsv' = FALSE
        /\ state' = [Leave(state, thread_current) EXCEPT ![thread_next] = "RUNNING"]
        /\ thread_current' = thread_next /\ cpu' = new_task
        /\ UNCHANGED <<stack_id, wait_object, waiters, pc, call>>
    BY <1>3 DEF PendSV, os_request_context_switch, waitVars
  <2>2. /\ new_task = thread_next /\ thread_next # thread_current /\ thread_next \in Threads
        /\ state[thread_next] \in {"READY", "RUNNING"}
    BY <1>0, <1>00, <2>1 DEF RequestStands, RunnableIn, SwitchType
  <2>3. /\ state'[thread_next] = "RUNNING"
        /\ \A t \in Threads \ {thread_next, thread_current} : state'[t] = state[t]
        /\ state'[thread_current] = IF state[thread_current] = "RUNNING"
                                    THEN "READY" ELSE state[thread_current]
    BY <1>00, <2>1, <2>2 DEF Leave
  <2>4. OneRunning'
    <3>1. \A t \in Threads : state'[t] = "RUNNING" => t = thread_next
      BY <1>00, <2>3 DEF OneRunning
    <3>2. RunnableIn(state', IdleThread)
      BY <1>00, <2>2, <2>3 DEF OneRunning, RunnableIn
    <3> QED BY <2>1, <2>2, <2>3, <3>1, <3>2 DEF OneRunning
  <2>5. \A t \in Threads : state'[t] = "WAITING" <=> state[t] = "WAITING"
    BY <2>2, <2>3
  <2>6. WaitersAreWaiting'
    <3>1. \A i \in DOMAIN waiters : waiters[i] \in Threads
      BY <1>00
    <3> QED BY <1>00, <2>1, <2>5, <3>1 DEF WaitersAreWaiting
  <2>7. LiveHasStack'
    BY <1>00, <2>1, <2>2, <2>3 DEF LiveHasStack, Live
  <2>8. RequestStands'
    BY <2>1 DEF RequestStands
  <2>9. CheckedStands'
    BY <1>0, <2>1, UncheckedStands DEF Unchecked
  <2> QED BY <2>4, <2>6, <2>7, <2>8, <2>9 DEF ScheduleInv
<1>4. CASE os_system_call_reports
  <2>1. pc = "svc" /\ Still /\ pc' \in Unchecked
    BY <1>4 DEF os_system_call_reports, SVC, Still, Goto, Return, Unchecked, tableVars, waitVars
  <2> QED BY <1>0, <2>1, CallerKeeps, UncheckedStands DEF YieldSteps
<1>5. CASE sys_sched_yield
  <2>1. pc = "svc" /\ Still /\ pc' \in Unchecked
    BY <1>5 DEF sys_sched_yield, SVC, Still, Goto, Return, Unchecked, tableVars, waitVars
  <2> QED BY <1>0, <2>1, CallerKeeps, UncheckedStands DEF YieldSteps
<1>6. CASE sys_kill_SIGCONT
  <2>1. pc = "svc" /\ Still /\ pc' \in Unchecked
    BY <1>6 DEF sys_kill_SIGCONT, SVC, Still, Goto, Return, Unchecked, tableVars, waitVars, os_kill_dispatch
  <2> QED BY <1>0, <2>1, CallerKeeps, UncheckedStands DEF YieldSteps
<1>7. CASE sys_kill_signal
  <2>1. pc = "svc" /\ Still /\ pc' \in Unchecked
    BY <1>7 DEF sys_kill_signal, SVC, Still, Goto, Return, Unchecked, tableVars, waitVars
  <2> QED BY <1>0, <2>1, CallerKeeps, UncheckedStands DEF YieldSteps
<1>8. CASE os_signal
  <2>1. pc = "svc" /\ Still /\ pc' \in Unchecked
    BY <1>8 DEF os_signal, SVC, Still, Goto, Return, Unchecked, tableVars, waitVars
  <2> QED BY <1>0, <2>1, CallerKeeps, UncheckedStands DEF YieldSteps
<1>9. CASE os_setpriority
  <2>1. pc = "svc" /\ Still /\ pc' \in Unchecked
    BY <1>9 DEF os_setpriority, SVC, Still, Goto, Return, Unchecked, tableVars, waitVars
  <2> QED BY <1>0, <2>1, CallerKeeps, UncheckedStands DEF YieldSteps
<1>10. CASE sys_thread_create
  <2>1. pc = "svc" /\ Still /\ pc' \in Unchecked
    BY <1>10 DEF sys_thread_create, SVC, Still, Goto, Return, Unchecked, tableVars, waitVars
  <2> QED BY <1>0, <2>1, CallerKeeps, UncheckedStands DEF YieldSteps
<1>11. CASE sys_notify_object
  <2>1. pc = "svc" /\ Still /\ pc' \in Unchecked
    BY <1>11 DEF sys_notify_object, SVC, Still, Goto, Return, Unchecked, tableVars, waitVars
  <2> QED BY <1>0, <2>1, CallerKeeps, UncheckedStands DEF YieldSteps
<1>12. CASE sys_notify_object2
  <2>1. pc = "svc" /\ Still /\ pc' \in Unchecked
    BY <1>12 DEF sys_notify_object2, SVC, Still, Goto, Return, Unchecked, tableVars, waitVars
  <2> QED BY <1>0, <2>1, CallerKeeps, UncheckedStands DEF YieldSteps
<1>13. CASE sys_thread_exit
  <2>1. pc = "svc" /\ Still /\ pc' = "kill" /\ call' = [NoCall EXCEPT !.tgt = thread_current]
    BY <1>13 DEF sys_thread_exit, SVC, Still, Goto, tableVars, waitVars
  <2>2. call'.tgt = thread_current
    BY <2>1 DEF NoCall
  <2>3. state[thread_current] = "RUNNING" /\ thread_current # IdleThread
    BY <2>1, CallerRuns DEF YieldSteps
  <2>4. CheckedStands'
    BY <1>0, <2>1, <2>2, <2>3 DEF CheckedStands, Signallable, InitSteps, Still
  <2> QED BY <2>1, <2>4, CallerKeeps DEF YieldSteps
<1>14. CASE sys_kill_SIGKILL \/ sys_kill_SIGSTOP
  <2>1. PICK t \in AppThreads : Signallable(t) /\ call' = [NoCall EXCEPT !.tgt = t]
    BY <1>14 DEF sys_kill_SIGKILL, sys_kill_SIGSTOP, os_kill_dispatch
  <2>2. pc = "svc" /\ Still /\ pc' \in {"kill", "stop"}
    BY <1>14 DEF sys_kill_SIGKILL, sys_kill_SIGSTOP, os_kill_dispatch, SVC, Still, Goto,
                 tableVars, waitVars
  <2>3. call'.tgt = t /\ t # IdleThread
    BY <2>1 DEF NoCall, AppThreads
  <2>4. CheckedStands'
    BY <1>0, <2>1, <2>2, <2>3 DEF CheckedStands, Signallable, InitSteps, Still
  <2> QED BY <2>2, <2>4, CallerKeeps DEF YieldSteps
<1>15. CASE os_thread_join
  <2>1. pc = "svc" /\ UNCHANGED <<stack_id, waitVars, switchVars>>
    BY <1>15 DEF os_thread_join, SVC
  <2>2. PICK t \in AppThreads :
          \/ state[t] = "FINISHED" /\ state' = [state EXCEPT ![t] = "EMPTY"] /\ Return
          \/ /\ pc' = "wait" /\ call' = [NoCall EXCEPT !.obj = thread_current]
             /\ UNCHANGED state
    BY <1>15 DEF os_thread_join, Goto
  <2>3. t \in Threads
    BY DEF AppThreads
  <2>4. CASE state[t] = "FINISHED" /\ state' = [state EXCEPT ![t] = "EMPTY"] /\ Return
    <3>0. pc' = "user" /\ ~pendsv /\ state[thread_current] = "RUNNING"
      BY <2>1, <2>4, CallerRuns DEF Return, YieldSteps
    <3>1. OneRunning'
      BY <1>00, <2>1, <2>3, <2>4, <3>0 DEF OneRunning, RunnableIn, switchVars
    <3>2. WaitersAreWaiting'
      BY <1>00, <2>1, <2>3, <2>4, WaitersUntouched DEF waitVars, States
    <3>3. LiveHasStack'
      BY <1>00, <2>1, <2>3, <2>4 DEF LiveHasStack, Live
    <3>4. RequestStands'
      BY <2>1, <3>0 DEF RequestStands, switchVars
    <3>5. CheckedStands'
      BY <1>0, <3>0, UncheckedStands DEF Unchecked
    <3> QED BY <3>1, <3>2, <3>3, <3>4, <3>5 DEF ScheduleInv
  <2>5. CASE /\ pc' = "wait" /\ call' = [NoCall EXCEPT !.obj = thread_current]
             /\ UNCHANGED state
    <3>1. call'.tgt = None
      BY <2>5 DEF NoCall
    <3>2. CheckedStands' /\ Still
      BY <1>0, <2>1, <2>5, <3>1 DEF CheckedStands, InitSteps, Still, waitVars
    <3> QED BY <2>1, <3>2, CallerKeeps DEF YieldSteps
  <2> QED BY <2>2, <2>4, <2>5
<1>16. CASE sys_wait_for_object \/ sys_wait_for_object_value
  <2>1. /\ pc = "svc" /\ Still
        /\ \/ Return
           \/ pc' = "wait" /\ \E o \in Objects : call' = [NoCall EXCEPT !.obj = o]
    BY <1>16 DEF sys_wait_for_object, sys_wait_for_object_value, SVC, Still, Goto,
                 tableVars, waitVars
  <2>2. pc' = "user" \/ (pc' = "wait" /\ call'.tgt = None)
    BY <2>1 DEF NoCall, Return
  <2>3. CheckedStands'
    BY <1>0, <2>2 DEF CheckedStands, InitSteps
  <2> QED BY <2>1, <2>3, CallerKeeps DEF YieldSteps
<1>17. CASE os_sched_yield
  <2> DEFINE next == os_get_next_thread(thread_current, state, priority)
  <2>1. /\ pc = "yield" /\ Still
        /\ pc' = (IF next = None THEN "yield_clear" ELSE "yield_commit")
        /\ call' = [call EXCEPT !.cand = next, !.fresh = TRUE]
        /\ UNCHANGED <<state, priority, thread_current>>
    BY <1>17 DEF os_sched_yield, Found, Still, tableVars, waitVars, switchVars
  <2>2. ~pendsv
    BY <2>1, NoneRequested
  <2>3. next # None => SettlesFor(thread_current, next, state, priority)
    BY DEF os_get_next_thread
  <2>4. next = None => state[thread_current] = "RUNNING"
    <3>1. /\ priority \in [Threads -> 0 .. IdlePriority] /\ thread_current \in Nat
          /\ RunnableIn(state, IdleThread)
      BY <1>0, <1>00 DEF TableType, Threads, OneRunning
    <3>2. None \notin Threads
      BY NoneAssumption DEF Threads
    <3>3. next = None => RunnableIn(state, thread_current)
      BY <1>00, <3>1, <3>2, NobodyFound
    <3> QED BY <1>00, <3>3 DEF OneRunning, RunnableIn
  <2>5. call'.cand = next
    BY <1>0, <2>1 DEF Calls
  <2> HIDE DEF next
  <2>6. CheckedStands'
    BY <1>0, <2>1, <2>3, <2>5 DEF CheckedStands, InitSteps
  <2>7. LeavingGoesOn
    BY <1>00, <2>1, <2>2, <2>4 DEF LeavingGoesOn, GivingUp, OneRunning
  <2> QED BY <2>1, <2>2, <2>6, <2>7, StillKeeps DEF YieldSteps
<1>18. CASE os_sched_yield_commit
  <2>1. pc = "yield_commit" /\ SwitchTo(call.cand) /\ pc' = "user"
    BY <1>0, <1>18 DEF os_sched_yield_commit, Return
  <2>2. UNCHANGED <<state, stack_id, wait_object, waiters, thread_current, cpu>>
    BY <1>18 DEF os_sched_yield_commit, tableVars, waitVars
  <2>3. /\ call.cand # thread_current /\ RunnableIn(state, call.cand)
    BY <1>00, <2>1 DEF CheckedStands, SettlesFor
  <2>4. call.cand # None
    BY <1>0, <2>1, NoneAssumption DEF CallOK, Threads
  <2>5. /\ thread_next' = call.cand /\ new_task' = call.cand /\ old_task' = thread_current
        /\ pendsv' = TRUE
    BY <2>1, <2>4 DEF SwitchTo, schedule_context_switch, os_request_context_switch
  <2>6. OneRunning'
    BY <1>00, <2>1, <2>2, <2>5 DEF OneRunning, RunnableIn
  <2>7. RequestStands'
    BY <2>1, <2>2, <2>3, <2>5 DEF RequestStands, RunnableIn
  <2>8. WaitersAreWaiting' /\ LiveHasStack'
    BY <1>00, <2>2 DEF WaitersAreWaiting, LiveHasStack, Live
  <2> QED BY <1>0, <2>1, <2>6, <2>7, <2>8, UncheckedStands DEF ScheduleInv, Unchecked
<1>19. CASE os_sched_yield_clear
  <2>1. /\ pc = "yield_clear" /\ pendsv' = FALSE /\ pc' = "user"
        /\ UNCHANGED <<state, stack_id, wait_object, waiters, thread_current, cpu,
                       thread_next, old_task, new_task>>
    BY <1>19 DEF os_sched_yield_clear, SwitchTo, os_request_context_switch, Return,
                 tableVars, waitVars
  <2>2. ~pendsv /\ pendsv \in BOOLEAN
    BY <1>0, <2>1, NoneRequested DEF SwitchType
  <2>3. Still
    BY <2>1, <2>2 DEF Still, switchVars
  <2>4. LeavingGoesOn
    BY <1>00, <2>1, <2>2 DEF LeavingGoesOn, OneRunning, GivingUp
  <2> QED BY <1>0, <2>1, <2>2, <2>3, <2>4, StillKeeps, UncheckedStands DEF Unchecked
<1>20. CASE os_thread_kill
  <2>1. pc = "kill" /\ call.tgt \in Threads /\ Signallable(call.tgt) /\ call.tgt # IdleThread
    BY <1>0, <1>00, <1>20 DEF os_thread_kill, CallOK, CheckedStands
  <2>2. /\ state' = [state EXCEPT ![call.tgt] = "FINISHED"]
        /\ stack_id' = [stack_id EXCEPT ![call.tgt] = None]
        /\ pc' = "dispose" /\ call' = [call EXCEPT !.cand = stack_id[call.tgt], !.fresh = TRUE]
        /\ UNCHANGED <<waitVars, switchVars>>
    BY <1>20, <2>1 DEF os_thread_kill, Found, DetachStack, Signallable
  <2>3. call'.tgt = call.tgt
    BY <1>0, <2>2 DEF Calls
  <2>4. ~pendsv /\ state[thread_current] = "RUNNING" /\ thread_current # IdleThread
    BY <2>1, CallerRuns DEF YieldSteps
  <2>5. \A t \in Threads \ {call.tgt} : state'[t] = state[t] /\ stack_id'[t] = stack_id[t]
    BY <1>0, <1>00, <2>2 DEF TableType
  <2>6. state'[call.tgt] = "FINISHED"
    BY <1>00, <2>1, <2>2
  <2>7. OneRunning'
    <3>1. state'[thread_current] = "RUNNING" \/ GivingUp'
      BY <1>00, <2>2, <2>3, <2>4, <2>5 DEF GivingUp, switchVars
    <3>2. state'[thread_current] # "READY"
      BY <1>00, <2>4, <2>5, <2>6
    <3>3. \A t \in Threads : state'[t] = "RUNNING" => t = thread_current
      BY <1>00, <2>5, <2>6 DEF OneRunning
    <3>4. RunnableIn(state', IdleThread)
      BY <1>00, <2>1, <2>5 DEF OneRunning, RunnableIn
    <3> QED BY <1>00, <2>2, <2>4, <3>1, <3>2, <3>3, <3>4 DEF OneRunning, switchVars
  <2>8. WaitersAreWaiting'
    BY <1>00, <2>1, <2>2, WaitersUntouched DEF waitVars, States, Signallable
  <2>9. LiveHasStack'
    BY <1>00, <2>5, <2>6 DEF LiveHasStack, Live
  <2>10. RequestStands'
    BY <2>2, <2>4 DEF RequestStands, switchVars
  <2> QED BY <1>0, <2>2, <2>7, <2>8, <2>9, <2>10, UncheckedStands DEF ScheduleInv, Unchecked
<1>21. CASE os_thread_kill_dispose
  <2>1. pc = "dispose" /\ Still /\ pc' = "self" /\ call' = [NoCall EXCEPT !.tgt = call.tgt]
    BY <1>21 DEF os_thread_kill_dispose, Still, Goto, waitVars
  <2>2. call'.tgt = call.tgt
    BY <2>1 DEF NoCall
  <2>3. LeavingGoesOn /\ ~pendsv /\ thread_current # IdleThread
    BY <1>00, <2>1, <2>2 DEF LeavingGoesOn, OneRunning, RequestStands, GivingUp, YieldSteps,
                             Still, switchVars
  <2> QED BY <1>0, <2>1, <2>3, StillKeeps, UncheckedStands DEF Unchecked
<1>22. CASE yield_if_current
  <2>1. pc = "self" /\ Still /\ pc' = (IF call.tgt = thread_current THEN "yield" ELSE "user")
    BY <1>22 DEF yield_if_current, YieldIfCurrent, Still, Goto, Return, tableVars, waitVars
  <2>2. LeavingGoesOn /\ ~pendsv /\ thread_current # IdleThread
    BY <1>00, <2>1 DEF LeavingGoesOn, OneRunning, RequestStands, GivingUp, YieldSteps,
                       Still, switchVars
  <2> QED BY <1>0, <2>1, <2>2, StillKeeps, UncheckedStands DEF Unchecked
<1>23. CASE os_thread_stop
  <2>1. /\ pc = "stop" /\ Still /\ call.tgt # IdleThread
        /\ \/ /\ RunnableIn(state, call.tgt) /\ pc' = "stop_commit"
              /\ call' = [call EXCEPT !.cand = None, !.fresh = TRUE]
           \/ pc' = "user"
    BY <1>00, <1>23 DEF os_thread_stop, Still, Found, Return, CheckedStands, tableVars, waitVars
  <2>2. pc' = "stop_commit" => call'.tgt = call.tgt
    BY <1>0, <2>1 DEF Calls
  <2>3. CheckedStands'
    BY <1>0, <2>1, <2>2 DEF CheckedStands, InitSteps, RunnableIn, Still
  <2> QED BY <2>1, <2>3, CallerKeeps DEF YieldSteps
<1>24. CASE os_thread_stop_commit
  <2>1. /\ pc = "stop_commit" /\ call.tgt \in Threads /\ RunnableIn(state, call.tgt)
        /\ call.tgt # IdleThread
    BY <1>0, <1>00, <1>24 DEF os_thread_stop_commit, CallOK, CheckedStands
  <2>2. /\ state' = [state EXCEPT ![call.tgt] = "STOPPED"] /\ pc' = "self"
        /\ UNCHANGED <<stack_id, waitVars, switchVars, call>>
    BY <1>0, <1>24 DEF os_thread_stop_commit, Goto
  <2>4. ~pendsv /\ state[thread_current] = "RUNNING" /\ thread_current # IdleThread
    BY <2>1, CallerRuns DEF YieldSteps
  <2>5. \A t \in Threads \ {call.tgt} : state'[t] = state[t]
    BY <1>00, <2>2
  <2>6. state'[call.tgt] = "STOPPED"
    BY <1>00, <2>1, <2>2
  <2>7. OneRunning'
    <3>1. state'[thread_current] = "RUNNING" \/ GivingUp'
      BY <1>00, <2>2, <2>4, <2>5 DEF GivingUp, switchVars
    <3>2. state'[thread_current] # "READY"
      BY <1>00, <2>4, <2>5, <2>6
    <3>3. \A t \in Threads : state'[t] = "RUNNING" => t = thread_current
      BY <1>00, <2>5, <2>6 DEF OneRunning
    <3>4. RunnableIn(state', IdleThread)
      BY <1>00, <2>1, <2>5 DEF OneRunning, RunnableIn
    <3> QED BY <1>00, <2>2, <2>4, <3>1, <3>2, <3>3, <3>4 DEF OneRunning, switchVars
  <2>8. WaitersAreWaiting'
    BY <1>00, <2>1, <2>2, WaitersUntouched DEF waitVars, States, RunnableIn
  <2>9. LiveHasStack'
    BY <1>00, <2>1, <2>2, <2>5 DEF LiveHasStack, Live, RunnableIn
  <2>10. RequestStands'
    BY <2>2, <2>4 DEF RequestStands, switchVars
  <2> QED BY <1>0, <2>2, <2>7, <2>8, <2>9, <2>10, UncheckedStands DEF ScheduleInv, Unchecked
<1>25. CASE os_thread_continue
  <2>1. /\ pc = "continue" /\ Still
        /\ \/ /\ state[call.tgt] = "STOPPED" /\ pc' = "continue_commit"
              /\ call' = [call EXCEPT !.cand = None, !.fresh = TRUE]
           \/ pc' = "user"
    BY <1>25 DEF os_thread_continue, Still, Found, Return, tableVars, waitVars
  <2>2. pc' = "continue_commit" => call'.tgt = call.tgt
    BY <1>0, <2>1 DEF Calls
  <2>3. CheckedStands'
    BY <1>0, <2>1, <2>2 DEF CheckedStands, InitSteps, Still
  <2> QED BY <2>1, <2>3, CallerKeeps DEF YieldSteps
<1>26. CASE os_thread_continue_commit
  <2>1. pc = "continue_commit" /\ call.tgt \in Threads /\ state[call.tgt] = "STOPPED"
    BY <1>0, <1>00, <1>26 DEF os_thread_continue_commit, CallOK, CheckedStands
  <2>2. /\ state' = [state EXCEPT ![call.tgt] = "READY"] /\ pc' = "yield"
        /\ UNCHANGED <<stack_id, waitVars, switchVars>>
    BY <1>0, <1>26 DEF os_thread_continue_commit, Goto
  <2>3. ~pendsv /\ state[thread_current] = "RUNNING" /\ thread_current # IdleThread
    BY <2>1, CallerRuns DEF YieldSteps
  <2>4. OneRunning'
    BY <1>00, <2>1, <2>2, <2>3 DEF OneRunning, RunnableIn, switchVars
  <2>5. WaitersAreWaiting'
    BY <1>00, <2>1, <2>2, WaitersUntouched DEF waitVars, States
  <2>6. LiveHasStack'
    BY <1>00, <2>1, <2>2 DEF LiveHasStack, Live
  <2>7. RequestStands'
    BY <2>2, <2>3 DEF RequestStands, switchVars
  <2> QED BY <1>0, <2>2, <2>4, <2>5, <2>6, <2>7, UncheckedStands DEF ScheduleInv, Unchecked
<1>27. CASE os_thread_alloc
  <2> DEFINE empty == {t \in Threads : state[t] = "EMPTY"}
  <2>1. /\ pc = "alloc" /\ Still
        /\ \/ Return
           \/ empty # {} /\ Found(Lowest(empty), "alloc_commit")
    BY <1>27 DEF os_thread_alloc, Still, tableVars, waitVars
  <2>2. empty # {} => Lowest(empty) \in empty
    BY LowestIn DEF Threads
  <2>3. \/ pc' = "user"
        \/ pc' = "alloc_commit" /\ state[call'.cand] = "EMPTY"
    BY <1>0, <2>1, <2>2 DEF Return, Found, Calls
  <2>4. CheckedStands'
    BY <1>0, <2>1, <2>3 DEF CheckedStands, InitSteps, Still
  <2> QED BY <2>1, <2>4, CallerKeeps DEF YieldSteps
<1>28. CASE os_thread_alloc_commit
  <2>1. pc = "alloc_commit" /\ call.cand \in Threads /\ state[call.cand] = "EMPTY"
    BY <1>0, <1>00, <1>28 DEF os_thread_alloc_commit, CallOK, CheckedStands
  <2>2. /\ state' = [state EXCEPT ![call.cand] = "CREATED"]
        /\ stack_id' = [stack_id EXCEPT ![call.cand] = None]
        /\ wait_object' = [wait_object EXCEPT ![call.cand] = None]
        /\ pc' = "stack" /\ call' = [call EXCEPT !.tgt = call.cand, !.cand = None]
        /\ UNCHANGED <<waiters, switchVars>>
    BY <1>0, <1>28 DEF os_thread_alloc_commit, Goto
  <2>3. ~pendsv /\ state[thread_current] = "RUNNING" /\ thread_current # IdleThread
    BY <2>1, CallerRuns DEF YieldSteps
  <2>4. OneRunning'
    BY <1>00, <2>1, <2>2, <2>3 DEF OneRunning, RunnableIn, switchVars
  <2>5. WaitersAreWaiting'
    <3>1. \A u \in Threads \ {call.cand} : wait_object'[u] = wait_object[u]
      BY <1>0, <2>2 DEF WaitType
    <3> QED BY <1>00, <2>1, <2>2, <3>1, WaitersUntouched DEF States
  <2>6. LiveHasStack'
    BY <1>0, <1>00, <2>1, <2>2 DEF LiveHasStack, Live, TableType
  <2>7. RequestStands'
    BY <2>2, <2>3 DEF RequestStands, switchVars
  <2>8. call'.tgt = call.cand
    BY <1>0, <2>2 DEF Calls
  <2>9. CheckedStands'
    BY <1>0, <1>00, <2>1, <2>2, <2>8 DEF CheckedStands, InitSteps
  <2> QED BY <2>4, <2>5, <2>6, <2>7, <2>9 DEF ScheduleInv
<1>29. CASE os_stack_create
  <2>1. /\ pc = "stack" /\ Still /\ state[call.tgt] = "CREATED"
        /\ \/ Return
           \/ \E x : Found(x, "stack_commit")
    BY <1>00, <1>29 DEF os_stack_create, Still, CheckedStands, tableVars, waitVars
  <2>2. pc' = "user" \/ (pc' = "stack_commit" /\ call'.tgt = call.tgt)
    BY <1>0, <2>1 DEF Return, Found, Calls
  <2>3. CheckedStands'
    BY <1>0, <2>1, <2>2 DEF CheckedStands, InitSteps, Still
  <2> QED BY <2>1, <2>3, CallerKeeps DEF YieldSteps
<1>30. CASE os_stack_create_commit
  <2>1. /\ pc = "stack_commit" /\ Still /\ state[call.tgt] = "CREATED"
        /\ pc' = "construct" /\ call' = call
    BY <1>0, <1>00, <1>30 DEF os_stack_create_commit, Still, CheckedStands, Goto, waitVars
  <2>2. CheckedStands'
    BY <1>0, <2>1 DEF CheckedStands, InitSteps, Still
  <2> QED BY <2>1, <2>2, CallerKeeps DEF YieldSteps
<1>31. CASE os_thread_construct
  <2>1. /\ pc = "construct" /\ call.tgt \in Threads /\ state[call.tgt] = "CREATED"
        /\ call.cand \in Stacks
    BY <1>0, <1>00, <1>31 DEF os_thread_construct, CallOK, CheckedStands
  <2>2. /\ state' = [state EXCEPT ![call.tgt] = "READY"]
        /\ stack_id' = [stack_id EXCEPT ![call.tgt] = call.cand]
        /\ pc' = "user" /\ UNCHANGED <<waitVars, switchVars>>
    BY <1>31 DEF os_thread_construct, Return
  <2>3. ~pendsv /\ state[thread_current] = "RUNNING" /\ thread_current # IdleThread
    BY <2>1, CallerRuns DEF YieldSteps
  <2>4. OneRunning'
    BY <1>00, <2>1, <2>2, <2>3 DEF OneRunning, RunnableIn, switchVars
  <2>5. WaitersAreWaiting'
    BY <1>00, <2>1, <2>2, WaitersUntouched DEF waitVars, States
  <2>6. LiveHasStack'
    <3>1. call.cand # None
      BY <2>1, NoneAssumption DEF Stacks
    <3> QED BY <1>0, <1>00, <2>1, <2>2, <3>1 DEF LiveHasStack, Live, TableType
  <2>7. RequestStands'
    BY <2>2, <2>3 DEF RequestStands, switchVars
  <2> QED BY <1>0, <2>2, <2>4, <2>5, <2>6, <2>7, UncheckedStands DEF ScheduleInv, Unchecked
<1>32. CASE os_notify_object
  <2>1. pc = "notify" /\ Still /\ pc' = "notify_commit"
    BY <1>32 DEF os_notify_object, Found, Still, tableVars, waitVars
  <2> QED BY <1>0, <2>1, CallerKeeps, UncheckedStands DEF YieldSteps, Unchecked
<1>33. CASE os_notify_object_commit
  <2>0. /\ pc = "notify_commit" /\ call.obj \in Objects /\ UNCHANGED <<stack_id, switchVars>>
        /\ call.cand = os_find_notified_thread_waiter(call.obj)
    BY <1>0, <1>33 DEF os_notify_object_commit, CallOK, WakeupInv, WaitersAreFound
  <2>1. CASE call.cand = None
    <3>1. Still /\ pc' = "user"
      BY <1>0, <1>33, <2>0, <2>1 DEF os_notify_object_commit, NotifyNobody, Return, Still
    <3> QED BY <1>0, <2>0, <3>1, CallerKeeps, UncheckedStands DEF YieldSteps, Unchecked
  <2>2. CASE call.cand # None
    <3> DEFINE w == call.cand
               t == waiters[w]
    <3>1. w \in DOMAIN waiters /\ wait_object[t] = call.obj
      BY <1>0, <2>0, <2>2, WaiterFoundIsBest DEF Candidates
    <3>2. t \in Threads /\ state[t] = "WAITING"
      BY <1>00, <3>1 DEF WaitersAreWaiting
    <3>3. ~pendsv /\ state[thread_current] = "RUNNING" /\ thread_current # IdleThread
      BY <2>0, CallerRuns DEF YieldSteps
    <3>4. wait_object[t] \notin Threads
      BY <2>0, <3>1, NoneAssumption DEF Threads
    <3>5. /\ state' = [state EXCEPT ![t] = "READY"]
          /\ wait_object' = [wait_object EXCEPT ![t] = None]
          /\ waiters' = ARRAY_DELETE(waiters, w)
          /\ pc' \in {"user", "yield"}
      BY <1>0, <1>33, <2>2, <3>2, <3>3, <3>4
         DEF os_notify_object_commit, NotifyWaiter, os_notify_thread, Awakened,
             cb_syscall_notify_object, Goto, Return
    <3> HIDE DEF w
    <3>6. OneRunning'
      BY <1>00, <2>0, <3>2, <3>3, <3>5 DEF OneRunning, RunnableIn, switchVars, YieldSteps
    <3>7. LiveHasStack'
      BY <1>00, <2>0, <3>2, <3>5 DEF LiveHasStack, Live
    <3>8. RequestStands'
      BY <2>0, <3>3 DEF RequestStands, switchVars
    <3>9. WaitersAreWaiting'
      BY <1>00, <3>1, <3>5, WakingOne
    <3> QED BY <1>0, <3>5, <3>6, <3>7, <3>8, <3>9, UncheckedStands DEF ScheduleInv, Unchecked
  <2> QED BY <2>1, <2>2
<1>34. CASE os_wait_for_object
  <2>1. /\ pc = "wait" /\ Still /\ call.tgt = None
        /\ \/ /\ pc' = "wait_commit"
              /\ call' = [call EXCEPT !.tgt = thread_current, !.fresh = TRUE]
           \/ pc' = "user"
    BY <1>00, <1>34 DEF os_wait_for_object, Still, CheckedStands, Goto, Return, tableVars, waitVars
  <2>2. pc' = "wait_commit" => call'.tgt = thread_current
    BY <1>0, <2>1 DEF Calls
  <2>3. CheckedStands'
    BY <1>0, <2>1, <2>2 DEF CheckedStands, InitSteps, Still, switchVars
  <2> QED BY <2>1, <2>3, CallerKeeps DEF YieldSteps
<1>35. CASE os_wait_for_object_commit
  <2>0. /\ pc = "wait_commit" /\ call.tgt = thread_current /\ call.obj \in Objects \cup Threads
        /\ UNCHANGED <<stack_id, switchVars>> /\ ConsumeOrBlock
    BY <1>0, <1>00, <1>35 DEF os_wait_for_object_commit, CallOK, CheckedStands
  <2>1. CASE Consume
    <3>1. Still /\ pc' = "user"
      BY <2>0, <2>1 DEF Consume, Return, Still
    <3> QED BY <1>0, <2>0, <3>1, CallerKeeps, UncheckedStands DEF YieldSteps, Unchecked
  <2>2. CASE Block
    <3>1. /\ waiters' = Append(waiters, thread_current)
          /\ state' = [state EXCEPT ![thread_current] = "WAITING"]
          /\ wait_object' = [wait_object EXCEPT ![thread_current] = call.obj]
          /\ pc' = "yield"
      BY <2>0, <2>2 DEF Block, Goto
    <3>2. ~pendsv /\ state[thread_current] = "RUNNING" /\ thread_current # IdleThread
      BY <2>0, CallerRuns DEF YieldSteps
    <3>3. call.obj # None
      BY <2>0, NoneAssumption DEF Threads
    <3>4. OneRunning'
      BY <1>00, <2>0, <3>1, <3>2 DEF OneRunning, RunnableIn, switchVars, GivingUp
    <3>5. LiveHasStack'
      BY <1>00, <2>0, <3>1, <3>2 DEF LiveHasStack, Live
    <3>6. RequestStands'
      BY <2>0, <3>2 DEF RequestStands, switchVars
    <3>7. WaitersAreWaiting'
      BY <1>00, <2>0, <3>1, <3>2, <3>3, WaitingOne
    <3> QED BY <1>0, <3>1, <3>4, <3>5, <3>6, <3>7, UncheckedStands DEF ScheduleInv, Unchecked
  <2> QED BY <2>0, <2>1, <2>2 DEF ConsumeOrBlock
<1>36. CASE UNCHANGED vars
  <2>1. UNCHANGED <<state, stack_id, priority, wait_object, waiters, pc, call>> /\ UNCHANGED switchVars
    BY <1>36 DEF vars, tableVars, waitVars
  <2>2. OneRunning'
    BY <1>00, <2>1 DEF OneRunning, RunnableIn, GivingUp, switchVars
  <2>3. RequestStands'
    BY <1>00, <2>1 DEF RequestStands, RunnableIn, switchVars
  <2>4. CheckedStands'
    BY <1>00, <2>1 DEF CheckedStands, RunnableIn, Signallable, SettlesFor, switchVars
  <2>5. WaitersAreWaiting' /\ LiveHasStack'
    BY <1>00, <2>1 DEF WaitersAreWaiting, LiveHasStack, Live
  <2> QED BY <2>2, <2>3, <2>4, <2>5 DEF ScheduleInv
<1>37. ~(os_initialize_waitable_object \/ os_initialize_waitable_object_commit
         \/ os_initialize_waitable_object_clear \/ os_initialize_waitable_object_clear_commit)
  BY <1>00 DEF InitSteps, os_initialize_waitable_object, os_initialize_waitable_object_commit,
               os_initialize_waitable_object_clear, os_initialize_waitable_object_clear_commit
<1>38. ~Interrupt /\ "init" \notin Ops
  BY DEF Undisturbed, Interrupt
<1> QED
  BY <1>1, <1>2, <1>3, <1>4, <1>5, <1>6, <1>7, <1>8, <1>9, <1>10, <1>11, <1>12, <1>13, <1>14,
     <1>15, <1>16, <1>17, <1>18, <1>19, <1>20, <1>21, <1>22, <1>23, <1>24, <1>25, <1>26, <1>27,
     <1>28, <1>29, <1>30, <1>31, <1>32, <1>33, <1>34, <1>35, <1>36, <1>37, <1>38
     DEF Next, Syscall, HandlerStep

\* The idle thread and the autostart threads are ready at start, and the first
\* thread of the scan runs.
LEMMA ScheduleInit == Init => ScheduleInv
<1> SUFFICES ASSUME Init PROVE ScheduleInv
  OBVIOUS
<1> DEFINE st == [t \in Threads |-> IF t <= IdleThread THEN "READY" ELSE "EMPTY"]
           first == thread_current
<1>1. IdleThread \in Threads /\ first \in Threads
  BY TypeInit, TableAssumption DEF TypeInv, TypeOK, SwitchType, IdleThread, Threads
<1>2. /\ state = [st EXCEPT ![first] = "RUNNING"] /\ waiters = <<>>
      /\ stack_id = [t \in Threads |-> IF t <= IdleThread THEN t ELSE None]
      /\ pendsv = FALSE /\ cpu = first /\ pc = "user" /\ call = NoCall
  BY DEF Init
<1>3. first <= IdleThread
  <2> DEFINE pr == [t \in Threads |-> IF t < IdleThread THEN Autostart[t + 1]
                                      ELSE IF t = IdleThread THEN IdlePriority ELSE 0]
  <2>1. first = os_get_next_thread(255, st, pr)
    BY DEF Init
  <2>2. first # None
    BY <1>1, NoneAssumption DEF Threads
  <2> HIDE DEF st, pr, first
  <2>3. SettlesFor(255, first, st, pr)
    BY <2>1, <2>2 DEF os_get_next_thread
  <2>4. RunnableIn(st, first)
    BY <2>3 DEF SettlesFor
  <2> QED BY <1>1, <2>4 DEF RunnableIn, st
<1>4. /\ state[first] = "RUNNING"
      /\ \A t \in Threads \ {first} : state[t] = IF t <= IdleThread THEN "READY" ELSE "EMPTY"
  BY <1>1, <1>2
<1>5. OneRunning
  BY <1>1, <1>2, <1>4, TableAssumption DEF OneRunning, RunnableIn, IdleThread
<1>6. RequestStands /\ CheckedStands
  BY <1>2 DEF RequestStands, CheckedStands, NoCall, InitSteps
<1>7. WaitersAreWaiting
  BY <1>1, <1>2, <1>4 DEF WaitersAreWaiting
<1>8. LiveHasStack
  BY <1>1, <1>2, <1>3, <1>4, NoneAssumption DEF LiveHasStack, Live, Threads
<1> QED BY <1>5, <1>6, <1>7, <1>8 DEF ScheduleInv

\* All of it together, for an application without interrupts of its own.
SchedulerInv == TypeInv /\ WakeupInv /\ ScheduleInv

LEMMA SchedulerIsSound ==
    ASSUME Undisturbed
    PROVE  Spec => []SchedulerInv
<1>1. Init => SchedulerInv
  BY TypeInit, WakeupInit, ScheduleInit DEF SchedulerInv
<1>2. SchedulerInv /\ [Next]_vars => SchedulerInv'
  BY TypeStep, WakeupStep, ScheduleStep DEF SchedulerInv
<1> QED BY <1>1, <1>2, PTL DEF Spec

\* While no device interrupt uses the kernel and no object is initialised anew,
\* the assertions of os_sched_timing_callback hold: outside of handlers the CPU
\* executes thread_current, and it is the only RUNNING thread.
THEOREM CurrentRuns ==
    ASSUME Undisturbed
    PROVE  Spec => []CurrentThreadRuns
<1>1. SchedulerInv => CurrentThreadRuns
  <2> SUFFICES ASSUME SchedulerInv, AtRest
               PROVE  /\ cpu = thread_current
                      /\ \A t \in Threads : state[t] = "RUNNING" <=> t = thread_current
    BY DEF CurrentThreadRuns
  <2>1. OneRunning /\ pc = "user" /\ ~pendsv
    BY DEF SchedulerInv, ScheduleInv, AtRest
  <2> QED BY <2>1 DEF OneRunning, GivingUp
<1> QED BY <1>1, SchedulerIsSound, PTL

\* Under the same condition every switch os_sched_yield requests saves the
\* thread on the CPU and loads the runnable thread with a stack that the
\* scheduler has recorded in thread_next, when PendSV gets to take it.
THEOREM SwitchesAreConsistent ==
    ASSUME Undisturbed
    PROVE  Spec => []SwitchIsConsistent
<1>1. SchedulerInv => SwitchIsConsistent
  <2> SUFFICES ASSUME SchedulerInv, pendsv
               PROVE  /\ old_task = cpu /\ cpu = thread_current /\ new_task = thread_next
                      /\ RunnableIn(state, new_task) /\ stack_id[new_task] # None
    BY DEF SwitchIsConsistent
  <2>1. OneRunning /\ RequestStands /\ LiveHasStack /\ thread_next \in Threads
    BY DEF SchedulerInv, ScheduleInv, TypeInv, TypeOK, SwitchType
  <2> QED BY <2>1 DEF OneRunning, RequestStands, LiveHasStack, Live, RunnableIn
<1> QED BY <1>1, SchedulerIsSound, PTL

\* Under the same condition os_notification_waiters lists every waiting thread
\* exactly once and nobody else, through exits, kills, stops and reused slots.
THEOREM WaitersAreListed ==
    ASSUME Undisturbed
    PROVE  Spec => []WaitersAreWaiting
<1>1. SchedulerInv => WaitersAreWaiting
  BY DEF SchedulerInv, ScheduleInv
<1> QED BY <1>1, SchedulerIsSound, PTL

\* Under the same condition no thread becomes READY before it has a stack, and
\* none loses it while it may still run.
THEOREM LiveThreadsHaveStacks ==
    ASSUME Undisturbed
    PROVE  Spec => []LiveHasStack
<1>1. SchedulerInv => LiveHasStack
  BY DEF SchedulerInv, ScheduleInv
<1> QED BY <1>1, SchedulerIsSound, PTL

------------------------------------------------------------------------------
(***************************************************************************)
(* Priorities.                                                             *)
(***************************************************************************)

\* A handler on its way to os_sched_yield need not care who is most urgent.
LEMMA YieldingIsUrgent ==
    ASSUME pc' \in {"yield", "yield_commit"}, ~pendsv'
    PROVE  UrgentInv'
BY DEF UrgentInv, YieldSteps

\* Nobody becomes runnable and no priority changes.
Calm ==
    /\ UNCHANGED <<priority, switchVars>>
    /\ pc \notin YieldSteps /\ ~pendsv
    /\ pc' \notin YieldSteps \cup CreateSteps
    /\ \A t \in Threads : RunnableIn(state', t) => RunnableIn(state, t)
    /\ state'[thread_current] = "RUNNING" => state[thread_current] = "RUNNING"

\* Whoever was most urgent in a calm step still is.
LEMMA CalmKeeps ==
    ASSUME Calm, UrgentInv
    PROVE  UrgentInv'
<1>1. MostUrgent(thread_current) => MostUrgent(thread_current)'
  BY DEF Calm, MostUrgent, switchVars
<1> QED BY <1>1 DEF Calm, UrgentInv, switchVars, CreateSteps, YieldSteps

\* Steps of a handler that leave all tables alone.
LEMMA IdleStepIsCalm ==
    ASSUME UNCHANGED <<state, priority, switchVars>>, ~pendsv,
           pc \notin YieldSteps, pc' \notin YieldSteps \cup CreateSteps
    PROVE  Calm
BY DEF Calm, RunnableIn

\* The most urgent runnable thread keeps the CPU, step by step.
LEMMA UrgentStep ==
    ASSUME Undisturbed, "create" \notin Ops,
           TypeInv, WakeupInv, ScheduleInv, UrgentInv, [Next]_vars
    PROVE  UrgentInv'
<1>0. /\ state \in [Threads -> States] /\ priority \in [Threads -> 0 .. IdlePriority]
      /\ thread_current \in Threads /\ IdleThread \in Threads /\ thread_next \in Threads
      /\ call \in Calls /\ CallOK /\ call.fresh = TRUE /\ TableType /\ WaitType
      /\ OneRunning /\ RequestStands /\ CheckedStands
      /\ pc \notin CreateSteps /\ pc' \notin CreateSteps /\ pc \notin InitSteps
  <2>1. pc \notin CreateSteps
    BY DEF UrgentInv, CreateSteps
  <2>2. pc' \notin CreateSteps
    BY <2>1, NoCreation
  <2>3. IdleThread \in Threads
    BY TableAssumption DEF IdleThread, Threads
  <2>4. TableType /\ WaitType /\ SwitchType /\ call \in Calls /\ CallOK
    BY DEF TypeInv, TypeOK
  <2>5. OneRunning /\ RequestStands /\ CheckedStands
    BY DEF ScheduleInv
  <2> QED BY <2>1, <2>2, <2>3, <2>4, <2>5 DEF TableType, SwitchType, CheckedStands
<1>00. pc # "user" => ~pendsv
  BY NoneRequested
<1> USE DEF YieldSteps
<1>1. CASE SVC_Handler
  <2>1. UNCHANGED <<state, priority, switchVars>> /\ ~pendsv /\ pc = "user" /\ pc' = "svc"
    BY <1>1 DEF SVC_Handler, Goto, tableVars
  <2> QED BY <1>0, <2>1, IdleStepIsCalm, CalmKeeps
<1>2. CASE SysTick \/ sys_sched_yield \/ os_setpriority \/ os_thread_continue_commit
  <2>1. pc' = "yield" /\ UNCHANGED switchVars /\ ~pendsv
    BY <1>00, <1>2 DEF SysTick, sys_sched_yield, os_setpriority, os_thread_continue_commit, Goto, SVC
  <2> QED BY <2>1, YieldingIsUrgent DEF switchVars
<1>3. CASE PendSV
  <2>1. /\ pendsv /\ pendsv' = FALSE /\ pc = "user" /\ pc' = "user"
        /\ state' = [Leave(state, thread_current) EXCEPT ![thread_next] = "RUNNING"]
        /\ thread_current' = thread_next /\ UNCHANGED priority
    BY <1>3 DEF PendSV, os_request_context_switch
  <2>2. MostUrgent(thread_next) /\ RunnableIn(state, thread_next)
    BY <1>0, <2>1 DEF UrgentInv, RequestStands
  <2>3. \A t \in Threads : RunnableIn(state', t) => RunnableIn(state, t)
    BY <1>0, <2>1, <2>2 DEF RunnableIn, Leave
  <2>4. MostUrgent(thread_current)'
    BY <2>1, <2>2, <2>3 DEF MostUrgent
  <2> QED BY <1>0, <2>1, <2>4 DEF UrgentInv, CreateSteps
<1>4. CASE \/ os_system_call_reports \/ sys_thread_exit \/ os_signal \/ sys_kill_signal
           \/ sys_kill_SIGKILL \/ sys_kill_SIGSTOP \/ sys_kill_SIGCONT
  <2>1. UNCHANGED <<state, priority, switchVars>> /\ pc = "svc" /\ pc' \notin YieldSteps
    BY <1>4 DEF os_system_call_reports, sys_thread_exit, os_signal, sys_kill_signal,
                sys_kill_SIGKILL, sys_kill_SIGSTOP, sys_kill_SIGCONT, os_kill_dispatch,
                SVC, Goto, Return, tableVars
  <2> QED BY <1>0, <1>00, <2>1, IdleStepIsCalm, CalmKeeps
<1>5. CASE \/ sys_notify_object \/ sys_notify_object2
           \/ sys_wait_for_object \/ sys_wait_for_object_value
  <2>1. UNCHANGED <<state, priority, switchVars>> /\ pc = "svc" /\ pc' \notin YieldSteps
    BY <1>5 DEF sys_notify_object, sys_notify_object2, sys_wait_for_object,
                sys_wait_for_object_value, SVC, Goto, Return, tableVars
  <2> QED BY <1>0, <1>00, <2>1, IdleStepIsCalm, CalmKeeps
<1>6. CASE os_thread_join
  <2>1. /\ pc = "svc" /\ UNCHANGED <<priority, switchVars>> /\ pc' \in {"user", "wait"}
        /\ \/ UNCHANGED state
           \/ \E t \in AppThreads : state' = [state EXCEPT ![t] = "EMPTY"]
    BY <1>6 DEF os_thread_join, SVC, Goto, Return
  <2>2. Calm
    BY <1>0, <1>00, <2>1 DEF Calm, RunnableIn
  <2> QED BY <2>2, CalmKeeps
<1>7. CASE os_sched_yield
  <2> DEFINE next == os_get_next_thread(thread_current, state, priority)
  <2>1. /\ pc = "yield" /\ UNCHANGED <<state, priority, switchVars>>
        /\ pc' = IF next = None THEN "yield_clear" ELSE "yield_commit"
    BY <1>7 DEF os_sched_yield, Found, tableVars
  <2>2. CASE next # None
    BY <1>00, <2>1, <2>2, YieldingIsUrgent DEF switchVars
  <2>3. CASE next = None
    <3>1. None \notin Threads
      BY NoneAssumption DEF Threads
    <3>2. RunnableIn(state, IdleThread) /\ thread_current \in Nat
      BY <1>0 DEF OneRunning, Threads
    <3>3. MostUrgent(thread_current)
      BY <1>0, <2>3, <3>1, <3>2, NobodyFound DEF MostUrgent
    <3>4. MostUrgent(thread_current)'
      BY <2>1, <3>3 DEF MostUrgent, switchVars
    <3> HIDE DEF next
    <3> QED BY <1>0, <1>00, <2>1, <2>3, <3>4 DEF UrgentInv, CreateSteps, switchVars
  <2> QED BY <2>2, <2>3
<1>8. CASE os_sched_yield_commit
  <2>1. pc = "yield_commit" /\ SwitchTo(call.cand) /\ pc' = "user" /\ UNCHANGED <<state, priority>>
    BY <1>0, <1>8 DEF os_sched_yield_commit, Return, tableVars
  <2>2. SettlesFor(thread_current, call.cand, state, priority) /\ call.cand \in Threads
    BY <1>0, <2>1 DEF CheckedStands, CallOK
  <2>3. thread_next' = call.cand /\ pendsv' = TRUE
    BY <2>1, <2>2, NoneAssumption
       DEF SwitchTo, schedule_context_switch, os_request_context_switch, Threads
  <2>4. MostUrgent(call.cand)
    <3>1. \A t \in Threads : priority[t] \in Nat
      BY <1>0 DEF IdlePriority
    <3> QED BY <2>2, <3>1 DEF MostUrgent, SettlesFor
  <2>5. MostUrgent(thread_next)'
    BY <2>1, <2>3, <2>4 DEF MostUrgent
  <2> QED BY <1>0, <2>1, <2>3, <2>5 DEF UrgentInv, CreateSteps
<1>9. CASE os_sched_yield_clear
  <2>1. /\ pc = "yield_clear" /\ pendsv' = FALSE /\ pc' = "user"
        /\ UNCHANGED <<state, priority, thread_current>>
    BY <1>9 DEF os_sched_yield_clear, SwitchTo, os_request_context_switch, Return, tableVars
  <2>2. MostUrgent(thread_current)'
    BY <2>1 DEF UrgentInv, MostUrgent
  <2> QED BY <1>0, <2>1, <2>2 DEF UrgentInv, CreateSteps
<1>10. CASE os_thread_kill
  <2>1. /\ pc = "kill" /\ UNCHANGED <<priority, switchVars>> /\ pc' \in {"user", "dispose"}
        /\ \/ UNCHANGED state
           \/ state' = [state EXCEPT ![call.tgt] = "FINISHED"]
    BY <1>10 DEF os_thread_kill, Found, Return
  <2>2. Calm
    BY <1>0, <1>00, <2>1 DEF Calm, RunnableIn
  <2> QED BY <2>2, CalmKeeps
<1>11. CASE os_thread_kill_dispose
  <2>1. UNCHANGED <<state, priority, switchVars>> /\ pc = "dispose" /\ pc' = "self"
    BY <1>11 DEF os_thread_kill_dispose, Goto
  <2> QED BY <1>0, <1>00, <2>1, IdleStepIsCalm, CalmKeeps
<1>12. CASE yield_if_current
  <2>1. UNCHANGED <<state, priority, switchVars>> /\ pc = "self" /\ pc' \in {"yield", "user"}
    BY <1>12 DEF yield_if_current, YieldIfCurrent, Goto, Return, tableVars
  <2>2. CASE pc' = "yield"
    BY <1>00, <2>1, <2>2, YieldingIsUrgent DEF switchVars
  <2>3. CASE pc' = "user"
    BY <1>0, <1>00, <2>1, <2>3, IdleStepIsCalm, CalmKeeps
  <2> QED BY <2>1, <2>2, <2>3
<1>13. CASE os_thread_stop \/ os_thread_continue \/ os_notify_object \/ os_wait_for_object
  <2>1. /\ UNCHANGED <<state, priority, switchVars>>
        /\ pc \notin {"user"} \cup YieldSteps /\ pc' \notin YieldSteps
    BY <1>13 DEF os_thread_stop, os_thread_continue, os_notify_object, os_wait_for_object,
                 Found, Goto, Return, tableVars
  <2> QED BY <1>0, <1>00, <2>1, IdleStepIsCalm, CalmKeeps
<1>14. CASE os_thread_stop_commit
  <2>1. /\ pc = "stop_commit" /\ UNCHANGED <<priority, switchVars>> /\ pc' \in {"self", "stop"}
        /\ \/ UNCHANGED state
           \/ state' = [state EXCEPT ![call.tgt] = "STOPPED"]
    BY <1>14 DEF os_thread_stop_commit, Goto
  <2>2. Calm
    BY <1>0, <1>00, <2>1 DEF Calm, RunnableIn
  <2> QED BY <2>2, CalmKeeps
<1>15. CASE os_notify_object_commit
  <2>0. pc = "notify_commit" /\ UNCHANGED switchVars /\ ~pendsv
    BY <1>00, <1>15 DEF os_notify_object_commit
  <2>1. CASE call.cand = None
    <3>1. UNCHANGED <<state, priority>> /\ pc' = "user"
      BY <1>0, <1>15, <2>1 DEF os_notify_object_commit, NotifyNobody, Return
    <3> QED BY <1>0, <2>0, <3>1, IdleStepIsCalm, CalmKeeps
  <2>2. CASE call.cand # None
    <3> DEFINE t == waiters[call.cand]
    <3>1. NotifyWaiter
      BY <1>0, <1>15, <2>2 DEF os_notify_object_commit
    <3>2. pc' \in {"yield", "user"}
      BY <3>1 DEF NotifyWaiter, Goto, Return
    <3>3. CASE pc' = "yield"
      BY <2>0, <3>3, YieldingIsUrgent DEF switchVars
    <3>4. CASE pc' = "user"
      <4>1. UNCHANGED priority /\ ~(priority[t] < priority[thread_current])
        BY <2>0, <3>1, <3>4 DEF NotifyWaiter, DroppedPriority, Goto, Return, switchVars
      <4>2. t \in Threads
        BY <1>0, <2>0, <2>2 DEF CallOK, WaitType
      <4>3. state[thread_current] = "RUNNING"
        BY <2>0, CallerRuns
      <4>4. MostUrgent(thread_current)
        BY <2>0, <4>3 DEF UrgentInv
      <4>5. \A u \in Threads : priority[u] \in Nat
        BY <1>0 DEF IdlePriority
      <4>6. state' = Awakened(t)
        BY <3>1 DEF NotifyWaiter, os_notify_thread
      <4>7. \A u \in Threads \ {t} : RunnableIn(state', u) => RunnableIn(state, u)
        BY <1>0, <4>6 DEF Awakened, cb_syscall_notify_object, cb_thread_join_notify, RunnableIn
      <4>8. priority[thread_current] <= priority[t]
        BY <1>0, <4>1, <4>2, <4>5
      <4> HIDE DEF t
      <4>9. MostUrgent(thread_current)'
        BY <2>0, <4>1, <4>4, <4>7, <4>8 DEF MostUrgent, switchVars
      <4> QED BY <1>0, <2>0, <3>4, <4>9 DEF UrgentInv, switchVars, CreateSteps
    <3> QED BY <3>2, <3>3, <3>4
  <2> QED BY <2>1, <2>2
<1>16. CASE os_wait_for_object_commit
  <2>0. pc = "wait_commit" /\ UNCHANGED <<priority, switchVars>> /\ ~pendsv /\ ConsumeOrBlock
    BY <1>0, <1>00, <1>16 DEF os_wait_for_object_commit
  <2>1. CASE Consume
    <3>1. UNCHANGED state /\ pc' = "user"
      BY <2>1 DEF Consume, Return
    <3> QED BY <1>0, <2>0, <3>1, IdleStepIsCalm, CalmKeeps
  <2>2. CASE Block
    BY <2>0, <2>2, YieldingIsUrgent DEF Block, Goto, switchVars
  <2> QED BY <2>0, <2>1, <2>2 DEF ConsumeOrBlock
<1>17. CASE UNCHANGED vars
  BY <1>17 DEF UrgentInv, MostUrgent, RunnableIn, vars, tableVars, switchVars
<1>18. ~(os_thread_alloc \/ os_thread_alloc_commit \/ os_stack_create
         \/ os_stack_create_commit \/ os_thread_construct)
  BY <1>0 DEF CreateSteps, os_thread_alloc, os_thread_alloc_commit, os_stack_create,
              os_stack_create_commit, os_thread_construct
<1>19. ~(os_initialize_waitable_object \/ os_initialize_waitable_object_commit
         \/ os_initialize_waitable_object_clear \/ os_initialize_waitable_object_clear_commit)
  BY <1>0 DEF InitSteps, os_initialize_waitable_object, os_initialize_waitable_object_commit,
              os_initialize_waitable_object_clear, os_initialize_waitable_object_clear_commit
<1>20. ~Interrupt /\ "init" \notin Ops
  BY DEF Undisturbed, Interrupt
<1> QED
  BY <1>1, <1>2, <1>3, <1>4, <1>5, <1>6, <1>7, <1>8, <1>9, <1>10, <1>11, <1>12, <1>13,
     <1>14, <1>15, <1>16, <1>17, <1>18, <1>19, <1>20
     DEF Next, Syscall, HandlerStep

\* The scan for the first thread settles for the most urgent one.
LEMMA UrgentInit == Init => UrgentInv
<1> SUFFICES ASSUME Init PROVE UrgentInv
  OBVIOUS
<1> DEFINE st == [t \in Threads |-> IF t <= IdleThread THEN "READY" ELSE "EMPTY"]
           first == thread_current
<1>1. first \in Threads /\ \A t \in Threads : priority[t] \in Nat
  BY TypeInit DEF TypeInv, TypeOK, SwitchType, TableType, IdlePriority
<1>2. state = [st EXCEPT ![first] = "RUNNING"] /\ pendsv = FALSE /\ pc = "user"
  BY DEF Init
<1>3. first = os_get_next_thread(255, st, priority) /\ first # None
  BY <1>1, NoneAssumption DEF Init, Threads
<1> HIDE DEF first
<1>4. SettlesFor(255, first, st, priority)
  BY <1>3 DEF os_get_next_thread
<1>5. \A t \in Threads : RunnableIn(state, t) => RunnableIn(st, t)
  BY <1>1, <1>2, <1>4 DEF RunnableIn, SettlesFor
<1>6. MostUrgent(first)
  BY <1>1, <1>4, <1>5 DEF MostUrgent, SettlesFor
<1> QED BY <1>2, <1>6 DEF UrgentInv, first

\* "CPU time is always allocated to thread(s) with highest priority that are
\* runnable" (man/02_overview.md), while no device interrupt uses the kernel, no
\* object is initialised anew and no thread is created: thread_create does not
\* yield to a more urgent thread it has made.
THEOREM MostUrgentGetsCpu ==
    ASSUME Undisturbed, "create" \notin Ops
    PROVE  Spec => []MostUrgentRuns
<1> DEFINE IInv == SchedulerInv /\ UrgentInv
<1>1. Init => IInv
  BY TypeInit, WakeupInit, ScheduleInit, UrgentInit DEF SchedulerInv
<1>2. IInv /\ [Next]_vars => IInv'
  BY TypeStep, WakeupStep, ScheduleStep, UrgentStep DEF SchedulerInv
<1>3. IInv => MostUrgentRuns
  <2> SUFFICES ASSUME IInv, AtRest
               PROVE  MostUrgent(thread_current)
    BY DEF MostUrgentRuns, MostUrgent
  <2>1. pc = "user" /\ ~pendsv /\ OneRunning
    BY DEF AtRest, SchedulerInv, ScheduleInv
  <2> QED BY <2>1 DEF UrgentInv, OneRunning, GivingUp, YieldSteps
<1> HIDE DEF IInv
<1> QED BY <1>1, <1>2, <1>3, PTL DEF Spec

------------------------------------------------------------------------------
(***************************************************************************)
(* The timer tables.                                                       *)
(***************************************************************************)

\* What the fields of well-typed tables are.
LEMMA TableFields ==
    ASSUME NEW tm \in Tables
    PROVE  /\ tm.size \in Nat /\ tm.size <= SLEEPERS_MAX
           /\ tm.cursor \in Nat /\ tm.cursor <= SLEEPERS_MAX
           /\ DOMAIN tm.queue = 0 .. SLEEPERS_MAX /\ SLEEPERS_MAX \in Nat \ {0}
           /\ \A i \in 0 .. SLEEPERS_MAX :
                 /\ tm.queue[i] \in [resume_time : Times, entry_id : Sleepers]
                 /\ tm.queue[i].resume_time \in Times /\ tm.queue[i].resume_time \in Nat
                 /\ tm.queue[i].entry_id \in Sleepers
           /\ tm.queue \in [0 .. SLEEPERS_MAX -> [resume_time : Times, entry_id : Sleepers]]
           /\ Used(tm) \subseteq 0 .. SLEEPERS_MAX
<1>1. SLEEPERS_MAX \in Nat \ {0} /\ TimeMod \in Nat
  BY TimerAssumption
<1>2. /\ tm.size \in 0 .. SLEEPERS_MAX /\ tm.cursor \in 0 .. SLEEPERS_MAX
      /\ tm.queue \in [0 .. SLEEPERS_MAX -> [resume_time : Times, entry_id : Sleepers]]
  BY DEF Tables
<1>3. Times \subseteq Nat
  BY <1>1 DEF Times
<1>4. \A i \in 0 .. SLEEPERS_MAX :
                 /\ tm.queue[i] \in [resume_time : Times, entry_id : Sleepers]
                 /\ tm.queue[i].resume_time \in Times /\ tm.queue[i].resume_time \in Nat
                 /\ tm.queue[i].entry_id \in Sleepers
  BY <1>2, <1>3
<1>5. Used(tm) \subseteq 0 .. SLEEPERS_MAX
  BY <1>1, <1>2 DEF Used
<1> QED BY <1>1, <1>2, <1>4, <1>5

\* BINARY_SEARCH separates the earlier entries from the others.
LEMMA SearchSeparates ==
    ASSUME NEW tm \in Tables, Ordered(tm), NEW time \in Times
    PROVE  /\ BINARY_SEARCH(tm, time) \in 0 .. tm.size
           /\ \A i \in Used(tm) :
                 /\ i < BINARY_SEARCH(tm, time) => tm.queue[i].resume_time < time
                 /\ i >= BINARY_SEARCH(tm, time) => tm.queue[i].resume_time >= time
<1> DEFINE S == {i \in 0 .. tm.size : i = tm.size \/ tm.queue[i].resume_time >= time}
           offs == BINARY_SEARCH(tm, time)
<1>1. tm.size \in Nat /\ tm.size \in S /\ S \subseteq Nat
  BY TableFields
<1>2. offs \in S /\ \A y \in S : offs <= y
  BY <1>1, LowestIn DEF BINARY_SEARCH
<1>3. ASSUME NEW i \in Used(tm)
      PROVE  /\ i < offs => tm.queue[i].resume_time < time
             /\ i >= offs => tm.queue[i].resume_time >= time
  <2>0. offs \in Nat
    BY <1>1, <1>2
  <2>1. /\ i \in 0 .. tm.size /\ i # tm.size /\ i \in Nat /\ time \in Nat
        /\ tm.queue[i].resume_time \in Nat
    BY <1>1, TableFields, TimerAssumption DEF Used, Times
  <2>2. CASE i < offs
    <3>1. i \notin S
      BY <1>1, <1>2, <2>1, <2>2
    <3> QED BY <2>0, <2>1, <2>2, <3>1
  <2>3. CASE i >= offs
    <3>1. offs \in Used(tm) /\ offs # tm.size
      BY <1>1, <1>2, <2>1, <2>3 DEF Used
    <3>2. tm.queue[offs].resume_time >= time
      BY <1>2, <3>1
    <3>3. tm.queue[offs].resume_time <= tm.queue[i].resume_time
      BY <2>3, <3>1 DEF Ordered
    <3>4. tm.queue[offs].resume_time \in Nat
      BY <3>1, TableFields
    <3> QED BY <2>0, <2>1, <2>3, <3>2, <3>3, <3>4
  <2> QED BY <2>0, <2>1, <2>2, <2>3
<1> QED BY <1>1, <1>2, <1>3

\* os_dequeue_timed_event takes one entry off the queue, which stays in order.
LEMMA Dequeued ==
    ASSUME NEW tm \in Tables, Ordered(tm), NEW offs \in Used(tm)
    PROVE  /\ os_dequeue_timed_event(tm, offs) \in Tables
           /\ Ordered(os_dequeue_timed_event(tm, offs))
           /\ os_dequeue_timed_event(tm, offs).size = tm.size - 1
           /\ os_dequeue_timed_event(tm, offs).sleepers = tm.sleepers
           /\ EntriesOf(os_dequeue_timed_event(tm, offs)) = EntriesOf(tm) \ {tm.queue[offs]}
<1> DEFINE d == os_dequeue_timed_event(tm, offs)
           at(i) == IF i < offs THEN i ELSE i + 1
<1>0. /\ tm.size \in Nat /\ tm.size <= SLEEPERS_MAX /\ SLEEPERS_MAX \in Nat
      /\ DOMAIN tm.queue = 0 .. SLEEPERS_MAX
      /\ offs \in Nat /\ offs < tm.size
      /\ tm.cursor \in Nat /\ tm.cursor <= SLEEPERS_MAX
  BY TableFields DEF Used
<1>1. d \in Tables /\ d.size = tm.size - 1 /\ d.sleepers = tm.sleepers /\ d.queue = Deleted(tm, offs)
  <2>1. Deleted(tm, offs) \in [0 .. SLEEPERS_MAX -> [resume_time : Times, entry_id : Sleepers]]
    <3>1. ASSUME NEW i \in 0 .. SLEEPERS_MAX
          PROVE  (IF offs <= i /\ i < tm.size - 1 THEN tm.queue[i + 1] ELSE tm.queue[i])
                    \in [resume_time : Times, entry_id : Sleepers]
      <4>1. offs <= i /\ i < tm.size - 1 => i + 1 \in 0 .. SLEEPERS_MAX
        BY <1>0
      <4> QED BY <4>1, TableFields
    <3> QED BY <1>0, <3>1 DEF Deleted
  <2>2. CursorBefore(tm, offs) \in 0 .. SLEEPERS_MAX
    BY <1>0 DEF CursorBefore
  <2>3. tm.size - 1 \in 0 .. SLEEPERS_MAX
    BY <1>0
  <2> QED BY <2>1, <2>2, <2>3 DEF os_dequeue_timed_event, Tables
<1> HIDE DEF d
<1>2. ASSUME NEW i \in Used(d)
      PROVE  at(i) \in Used(tm) /\ at(i) # offs /\ d.queue[i] = tm.queue[at(i)]
  <2>1. i \in Nat /\ i < tm.size - 1 /\ i \in DOMAIN tm.queue
    BY <1>0, <1>1 DEF Used
  <2> QED BY <1>0, <1>1, <2>1 DEF Used, Deleted
<1>3. \A i, j \in Used(d) : i \in Int /\ j \in Int /\ (i <= j => at(i) <= at(j)) /\ (at(i) = at(j) => i = j)
  BY <1>0, <1>1 DEF Used
<1>4. \A j \in Used(tm) \ {offs} : \E i \in Used(d) : at(i) = j
  <2> SUFFICES ASSUME NEW j \in Used(tm) \ {offs} PROVE \E i \in Used(d) : at(i) = j
    OBVIOUS
  <2>1. CASE j < offs
    BY <1>0, <1>1, <2>1 DEF Used
  <2>2. CASE j > offs
    <3>1. j - 1 \in Used(d) /\ at(j - 1) = j
      BY <1>0, <1>1, <2>2 DEF Used
    <3> QED BY <3>1
  <2> QED BY <1>0, <2>1, <2>2 DEF Used
<1> HIDE DEF at
<1>5. Ordered(d)
  BY <1>2, <1>3 DEF Ordered
<1>6. \A j \in Used(tm) : tm.queue[j] = tm.queue[offs] => j = offs
  BY DEF Ordered
<1>7. EntriesOf(d) = EntriesOf(tm) \ {tm.queue[offs]}
  <2>1. ASSUME NEW e \in EntriesOf(d) PROVE e \in EntriesOf(tm) \ {tm.queue[offs]}
    <3>1. PICK i \in Used(d) : e = d.queue[i]
      BY DEF EntriesOf
    <3> QED BY <1>2, <1>6, <3>1 DEF EntriesOf
  <2>2. ASSUME NEW e \in EntriesOf(tm) \ {tm.queue[offs]} PROVE e \in EntriesOf(d)
    <3>1. PICK j \in Used(tm) : e = tm.queue[j]
      BY DEF EntriesOf
    <3>2. PICK i \in Used(d) : at(i) = j
      BY <1>4, <3>1
    <3> QED BY <1>2, <3>1, <3>2 DEF EntriesOf
  <2> QED BY <2>1, <2>2
<1> QED BY <1>1, <1>5, <1>7 DEF d

\* os_enqueue_timed_event puts one entry into the queue, which stays in order.
LEMMA Enqueued ==
    ASSUME NEW tm \in Tables, Ordered(tm), tm.size < SLEEPERS_MAX,
           NEW slot \in Sleepers, NEW time \in Times,
           \A e \in EntriesOf(tm) : e.entry_id # slot
    PROVE  /\ os_enqueue_timed_event(tm, slot, time) \in Tables
           /\ Ordered(os_enqueue_timed_event(tm, slot, time))
           /\ os_enqueue_timed_event(tm, slot, time).size = tm.size + 1
           /\ os_enqueue_timed_event(tm, slot, time).sleepers = tm.sleepers
           /\ EntriesOf(os_enqueue_timed_event(tm, slot, time))
                 = EntriesOf(tm) \cup {[resume_time |-> time, entry_id |-> slot]}
<1> DEFINE d == os_enqueue_timed_event(tm, slot, time)
           offs == BINARY_SEARCH(tm, time)
           entry == [resume_time |-> time, entry_id |-> slot]
           at(i) == IF i < offs THEN i ELSE i - 1
<1>0. /\ tm.size \in Nat /\ tm.size < SLEEPERS_MAX /\ SLEEPERS_MAX \in Nat
      /\ DOMAIN tm.queue = 0 .. SLEEPERS_MAX
      /\ offs \in Nat /\ offs <= tm.size
      /\ tm.cursor \in Nat /\ tm.cursor <= SLEEPERS_MAX
      /\ entry \in [resume_time : Times, entry_id : Sleepers]
      /\ entry.resume_time = time /\ entry.entry_id = slot /\ time \in Nat
  BY TableFields, SearchSeparates, TimerAssumption DEF Times
<1>00. \A i \in Used(tm) :
                 /\ i < offs => tm.queue[i].resume_time < time
                 /\ i >= offs => tm.queue[i].resume_time >= time
  BY SearchSeparates
<1> HIDE DEF offs, entry
<1>1. d \in Tables /\ d.size = tm.size + 1 /\ d.sleepers = tm.sleepers /\ d.queue = ARRAY_INSERT(tm, offs, entry)
  <2>1. ARRAY_INSERT(tm, offs, entry) \in [0 .. SLEEPERS_MAX -> [resume_time : Times, entry_id : Sleepers]]
    <3>1. ASSUME NEW i \in 0 .. SLEEPERS_MAX
          PROVE  (CASE i = offs -> entry
                    [] offs < i /\ i <= tm.size -> tm.queue[i - 1]
                    [] OTHER -> tm.queue[i]) \in [resume_time : Times, entry_id : Sleepers]
      <4>1. offs < i => i - 1 \in 0 .. SLEEPERS_MAX
        BY <1>0
      <4> QED BY <1>0, <4>1, TableFields
    <3> QED BY <1>0, <3>1 DEF ARRAY_INSERT
  <2>2. CursorBefore(tm, offs) \in 0 .. SLEEPERS_MAX
    BY <1>0 DEF CursorBefore
  <2>3. tm.size + 1 \in 0 .. SLEEPERS_MAX
    BY <1>0
  <2> QED BY <2>1, <2>2, <2>3 DEF os_enqueue_timed_event, Tables, offs, entry
<1> HIDE DEF d
<1>2. /\ offs \in Used(d) /\ d.queue[offs] = entry
      /\ \A i \in Used(d) \ {offs} :
            at(i) \in Used(tm) /\ d.queue[i] = tm.queue[at(i)] /\ (i < offs <=> at(i) < offs)
  <2>1. offs \in Used(d) /\ d.queue[offs] = entry
    BY <1>0, <1>1 DEF Used, ARRAY_INSERT
  <2>2. ASSUME NEW i \in Used(d) \ {offs}
        PROVE  at(i) \in Used(tm) /\ d.queue[i] = tm.queue[at(i)] /\ (i < offs <=> at(i) < offs)
    <3>1. i \in Nat /\ i <= tm.size /\ i # offs /\ i \in DOMAIN tm.queue
      BY <1>0, <1>1 DEF Used
    <3>2. d.queue[i] = tm.queue[at(i)]
      BY <1>0, <1>1, <3>1 DEF ARRAY_INSERT
    <3> QED BY <1>0, <3>1, <3>2 DEF Used
  <2> QED BY <2>1, <2>2
<1>3. \A i, j \in Used(d) \ {offs} :
         i \in Int /\ j \in Int /\ (i <= j => at(i) <= at(j)) /\ (at(i) = at(j) => i = j)
  BY <1>0, <1>1 DEF Used
<1>4. \A j \in Used(tm) : \E i \in Used(d) \ {offs} : at(i) = j
  <2> SUFFICES ASSUME NEW j \in Used(tm) PROVE \E i \in Used(d) \ {offs} : at(i) = j
    OBVIOUS
  <2>1. CASE j < offs
    BY <1>0, <1>1, <2>1 DEF Used
  <2>2. CASE j >= offs
    <3>1. j + 1 \in Used(d) \ {offs} /\ at(j + 1) = j
      BY <1>0, <1>1, <2>2 DEF Used
    <3> QED BY <3>1
  <2> QED BY <1>0, <2>1, <2>2 DEF Used
<1>5. \A i \in Used(d) \ {offs} :
         /\ i \in Int /\ at(i) \in Int
         /\ i < offs => d.queue[i].resume_time < time
         /\ i > offs => d.queue[i].resume_time >= time
         /\ d.queue[i].entry_id # slot
         /\ d.queue[i].resume_time \in Nat
  <2> SUFFICES ASSUME NEW i \in Used(d) \ {offs}
               PROVE  /\ i \in Int /\ at(i) \in Int
                      /\ i < offs => d.queue[i].resume_time < time
                      /\ i > offs => d.queue[i].resume_time >= time
                      /\ d.queue[i].entry_id # slot
                      /\ d.queue[i].resume_time \in Nat
    OBVIOUS
  <2>1. i \in Int /\ at(i) \in Int
    BY <1>0, <1>1 DEF Used
  <2> HIDE DEF at
  <2>2. at(i) \in Used(tm) /\ d.queue[i] = tm.queue[at(i)] /\ (i < offs <=> at(i) < offs)
    BY <1>2
  <2>3. tm.queue[at(i)] \in EntriesOf(tm) /\ tm.queue[at(i)].resume_time \in Nat
    BY <2>2, TableFields DEF EntriesOf
  <2> QED BY <1>0, <1>00, <2>1, <2>2, <2>3
<1> HIDE DEF at
<1>6. Ordered(d)
  <2>1. ASSUME NEW i \in Used(d), NEW j \in Used(d), i <= j
        PROVE  d.queue[i].resume_time <= d.queue[j].resume_time
    <3>1. CASE i = offs /\ j = offs
      BY <1>0, <1>2, <3>1
    <3>2. CASE i = offs /\ j # offs
      BY <1>0, <1>2, <1>5, <2>1, <3>2
    <3>3. CASE i # offs /\ j = offs
      <4>0. i \in Int /\ offs \in Int
        BY <1>0, <1>1 DEF Used
      <4>1. i < offs
        BY <2>1, <3>3, <4>0
      <4>2. d.queue[i].resume_time < time /\ d.queue[i].resume_time \in Nat
        BY <1>5, <3>3, <4>1
      <4> QED BY <1>0, <1>2, <3>3, <4>2
    <3>4. CASE i # offs /\ j # offs
      BY <1>2, <1>3, <2>1, <3>4 DEF Ordered
    <3> QED BY <3>1, <3>2, <3>3, <3>4
  <2>2. ASSUME NEW i \in Used(d), NEW j \in Used(d), d.queue[i].entry_id = d.queue[j].entry_id
        PROVE  i = j
    <3>1. CASE i # offs /\ j # offs
      BY <1>2, <1>3, <2>2, <3>1 DEF Ordered
    <3> QED BY <1>0, <1>2, <1>5, <2>2, <3>1
  <2> QED BY <2>1, <2>2 DEF Ordered
<1>7. EntriesOf(d) = EntriesOf(tm) \cup {entry}
  <2>1. ASSUME NEW e \in EntriesOf(d) PROVE e \in EntriesOf(tm) \cup {entry}
    <3>1. PICK i \in Used(d) : e = d.queue[i]
      BY DEF EntriesOf
    <3> QED BY <1>2, <3>1 DEF EntriesOf
  <2>2. ASSUME NEW e \in EntriesOf(tm) PROVE e \in EntriesOf(d)
    <3>1. PICK j \in Used(tm) : e = tm.queue[j]
      BY DEF EntriesOf
    <3>2. PICK i \in Used(d) \ {offs} : at(i) = j
      BY <1>4
    <3> QED BY <1>2, <3>1, <3>2 DEF EntriesOf
  <2>3. entry \in EntriesOf(d)
    BY <1>2 DEF EntriesOf
  <2> QED BY <2>1, <2>2, <2>3
<1> QED BY <1>1, <1>6, <1>7 DEF d, entry

\* Sums of times are times.
LEMMA AfterIsTime ==
    ASSUME NEW time \in Nat, NEW delay \in Nat
    PROVE  After(time, delay) \in Times
<1>1. TimeMod \in Nat \ {0}
  BY TimerAssumption
<1> QED BY <1>1 DEF After, Times

TablesOK(tm) == tm \in Tables /\ Ordered(tm) /\ Matched(tm)

\* An entry is found again by the slot it belongs to.
LEMMA OneEntry ==
    ASSUME NEW tm \in Tables, Ordered(tm), NEW d \in EntriesOf(tm), NEW e \in EntriesOf(tm),
           d.entry_id = e.entry_id
    PROVE  d = e
BY DEF EntriesOf, Ordered

\* os_cancel_sleeper keeps queue and slots in step, whatever position it is given.
LEMMA CancelKeeps ==
    ASSUME NEW tm, TablesOK(tm), NEW offs \in {None} \cup 0 .. Hangs
    PROVE  /\ TablesOK(os_cancel_sleeper(tm, offs))
           /\ os_cancel_sleeper(tm, offs).size <= tm.size
           /\ \A s \in Sleepers : os_cancel_sleeper(tm, offs).sleepers[s].armed =>
                 os_cancel_sleeper(tm, offs).sleepers[s] = tm.sleepers[s]
<1> DEFINE c == os_cancel_sleeper(tm, offs)
           d == os_dequeue_timed_event(tm, offs)
           gone == tm.queue[offs]
           s0 == gone.entry_id
<1>0. tm \in Tables /\ Ordered(tm) /\ Matched(tm) /\ tm.size \in Nat /\ SLEEPERS_MAX \in Nat
  BY TableFields DEF TablesOK
<1>1. CASE offs = None \/ offs >= tm.size
  BY <1>0, <1>1 DEF os_cancel_sleeper, TablesOK
<1>2. CASE ~(offs = None \/ offs >= tm.size)
  <2>1. offs \in Used(tm) /\ s0 \in Sleepers /\ gone \in EntriesOf(tm)
    <3>1. offs \in Used(tm)
      BY <1>0, <1>2 DEF Used, Hangs
    <3> QED BY <1>0, <3>1, TableFields DEF EntriesOf
  <2>2. /\ d \in Tables /\ Ordered(d) /\ d.size = tm.size - 1 /\ d.sleepers = tm.sleepers
        /\ EntriesOf(d) = EntriesOf(tm) \ {gone}
    BY <1>0, <2>1, Dequeued
  <2>3. c = [d EXCEPT !.sleepers[s0] = Disarmed(@)]
    BY <1>2 DEF os_cancel_sleeper
  <2> HIDE DEF d, gone, s0, c
  <2>4. Disarmed(tm.sleepers[s0]) \in [armed : BOOLEAN, type : SleepTypes, thread : Threads,
                                      sleep_from : Times, interval : Times]
        /\ Disarmed(tm.sleepers[s0]).armed = FALSE
    <3>1. tm.sleepers[s0] \in [armed : BOOLEAN, type : SleepTypes, thread : Threads,
                              sleep_from : Times, interval : Times] /\ 0 \in Times
      BY <1>0, <2>1, TimerAssumption DEF Tables, Times
    <3> QED BY <3>1 DEF Disarmed
  <2>5. /\ c \in Tables /\ c.size = d.size /\ c.queue = d.queue
        /\ c.sleepers = [tm.sleepers EXCEPT ![s0] = Disarmed(@)]
    BY <2>1, <2>2, <2>3, <2>4 DEF Tables
  <2>6. /\ Ordered(c) /\ EntriesOf(c) = EntriesOf(tm) \ {gone}
    <3>1. Used(c) = Used(d) /\ EntriesOf(c) = EntriesOf(d)
      BY <2>5 DEF EntriesOf, Used
    <3> QED BY <2>2, <2>5, <3>1 DEF Ordered
  <2>7. /\ c.sleepers[s0].armed = FALSE
        /\ \A s \in Sleepers \ {s0} : c.sleepers[s] = tm.sleepers[s]
    BY <1>0, <2>1, <2>4, <2>5 DEF Tables
  <2>8. \A e \in EntriesOf(c) : e.entry_id \in Sleepers \ {s0}
    <3> SUFFICES ASSUME NEW e \in EntriesOf(c) PROVE e.entry_id \in Sleepers \ {s0}
      OBVIOUS
    <3>1. e \in EntriesOf(tm) /\ e # gone /\ e.entry_id \in Sleepers
      BY <1>0, <2>6, TableFields DEF EntriesOf
    <3> QED BY <1>0, <2>1, <3>1, OneEntry DEF s0
  <2>9. Matched(c)
    <3>1. \A e \in EntriesOf(c) : c.sleepers[e.entry_id].armed
      BY <1>0, <2>6, <2>7, <2>8 DEF Matched
    <3>2. ASSUME NEW s \in Sleepers, c.sleepers[s].armed
          PROVE  \E e \in EntriesOf(c) :
                    /\ e.entry_id = s
                    /\ c.sleepers[s].type # "INTERVAL" =>
                          e.resume_time = After(c.sleepers[s].sleep_from, c.sleepers[s].interval)
      <4>1. s # s0 /\ c.sleepers[s] = tm.sleepers[s]
        BY <2>7, <3>2
      <4>2. PICK e \in EntriesOf(tm) :
                    /\ e.entry_id = s
                    /\ tm.sleepers[s].type # "INTERVAL" =>
                          e.resume_time = After(tm.sleepers[s].sleep_from, tm.sleepers[s].interval)
        BY <1>0, <3>2, <4>1 DEF Matched
      <4>3. e \in EntriesOf(c)
        BY <2>6, <4>1, <4>2 DEF s0
      <4> QED BY <4>1, <4>2, <4>3
    <3> QED BY <3>1, <3>2 DEF Matched
  <2> QED BY <1>0, <2>2, <2>5, <2>6, <2>7, <2>9 DEF TablesOK, c
<1> QED BY <1>1, <1>2

\* A slot that is set, with one entry in place of the one it had, if any.
LEMMA Rearmed ==
    ASSUME NEW tm \in Tables, Matched(tm), NEW slot \in Sleepers, NEW r \in Tables,
           NEW entry, entry.entry_id = slot,
           EntriesOf(r) = {e \in EntriesOf(tm) : e.entry_id # slot} \cup {entry},
           \A s \in Sleepers \ {slot} : r.sleepers[s] = tm.sleepers[s],
           r.sleepers[slot].armed,
           r.sleepers[slot].type # "INTERVAL" =>
              entry.resume_time = After(r.sleepers[slot].sleep_from, r.sleepers[slot].interval)
    PROVE  Matched(r)
<1>1. ASSUME NEW e \in EntriesOf(r) PROVE r.sleepers[e.entry_id].armed
  <2>1. CASE e = entry
    BY <2>1
  <2>2. CASE e # entry
    <3>1. e \in EntriesOf(tm) /\ e.entry_id # slot
      BY <2>2
    <3>2. e.entry_id \in Sleepers
      BY <3>1, TableFields DEF EntriesOf
    <3> QED BY <3>1, <3>2 DEF Matched
  <2> QED BY <2>1, <2>2
<1>2. ASSUME NEW s \in Sleepers, r.sleepers[s].armed
      PROVE  \E e \in EntriesOf(r) :
                /\ e.entry_id = s
                /\ r.sleepers[s].type # "INTERVAL" =>
                      e.resume_time = After(r.sleepers[s].sleep_from, r.sleepers[s].interval)
  <2>1. CASE s = slot
    BY <2>1
  <2>2. CASE s # slot
    <3>1. r.sleepers[s] = tm.sleepers[s]
      BY <2>2
    <3>2. PICK e \in EntriesOf(tm) :
                /\ e.entry_id = s
                /\ tm.sleepers[s].type # "INTERVAL" =>
                      e.resume_time = After(tm.sleepers[s].sleep_from, tm.sleepers[s].interval)
      BY <1>2, <3>1 DEF Matched
    <3>3. e \in EntriesOf(r)
      BY <2>2, <3>2
    <3> QED BY <3>1, <3>2, <3>3
  <2> QED BY <2>1, <2>2
<1> QED BY <1>1, <1>2 DEF Matched

\* The entries that are left once a slot's own has been taken off.
LEMMA OthersStay ==
    ASSUME NEW tm \in Tables, Ordered(tm), NEW offs \in Used(tm)
    PROVE  EntriesOf(tm) \ {tm.queue[offs]}
              = {e \in EntriesOf(tm) : e.entry_id # tm.queue[offs].entry_id}
<1>1. tm.queue[offs] \in EntriesOf(tm)
  BY DEF EntriesOf
<1>2. \A e \in EntriesOf(tm) : e.entry_id = tm.queue[offs].entry_id => e = tm.queue[offs]
  BY <1>1, OneEntry
<1> QED BY <1>1, <1>2

\* os_sleeper_reschedule moves the entry of an interval timer and nothing else.
LEMMA RescheduleKeeps ==
    ASSUME NEW tm, TablesOK(tm), NEW offs \in Used(tm),
           tm.sleepers[tm.queue[offs].entry_id].type = "INTERVAL"
    PROVE  /\ TablesOK(os_sleeper_reschedule(tm, offs))
           /\ os_sleeper_reschedule(tm, offs).size = tm.size
<1> DEFINE gone == tm.queue[offs]
           slot == gone.entry_id
           d == os_dequeue_timed_event(tm, offs)
           time == After(gone.resume_time, tm.sleepers[slot].interval)
           r == os_enqueue_timed_event(d, slot, time)
           entry == [resume_time |-> time, entry_id |-> slot]
<1>0. /\ tm \in Tables /\ Ordered(tm) /\ Matched(tm) /\ tm.size \in Nat /\ tm.size <= SLEEPERS_MAX
      /\ SLEEPERS_MAX \in Nat /\ gone \in EntriesOf(tm) /\ slot \in Sleepers /\ gone.resume_time \in Nat
  BY TableFields DEF TablesOK, EntriesOf
<1>1. /\ tm.sleepers[slot].armed
      /\ tm.sleepers[slot].interval \in Nat
  <2>1. tm.sleepers[slot].interval \in Times
    BY <1>0 DEF Tables
  <2>2. Times \subseteq Nat
    BY TimerAssumption DEF Times
  <2> QED BY <1>0, <2>1, <2>2 DEF Matched
<1>2. time \in Times
  BY <1>0, <1>1, AfterIsTime
<1>3. /\ d \in Tables /\ Ordered(d) /\ d.size = tm.size - 1 /\ d.sleepers = tm.sleepers
      /\ EntriesOf(d) = {e \in EntriesOf(tm) : e.entry_id # slot}
  BY <1>0, Dequeued, OthersStay
<1>4. os_sleeper_reschedule(tm, offs) = r
  BY DEF os_sleeper_reschedule
<1> HIDE DEF d, time, slot
<1>5. /\ r \in Tables /\ Ordered(r) /\ r.size = d.size + 1 /\ r.sleepers = d.sleepers
      /\ EntriesOf(r) = EntriesOf(d) \cup {entry}
  BY <1>0, <1>2, <1>3, Enqueued
<1> HIDE DEF r
<1>6. Matched(r)
  <2>1. entry.entry_id = slot
    OBVIOUS
  <2>2. /\ EntriesOf(r) = {e \in EntriesOf(tm) : e.entry_id # slot} \cup {entry}
        /\ \A s \in Sleepers \ {slot} : r.sleepers[s] = tm.sleepers[s]
        /\ r.sleepers[slot].armed /\ r.sleepers[slot].type = "INTERVAL"
    BY <1>1, <1>3, <1>5 DEF slot
  <2> HIDE DEF entry
  <2> QED BY <1>0, <1>5, <2>1, <2>2, Rearmed
<1> QED BY <1>0, <1>3, <1>4, <1>5, <1>6 DEF TablesOK

\* The critical section of do_set_timed_event keeps queue and slots in step, if the
\* search found the entry of a slot in use.
LEMMA SetKeeps ==
    ASSUME NEW tm, TablesOK(tm), tm.size < SLEEPERS_MAX,
           NEW type \in SleepTypes, NEW delay \in Delays, NEW slot \in Sleepers, NEW offs,
           thread_current \in Threads, sched_microtime \in Times,
           IF tm.sleepers[slot].armed
           THEN offs \in Used(tm) /\ tm.queue[offs].entry_id = slot
           ELSE offs = None
    PROVE  TablesOK(SetTimedEvent(tm, type, delay, slot, offs))
<1> DEFINE new == [armed |-> TRUE, type |-> type, thread |-> thread_current,
                   sleep_from |-> sched_microtime, interval |-> delay]
           a == [tm EXCEPT !.sleepers[slot] = new]
           time == After(sched_microtime, delay)
           entry == [resume_time |-> time, entry_id |-> slot]
           r == SetTimedEvent(tm, type, delay, slot, offs)
<1>0. /\ tm \in Tables /\ Ordered(tm) /\ Matched(tm) /\ tm.size \in Nat /\ SLEEPERS_MAX \in Nat
      /\ delay \in Times /\ delay \in Nat /\ sched_microtime \in Nat
  BY TableFields, TimerAssumption DEF TablesOK, Times
<1>1. time \in Times
  BY <1>0, AfterIsTime
<1>2. /\ a \in Tables /\ a.size = tm.size /\ a.queue = tm.queue /\ a.cursor = tm.cursor
      /\ a.sleepers = [tm.sleepers EXCEPT ![slot] = new]
  BY <1>0 DEF Tables
<1>3. /\ a.sleepers[slot] = new
      /\ \A s \in Sleepers \ {slot} : a.sleepers[s] = tm.sleepers[s]
  BY <1>0, <1>2 DEF Tables
<1>4. Used(a) = Used(tm) /\ EntriesOf(a) = EntriesOf(tm) /\ Ordered(a)
  <2>1. Used(a) = Used(tm) /\ EntriesOf(a) = EntriesOf(tm)
    BY <1>2 DEF Used, EntriesOf
  <2> QED BY <1>0, <1>2, <2>1 DEF Ordered
<1>5. new.armed /\ new.sleep_from = sched_microtime /\ new.interval = delay
  OBVIOUS
<1>6. r = IF offs = None THEN os_enqueue_timed_event(a, slot, time)
          ELSE IF tm.queue[offs].resume_time = time THEN a
          ELSE os_enqueue_timed_event(os_dequeue_timed_event(a, offs), slot, time)
  BY DEF SetTimedEvent
<1> HIDE DEF new, a, time, r
<1>7. ASSUME r \in Tables, Ordered(r), r.sleepers = a.sleepers,
             EntriesOf(r) = {e \in EntriesOf(tm) : e.entry_id # slot} \cup {entry}
      PROVE  TablesOK(r)
  <2>1. entry.entry_id = slot /\ entry.resume_time = time
    OBVIOUS
  <2> HIDE DEF entry
  <2>2. Matched(r)
    BY <1>0, <1>3, <1>5, <1>7, <2>1, Rearmed DEF time
  <2> QED BY <1>7, <2>2 DEF TablesOK
<1>8. CASE ~tm.sleepers[slot].armed
  <2>1. \A e \in EntriesOf(tm) : e.entry_id # slot
    BY <1>0, <1>8 DEF Matched
  <2>2. offs = None /\ r = os_enqueue_timed_event(a, slot, time)
    BY <1>6, <1>8
  <2>3. /\ r \in Tables /\ Ordered(r) /\ r.sleepers = a.sleepers
        /\ EntriesOf(r) = EntriesOf(a) \cup {entry}
    BY <1>0, <1>1, <1>2, <1>4, <2>1, <2>2, Enqueued
  <2>4. EntriesOf(tm) = {e \in EntriesOf(tm) : e.entry_id # slot}
    BY <2>1
  <2> QED BY <1>4, <1>7, <2>3, <2>4 DEF r
<1>9. CASE tm.sleepers[slot].armed
  <2>1. offs \in Used(tm) /\ tm.queue[offs].entry_id = slot /\ offs # None
    BY <1>0, <1>9, NoneAssumption DEF Used
  <2>2. EntriesOf(tm) \ {tm.queue[offs]} = {e \in EntriesOf(tm) : e.entry_id # slot}
    BY <1>0, <2>1, OthersStay
  <2>3. CASE tm.queue[offs].resume_time = time
    <3>1. r = a
      BY <1>6, <2>1, <2>3
    <3>2. tm.queue[offs] = entry /\ tm.queue[offs] \in EntriesOf(tm)
      <4>1. tm.queue[offs] \in [resume_time : Times, entry_id : Sleepers]
        BY <1>0, <2>1, TableFields
      <4> QED BY <2>1, <2>3, <4>1 DEF EntriesOf
    <3>3. EntriesOf(r) = {e \in EntriesOf(tm) : e.entry_id # slot} \cup {entry}
      BY <1>4, <2>2, <3>1, <3>2
    <3> QED BY <1>2, <1>4, <1>7, <3>1, <3>3 DEF r
  <2>4. CASE tm.queue[offs].resume_time # time
    <3> DEFINE d == os_dequeue_timed_event(a, offs)
    <3>1. r = os_enqueue_timed_event(d, slot, time)
      BY <1>6, <2>1, <2>4
    <3>2. /\ d \in Tables /\ Ordered(d) /\ d.size = a.size - 1 /\ d.sleepers = a.sleepers
          /\ EntriesOf(d) = EntriesOf(a) \ {a.queue[offs]}
      BY <1>2, <1>4, <2>1, Dequeued
    <3> HIDE DEF d
    <3>3. EntriesOf(d) = {e \in EntriesOf(tm) : e.entry_id # slot}
      BY <1>2, <1>4, <2>2, <3>2
    <3>4. d.size < SLEEPERS_MAX
      BY <1>0, <1>2, <3>2
    <3>5. /\ r \in Tables /\ Ordered(r) /\ r.sleepers = d.sleepers
          /\ EntriesOf(r) = EntriesOf(d) \cup {entry}
      BY <1>1, <3>1, <3>2, <3>3, <3>4, Enqueued
    <3> QED BY <1>7, <3>2, <3>3, <3>5 DEF r
  <2> QED BY <2>3, <2>4
<1> QED BY <1>8, <1>9

\* os_find_timer_slot gives a slot that is free or belongs to the request.
LEMMA SlotFound ==
    ASSUME NEW thread \in Threads, NEW type \in SleepTypes
    PROVE  \/ os_find_timer_slot(thread, type) = Hangs
           \/ /\ os_find_timer_slot(thread, type) \in Sleepers
              /\ \/ ~timers.sleepers[os_find_timer_slot(thread, type)].armed
                 \/ Holds(os_find_timer_slot(thread, type), type, thread)
<1> DEFINE stops == {k \in Sleepers : \/ ~timers.sleepers[ProbeSlot(type, thread, k)].armed
                                      \/ Holds(ProbeSlot(type, thread, k), type, thread)}
           slot == os_find_timer_slot(thread, type)
<1>0. SLEEPERS_MAX \in Nat \ {0} /\ SleeperHash[type][thread] \in Nat
  BY TimerAssumption DEF Sleepers
<1>1. slot = IF stops = {} THEN Hangs ELSE ProbeSlot(type, thread, Lowest(stops))
  BY DEF os_find_timer_slot
<1>2. CASE stops # {}
  <2>1. stops \subseteq Nat
    BY <1>0 DEF Sleepers
  <2>2. Lowest(stops) \in stops
    BY <1>2, <2>1, LowestIn
  <2>3. \A k \in Nat : ProbeSlot(type, thread, k) \in Sleepers
    <3> SUFFICES ASSUME NEW k \in Nat PROVE ProbeSlot(type, thread, k) \in Sleepers
      OBVIOUS
    <3>1. (k * (k + 1)) \div 2 \in Nat
      <4>1. k * (k + 1) \in Nat
        OBVIOUS
      <4> QED BY <4>1
    <3>2. SleeperHash[type][thread] + (k * (k + 1)) \div 2 \in Nat
      BY <1>0, <3>1
    <3>3. \A n \in Nat : n % SLEEPERS_MAX \in 0 .. SLEEPERS_MAX - 1
      BY <1>0
    <3> QED BY <3>2, <3>3 DEF ProbeSlot, Sleepers
  <2> QED BY <1>1, <1>2, <2>1, <2>2, <2>3
<1> QED BY <1>1, <1>2

\* os_find_timer_queue gives a position, and for a slot in use whose event has not
\* been moved the position of its entry, if it ends.
LEMMA EntryFound ==
    ASSUME TablesOK(timers), NEW slot \in Sleepers
    PROVE  /\ os_find_timer_queue(slot) \in {None} \cup 0 .. Hangs
           /\ ~timers.sleepers[slot].armed => os_find_timer_queue(slot) = None
           /\ timers.sleepers[slot].armed /\ timers.sleepers[slot].type # "INTERVAL" =>
                 \/ os_find_timer_queue(slot) = Hangs
                 \/ /\ os_find_timer_queue(slot) \in Used(timers)
                    /\ timers.queue[os_find_timer_queue(slot)].entry_id = slot
<1> DEFINE sleeper == timers.sleepers[slot]
           time == After(sleeper.sleep_from, sleeper.interval)
           offs == BINARY_SEARCH(timers, time)
           found == os_find_timer_queue(slot)
<1>0. /\ timers \in Tables /\ Ordered(timers) /\ Matched(timers) /\ SLEEPERS_MAX \in Nat
      /\ timers.size \in Nat /\ timers.size <= SLEEPERS_MAX
  BY TableFields DEF TablesOK
<1>1. time \in Times
  <2>1. sleeper.sleep_from \in Times /\ sleeper.interval \in Times
    BY <1>0 DEF Tables
  <2>2. Times \subseteq Nat
    BY TimerAssumption DEF Times
  <2> QED BY <2>1, <2>2, AfterIsTime
<1>2. found = IF ~sleeper.armed THEN None
              ELSE IF timers.queue[offs].entry_id = slot THEN offs
              ELSE IF timers.queue[offs].resume_time = time THEN Hangs
              ELSE None
  BY DEF os_find_timer_queue
<1> HIDE DEF time, found
<1>3. /\ offs \in 0 .. timers.size
      /\ \A i \in Used(timers) :
            /\ i < offs => timers.queue[i].resume_time < time
            /\ i >= offs => timers.queue[i].resume_time >= time
  BY <1>0, <1>1, SearchSeparates
<1> HIDE DEF offs
<1>4. found \in {None} \cup 0 .. Hangs
  BY <1>0, <1>2, <1>3 DEF Hangs
<1>5. ASSUME sleeper.armed, sleeper.type # "INTERVAL"
      PROVE  found = Hangs \/ (found \in Used(timers) /\ timers.queue[found].entry_id = slot)
  <2>1. PICK e \in EntriesOf(timers) : e.entry_id = slot /\ e.resume_time = time
    BY <1>0, <1>5 DEF Matched, time
  <2>2. PICK i \in Used(timers) : e = timers.queue[i]
    BY DEF EntriesOf
  <2>3. i \in Nat /\ i < timers.size /\ time \in Nat /\ offs \in Nat
    BY <1>0, <1>1, <1>3, TimerAssumption DEF Used, Times
  <2>4. i >= offs
    BY <1>3, <2>1, <2>2, <2>3
  <2>5. offs \in Used(timers) /\ timers.queue[offs].resume_time >= time
    BY <1>0, <1>3, <2>3, <2>4 DEF Used
  <2>6. timers.queue[offs].resume_time <= timers.queue[i].resume_time
    BY <1>0, <2>4, <2>5 DEF Ordered
  <2>7. timers.queue[offs].resume_time \in Nat
    BY <1>0, <2>5, TableFields
  <2>8. timers.queue[offs].resume_time = time
    BY <2>1, <2>2, <2>3, <2>5, <2>6, <2>7
  <2> QED BY <1>2, <1>5, <2>5, <2>8
<1> QED BY <1>2, <1>4, <1>5 DEF found

\* The position os_find_timer gives, if its searches end.
LEMMA TimerFound ==
    ASSUME TablesOK(timers), NEW thread \in Threads, NEW type \in SleepTypes
    PROVE  os_find_timer(thread, type) \in {None} \cup 0 .. Hangs
<1>1. CASE os_find_timer_slot(thread, type) = Hangs
  BY <1>1, TimerAssumption DEF os_find_timer, Hangs
<1>2. CASE os_find_timer_slot(thread, type) # Hangs
  <2>1. os_find_timer_slot(thread, type) \in Sleepers
    BY <1>2, SlotFound
  <2> QED BY <1>2, <2>1, EntryFound DEF os_find_timer
<1> QED BY <1>1, <1>2

------------------------------------------------------------------------------
(***************************************************************************)
(* Timers and the kernel together.                                         *)
(***************************************************************************)

\* A step of Kernel that Timers takes over, apart from the interrupts.
KernelStep == SVC_Handler \/ Syscall \/ HandlerStep \/ PendSV

\* Such a step starts from a point of Kernel's own handlers.
LEMMA KernelStepFrom ==
    ASSUME KernelStep
    PROVE  pc \in Steps
<1>1. CASE SVC_Handler \/ PendSV
  BY <1>1 DEF SVC_Handler, PendSV, Steps
<1>2. CASE Syscall
  BY <1>2 DEF Syscall, SVC, Steps, os_system_call_reports, sys_sched_yield, sys_thread_exit,
     sys_kill_SIGKILL, sys_kill_SIGSTOP, sys_kill_SIGCONT, os_kill_dispatch, sys_kill_signal,
     os_signal, os_setpriority, os_thread_join, sys_thread_create, sys_notify_object,
     sys_notify_object2, sys_wait_for_object, sys_wait_for_object_value, sys_init_waitable_object
<1>3. CASE HandlerStep
  BY <1>3 DEF HandlerStep, Steps, os_sched_yield, os_sched_yield_commit, os_sched_yield_clear,
     os_thread_kill, os_thread_kill_dispose, os_thread_stop, os_thread_stop_commit,
     yield_if_current, os_thread_continue, os_thread_continue_commit, os_thread_alloc,
     os_thread_alloc_commit, os_stack_create, os_stack_create_commit, os_thread_construct,
     os_notify_object, os_notify_object_commit, os_wait_for_object, os_wait_for_object_commit,
     os_initialize_waitable_object, os_initialize_waitable_object_commit,
     os_initialize_waitable_object_clear, os_initialize_waitable_object_clear_commit
<1> QED BY <1>1, <1>2, <1>3 DEF KernelStep

\* It keeps the types and stays within Kernel's handlers.
LEMMA KernelStepTyped ==
    ASSUME Typed, KernelStep
    PROVE  TypeInv /\ Next /\ Typed' /\ pc' \in Steps
<1>1. TypeInv /\ Next
  BY KernelStepFrom DEF Typed, LocalsOK, TypeInv, TypeOK, KernelStep, Next
<1>2. TypeInv'
  BY <1>1, TypeStep
<1> QED BY <1>1, <1>2 DEF Typed, LocalsOK, TypeInv, TypeOK

\* What Kernel's step does to the timers: at most one event is cancelled.
LEMMA TimedKeeps ==
    ASSUME TimersInv, CancelTimeout \/ UNCHANGED timers
    PROVE  /\ TablesOK(timers') /\ timers'.size <= timers.size
           /\ \A s \in Sleepers : timers'.sleepers[s].armed =>
                 timers'.sleepers[s] = timers.sleepers[s]
<1>0. TablesOK(timers) /\ timers.size \in Nat
  BY TableFields DEF TimersInv, TimersTyped, TimersTypeOK, TablesOK
<1>1. CASE UNCHANGED timers
  BY <1>0, <1>1
<1>2. ASSUME NEW t \in Threads, timers' = os_cancel_sleeper(timers, Timeout(t))
      PROVE  /\ TablesOK(timers') /\ timers'.size <= timers.size
             /\ \A s \in Sleepers : timers'.sleepers[s].armed =>
                   timers'.sleepers[s] = timers.sleepers[s]
  <2>1. Timeout(t) \in {None} \cup 0 .. Hangs
    BY <1>0, TimerFound DEF Timeout, SleepTypes
  <2> QED BY <1>0, <1>2, <2>1, CancelKeeps
<1>3. CASE timers' # timers
  <2>1. Notified # {} /\ timers' = os_cancel_sleeper(timers, Timeout(CHOOSE t \in Notified : TRUE))
    BY <1>3 DEF CancelTimeout
  <2>2. (CHOOSE t \in Notified : TRUE) \in Threads
    <3>1. Notified \subseteq Threads
      BY DEF Notified
    <3> QED BY <2>1, <3>1
  <2> QED BY <1>2, <2>1, <2>2
<1> QED BY <1>1, <1>3

\* Nothing of the search for an event is held at Kernel's own steps.
LEMMA NothingSought == pc' \in Steps => SearchStands'
BY DEF SearchStands, Steps

\* The types of the timers, from those of their parts.
LEMMA TimersTypedFrom ==
    ASSUME Typed', pc' \in Steps \cup TimerSteps,
           timers' \in Tables, sched_microtime' \in Times, timed' \in TimedLocals
    PROVE  TimersTyped'
BY DEF Typed, LocalsOK, TimersTyped, TimersTypeOK

\* Locals of a handler at a step of timer.c.
LEMMA TimerStepLocals ==
    ASSUME pc' \in TimerSteps, call' \in Calls
    PROVE  LocalsOK'
BY DEF LocalsOK, CallOK, TimerSteps

\* Kernel's steps keep the timers' invariant.
LEMMA TimersKernelStep ==
    ASSUME TimersInv, Timed(KernelStep)
    PROVE  TimersInv'
<1>1. Typed /\ timers \in Tables /\ sched_microtime \in Times /\ timed \in TimedLocals
  BY DEF TimersInv, TimersTyped, TimersTypeOK, Typed, LocalsOK
<1>2. Typed' /\ pc' \in Steps
  BY <1>1, KernelStepTyped DEF Timed
<1>3. TablesOK(timers')
  BY TimedKeeps DEF Timed
<1>4. UNCHANGED <<sched_microtime, timed>>
  BY DEF Timed
<1>5. TimersTyped'
  BY <1>1, <1>2, <1>3, <1>4, TimersTypedFrom DEF TablesOK
<1> QED BY <1>2, <1>3, <1>5, NothingSought DEF TablesOK, TimersInv

\* So does a device interrupt, wherever it hits a handler: what it may invalidate it
\* marks as stale.
LEMMA TimersInterrupt ==
    ASSUME TimersInv, Timed(Interrupt)
    PROVE  TimersInv'
<1>1. /\ Typed /\ timers \in Tables /\ sched_microtime \in Times /\ timed \in TimedLocals
      /\ pc \in Steps \cup TimerSteps /\ SearchStands /\ call \in Calls
  BY DEF TimersInv, TimersTyped, TimersTypeOK, Typed, LocalsOK
<1>2. Typed' /\ pc' = pc
  BY <1>1, InterruptType DEF Timed, Interrupt
<1>3. /\ TablesOK(timers') /\ timers'.size <= timers.size
      /\ \A s \in Sleepers : timers'.sleepers[s].armed =>
            timers'.sleepers[s] = timers.sleepers[s]
  BY TimedKeeps DEF Timed
<1>4. UNCHANGED <<sched_microtime, timed>>
  BY DEF Timed
<1>5. TimersTyped'
  BY <1>1, <1>2, <1>3, <1>4, TimersTypedFrom DEF TablesOK
<1>6. \/ isr_notify_object /\ call' = [call EXCEPT !.fresh = (pc = "user")]
      \/ UNCHANGED <<call, timers>>
  <2>1. CASE isr_notify_object
    BY <2>1 DEF isr_notify_object
  <2>2. CASE isr_kill
    <3>1. UNCHANGED <<wait_object, call>>
      BY <2>2 DEF isr_kill, waitVars
    <3>2. Notified = {}
      BY <3>1, NoneAssumption DEF Notified
    <3> QED BY <3>1, <3>2 DEF Timed, CancelTimeout
  <2> QED BY <2>1, <2>2 DEF Timed, Interrupt
<1>7. SearchStands'
  <2>1. CASE UNCHANGED <<call, timers>>
    BY <1>1, <1>2, <1>4, <2>1 DEF SearchStands, Holds, Used, TimerDue
  <2>2. CASE call' = [call EXCEPT !.fresh = (pc = "user")]
    <3>1. call'.obj = call.obj /\ call'.fresh = (pc = "user")
      BY <1>1, <2>2 DEF Calls
    <3>2. ASSUME pc' \in {"arm", "arm_commit"}
          PROVE  /\ timers'.size < SLEEPERS_MAX /\ timed'.delay \in Delays
                 /\ timed'.type = "TIMEOUT" => call'.obj \in Objects
                 /\ timed'.type = "INTERVAL" =>
                       \A s \in Sleepers : ~Holds(s, "INTERVAL", timed.thread)'
      <4>1. /\ timers.size < SLEEPERS_MAX /\ timed.delay \in Delays
            /\ timed.type = "TIMEOUT" => call.obj \in Objects
            /\ timed.type = "INTERVAL" => \A s \in Sleepers : ~Holds(s, "INTERVAL", timed.thread)
        BY <1>1, <1>2, <3>2 DEF SearchStands
      <4>2. timers'.size < SLEEPERS_MAX
        <5>1. timers.size \in Nat /\ timers'.size \in Nat /\ SLEEPERS_MAX \in Nat
          BY <1>1, <1>3, TableFields DEF TablesOK
        <5> QED BY <1>3, <4>1, <5>1
      <4> QED BY <1>3, <1>4, <3>1, <4>1, <4>2 DEF Holds
    <3>3. pc' \in {"arm_commit", "run_commit"} => ~call'.fresh
      BY <1>2, <3>1
    <3> QED BY <3>2, <3>3 DEF SearchStands
  <2> QED BY <1>6, <2>1, <2>2
<1> QED BY <1>3, <1>5, <1>7 DEF TablesOK, TimersInv

\* A step of timer.c that leaves the kernel's own tables alone.
LEMMA TablesStay ==
    ASSUME TimersInv, UNCHANGED KernelTables, LocalsOK', pc' \in Steps \cup TimerSteps,
           TablesOK(timers'), sched_microtime' \in Times, timed' \in TimedLocals, SearchStands'
    PROVE  TimersInv'
<1>1. TableType /\ SignalType /\ WaitType /\ SwitchType
  BY DEF TimersInv, TimersTyped
<1>2. TableType' /\ SignalType' /\ WaitType' /\ SwitchType'
  BY <1>1, Frames DEF KernelTables
<1>3. Typed'
  BY <1>2 DEF Typed
<1> QED BY <1>3, TimersTypedFrom DEF TablesOK, TimersInv

\* What the invariant says of the timers' own variables.
LEMMA TimersFacts ==
    ASSUME TimersInv
    PROVE  /\ TablesOK(timers) /\ sched_microtime \in Times /\ timed \in TimedLocals
           /\ call \in Calls /\ thread_current \in Threads /\ SearchStands
           /\ pc \in Steps \cup TimerSteps /\ Typed
BY DEF TimersInv, TimersTyped, TimersTypeOK, TablesOK, SwitchType, Typed, LocalsOK

\* No locals are left by the timer code, and none of a handler.
LEMMA NoLocals == NoTimed \in TimedLocals /\ NoCall \in Calls
<1>1. 0 \in Sleepers /\ 0 \in Threads
  BY TimerAssumption, TableAssumption DEF Sleepers, Threads
<1> QED BY <1>1 DEF NoTimed, TimedLocals, SleepTypes, NoCall, Calls

\* A search that never ends, or a failed ASSERT, keeps what was there.
LEMMA SpinKeeps ==
    ASSUME TimersInv, Spin, UNCHANGED <<KernelTables, timers, sched_microtime>>
    PROVE  TimersInv'
<1>1. pc' = "stuck" /\ call' = NoCall /\ timed' = NoTimed
  BY DEF Spin, Goto
<1>2. SearchStands'
  BY <1>1 DEF SearchStands
<1>3. LocalsOK' /\ pc' \in Steps \cup TimerSteps
  BY <1>1, NoLocals, TimerStepLocals DEF TimerSteps
<1> QED BY <1>1, <1>2, <1>3, NoLocals, TimersFacts, TablesStay

\* Entering usleep, setitimer or a wait with a timeout.
LEMMA ArmKeeps ==
    ASSUME TimersInv, NEW type \in SleepTypes, NEW object \in Objects \cup {None},
           Arm(type, object), type = "TIMEOUT" => object \in Objects,
           type = "INTERVAL" => \A s \in Sleepers : ~Holds(s, "INTERVAL", thread_current)
    PROVE  TimersInv'
<1>0. PICK d \in Delays : timed' = [NoTimed EXCEPT !.type = type, !.thread = thread_current, !.delay = d]
  BY DEF Arm
<1>1. /\ call' = [NoCall EXCEPT !.obj = object] /\ pc' = "arm" /\ timers.size < SLEEPERS_MAX
      /\ UNCHANGED <<KernelTables, timers, sched_microtime>>
  BY DEF Arm, Goto, TimersBound
<1>2. thread_current \in Threads /\ NoTimed \in TimedLocals /\ NoCall \in Calls
  BY TimersFacts, NoLocals
<1>3. /\ timed' \in TimedLocals /\ timed'.type = type /\ timed'.thread = thread_current
      /\ timed'.delay = d
  BY <1>0, <1>2 DEF TimedLocals
<1>4. call' \in Calls /\ call'.obj = object
  BY <1>1, <1>2 DEF Calls
<1>5. SearchStands'
  BY <1>1, <1>3, <1>4 DEF SearchStands, Holds
<1>6. LocalsOK' /\ pc' \in Steps \cup TimerSteps
  BY <1>1, <1>4, TimerStepLocals DEF TimerSteps
<1> QED BY <1>1, <1>3, <1>5, <1>6, TimersFacts, TablesStay

\* The calls that set or cancel a timed event only note what is asked.
LEMMA TimersCall ==
    ASSUME IntervalsSetOnce, TimersInv, TimerCall
    PROVE  TimersInv'
<1>1. CASE os_usleep
  BY <1>1, ArmKeeps DEF os_usleep, SleepTypes
<1>2. CASE MaySetInterval /\ os_setitimer
  <2>1. \A s \in Sleepers : ~Holds(s, "INTERVAL", thread_current)
    BY <1>2 DEF MaySetInterval, IntervalsSetOnce
  <2> QED BY <1>2, <2>1, ArmKeeps DEF os_setitimer, SleepTypes
<1>3. CASE sys_wait_with_timeout
  <2>1. PICK o \in Objects : Arm("TIMEOUT", o)
    BY <1>3 DEF sys_wait_with_timeout
  <2> QED BY <2>1, ArmKeeps DEF SleepTypes
<1>4. CASE os_setitimer_cancel
  <2>1. /\ pc' = "cancel" /\ call' = NoCall
        /\ timed' = [NoTimed EXCEPT !.type = "INTERVAL", !.thread = thread_current]
        /\ UNCHANGED <<KernelTables, timers, sched_microtime>>
    BY <1>4 DEF os_setitimer_cancel, Goto
  <2>2. timed' \in TimedLocals
    BY <2>1, NoLocals, TimersFacts DEF TimedLocals, SleepTypes
  <2>3. SearchStands'
    BY <2>1 DEF SearchStands
  <2>4. LocalsOK' /\ pc' \in Steps \cup TimerSteps
    BY <2>1, NoLocals, TimerStepLocals DEF TimerSteps
  <2> QED BY <2>1, <2>2, <2>3, <2>4, TimersFacts, TablesStay
<1> QED BY <1>1, <1>2, <1>3, <1>4 DEF TimerCall

\* The search of os_set_timed_event finds a free slot, or the caller's own with the
\* position of its entry.
LEMMA SearchKeeps ==
    ASSUME TimersInv, os_set_timed_event
    PROVE  TimersInv'
<1> DEFINE slot == os_find_timer_slot(timed.thread, timed.type)
           offs == IF slot = Hangs THEN Hangs ELSE os_find_timer_queue(slot)
<1>0. /\ pc = "arm" /\ UNCHANGED <<KernelTables, timers, sched_microtime>>
      /\ IF offs = Hangs THEN Spin
         ELSE timed' = [timed EXCEPT !.slot = slot, !.offs = offs] /\ Found(None, "arm_commit")
  BY DEF os_set_timed_event
<1>1. CASE offs = Hangs
  BY <1>0, <1>1, SpinKeeps
<1>2. CASE offs # Hangs
  <2>0. /\ TablesOK(timers) /\ sched_microtime \in Times /\ timed \in TimedLocals
        /\ call \in Calls /\ SearchStands
        /\ timed.thread \in Threads /\ timed.type \in SleepTypes
    BY TimersFacts DEF TimedLocals
  <2>1. /\ timers.size < SLEEPERS_MAX /\ timed.delay \in Delays
        /\ timed.type = "TIMEOUT" => call.obj \in Objects
        /\ timed.type = "INTERVAL" => \A s \in Sleepers : ~Holds(s, "INTERVAL", timed.thread)
    BY <1>0, <2>0 DEF SearchStands
  <2>2. slot \in Sleepers /\ (~timers.sleepers[slot].armed \/ Holds(slot, timed.type, timed.thread))
    BY <1>2, <2>0, SlotFound
  <2>3. offs = os_find_timer_queue(slot)
    BY <1>2
  <2>4. timed' = [timed EXCEPT !.slot = slot, !.offs = offs] /\ Found(None, "arm_commit")
    BY <1>0, <1>2
  <2> HIDE DEF slot, offs
  <2>5. offs \in {None} \cup 0 .. SLEEPERS_MAX
    <3>1. offs \in {None} \cup 0 .. Hangs
      BY <2>0, <2>2, <2>3, EntryFound
    <3> QED BY <1>2, <3>1, TimerAssumption DEF Hangs
  <2>6. IF timers.sleepers[slot].armed
        THEN offs \in Used(timers) /\ timers.queue[offs].entry_id = slot
        ELSE offs = None
    <3>1. CASE ~timers.sleepers[slot].armed
      BY <2>0, <2>2, <2>3, <3>1, EntryFound
    <3>2. CASE timers.sleepers[slot].armed
      <4>1. timers.sleepers[slot].type # "INTERVAL"
        BY <2>1, <2>2, <3>2 DEF Holds
      <4> QED BY <1>2, <2>0, <2>2, <2>3, <3>2, <4>1, EntryFound
    <3> QED BY <3>1, <3>2
  <2>7. /\ timed' \in TimedLocals /\ timed'.slot = slot /\ timed'.offs = offs
        /\ timed'.type = timed.type /\ timed'.thread = timed.thread /\ timed'.delay = timed.delay
    BY <2>0, <2>2, <2>4, <2>5 DEF TimedLocals
  <2>8. call' \in Calls /\ call'.obj = call.obj /\ pc' = "arm_commit"
    BY <2>0, <2>4, FoundFields
  <2>9. SearchStands'
    BY <1>0, <2>1, <2>6, <2>7, <2>8 DEF SearchStands, Holds, Used
  <2>10. LocalsOK' /\ pc' \in Steps \cup TimerSteps
    BY <2>8, TimerStepLocals DEF TimerSteps
  <2> QED BY <1>0, <2>0, <2>7, <2>9, <2>10, TablesStay
<1> QED BY <1>1, <1>2

\* A handler that is done with the timers and goes on as Kernel's handlers do.
LEMMA LeavesTimers ==
    ASSUME TimersInv, UNCHANGED <<KernelTables, sched_microtime>>, timed' = NoTimed,
           TablesOK(timers'), pc' \in Steps, LocalsOK'
    PROVE  TimersInv'
<1>1. SearchStands'
  BY NothingSought
<1> QED BY <1>1, NoLocals, TimersFacts, TablesStay

\* A refused commit goes back to the search.
LEMMA SearchAgain ==
    ASSUME TimersInv, UNCHANGED <<KernelTables, timers, timed, call, sched_microtime>>,
           \/ pc = "arm_commit" /\ pc' = "arm"
           \/ pc = "cancel_commit" /\ pc' = "cancel"
    PROVE  TimersInv'
<1>1. SearchStands'
  BY TimersFacts DEF SearchStands, Holds
<1>2. LocalsOK' /\ pc' \in Steps \cup TimerSteps
  BY TimersFacts, TimerStepLocals DEF TimerSteps
<1> QED BY <1>1, <1>2, TimersFacts, TablesStay

\* do_set_timed_event sets the slot the search found, and the handler goes on.
LEMMA SettingKeeps ==
    ASSUME TimersInv, do_set_timed_event
    PROVE  TimersInv'
<1>0. /\ TablesOK(timers) /\ sched_microtime \in Times /\ timed \in TimedLocals
      /\ call \in Calls /\ SearchStands /\ thread_current \in Threads
      /\ timed.thread \in Threads /\ timed.type \in SleepTypes /\ timed.slot \in Sleepers
  BY TimersFacts DEF TimedLocals
<1>1. /\ pc = "arm_commit" /\ timers.size < SLEEPERS_MAX /\ timed.delay \in Delays
      /\ timed.type = "TIMEOUT" => call.obj \in Objects
      /\ UNCHANGED <<KernelTables, sched_microtime>>
  BY <1>0 DEF SearchStands, do_set_timed_event
<1>2. CASE call.fresh
  <2>1. /\ timers' = SetTimedEvent(timers, timed.type, timed.delay, timed.slot, timed.offs)
        /\ timed' = NoTimed /\ AfterArming
    BY <1>2 DEF do_set_timed_event
  <2>2. IF timers.sleepers[timed.slot].armed
        THEN timed.offs \in Used(timers) /\ timers.queue[timed.offs].entry_id = timed.slot
        ELSE timed.offs = None
    BY <1>0, <1>1, <1>2 DEF SearchStands
  <2>3. TablesOK(timers')
    BY <1>0, <1>1, <2>1, <2>2, SetKeeps
  <2>4. pc' \in Steps /\ LocalsOK'
    <3>1. CASE timed.type = "SLEEP"
      <4>1. pc' = "stop" /\ call' = [NoCall EXCEPT !.tgt = thread_current]
        BY <2>1, <3>1 DEF AfterArming, Goto
      <4> QED BY <1>0, <4>1, TargetOK DEF ControlOK, LocalsOK
    <3>2. CASE timed.type = "TIMEOUT"
      <4>1. pc' = "wait" /\ call' = call
        BY <2>1, <3>2 DEF AfterArming, Goto
      <4> QED BY <1>0, <1>1, <3>2, <4>1 DEF LocalsOK, CallOK, Steps
    <3>3. CASE timed.type = "INTERVAL"
      <4>1. Return
        BY <2>1, <3>3 DEF AfterArming
      <4> QED BY <4>1, ReturnOK DEF ControlOK, LocalsOK
    <3> QED BY <1>0, <3>1, <3>2, <3>3 DEF SleepTypes
  <2> QED BY <1>1, <2>1, <2>3, <2>4, LeavesTimers
<1>3. CASE ~call.fresh
  <2>1. pc' = "arm" /\ UNCHANGED <<timers, timed, call>>
    BY <1>3 DEF do_set_timed_event, Goto
  <2> QED BY <1>1, <2>1, SearchAgain
<1> QED BY <1>2, <1>3

\* os_cancel_timed_event searches, then takes the event off if nothing intervened.
LEMMA CancellingKeeps ==
    ASSUME TimersInv, os_cancel_timed_event \/ os_cancel_timed_event_commit
    PROVE  TimersInv'
<1>0. /\ TablesOK(timers) /\ sched_microtime \in Times /\ timed \in TimedLocals
      /\ call \in Calls /\ timed.thread \in Threads /\ timed.type \in SleepTypes
      /\ timed.offs \in {None} \cup 0 .. SLEEPERS_MAX
  BY TimersFacts DEF TimedLocals
<1>1. CASE os_cancel_timed_event
  <2> DEFINE offs == os_find_timer(timed.thread, timed.type)
  <2>1. CASE offs = Hangs
    <3>1. Spin /\ UNCHANGED <<KernelTables, timers, sched_microtime>>
      BY <1>1, <2>1 DEF os_cancel_timed_event
    <3> QED BY <3>1, SpinKeeps
  <2>2. CASE offs # Hangs
    <3>1. /\ timed' = [timed EXCEPT !.offs = offs] /\ Found(None, "cancel_commit")
          /\ UNCHANGED <<KernelTables, timers, sched_microtime>>
      BY <1>1, <2>2 DEF os_cancel_timed_event
    <3>2. offs \in {None} \cup 0 .. SLEEPERS_MAX
      <4>1. offs \in {None} \cup 0 .. Hangs
        BY <1>0, TimerFound
      <4> QED BY <2>2, <4>1, TimerAssumption DEF Hangs
    <3> HIDE DEF offs
    <3>3. timed' \in TimedLocals
      BY <1>0, <3>1, <3>2 DEF TimedLocals
    <3>4. call' \in Calls /\ pc' = "cancel_commit"
      BY <1>0, <3>1, FoundFields
    <3>5. SearchStands'
      BY <3>4 DEF SearchStands
    <3>6. LocalsOK' /\ pc' \in Steps \cup TimerSteps
      BY <3>4, TimerStepLocals DEF TimerSteps
    <3> QED BY <1>0, <3>1, <3>3, <3>5, <3>6, TablesStay
  <2> QED BY <2>1, <2>2
<1>2. CASE os_cancel_timed_event_commit /\ call.fresh
  <2>1. /\ timers' = os_cancel_sleeper(timers, timed.offs) /\ timed' = NoTimed /\ Return
        /\ UNCHANGED <<KernelTables, sched_microtime>>
    BY <1>2 DEF os_cancel_timed_event_commit
  <2>2. TablesOK(timers')
    <3>1. timed.offs \in {None} \cup 0 .. Hangs
      BY <1>0, TimerAssumption DEF Hangs
    <3> QED BY <1>0, <2>1, <3>1, CancelKeeps
  <2>3. pc' \in Steps /\ LocalsOK'
    BY <2>1, ReturnOK DEF ControlOK, LocalsOK
  <2> QED BY <2>1, <2>2, <2>3, LeavesTimers
<1>3. CASE os_cancel_timed_event_commit /\ ~call.fresh
  <2>1. /\ pc = "cancel_commit" /\ pc' = "cancel"
        /\ UNCHANGED <<KernelTables, timers, timed, call, sched_microtime>>
    BY <1>3 DEF os_cancel_timed_event_commit, Goto
  <2> QED BY <2>1, SearchAgain
<1> QED BY <1>1, <1>2, <1>3

\* The tick looks at the entry under the cursor.
LEMMA RunKeeps ==
    ASSUME TimersInv, os_run_timer
    PROVE  TimersInv'
<1>0. TablesOK(timers) /\ call \in Calls
  BY TimersFacts
<1>1. /\ timed' = [NoTimed EXCEPT !.due = TimerDue(timers.queue[timers.cursor].resume_time)]
      /\ Found(None, "run_commit") /\ UNCHANGED <<KernelTables, timers, sched_microtime>>
  BY DEF os_run_timer
<1>2. TimerDue(timers.queue[timers.cursor].resume_time) \in BOOLEAN
  BY DEF TimerDue
<1>3. /\ timed' \in TimedLocals
      /\ timed'.due = TimerDue(timers.queue[timers.cursor].resume_time)
  BY <1>1, <1>2, NoLocals DEF TimedLocals
<1>4. call' \in Calls /\ pc' = "run_commit"
  BY <1>0, <1>1, FoundFields
<1>5. SearchStands'
  BY <1>1, <1>3, <1>4 DEF SearchStands, TimerDue
<1>6. LocalsOK' /\ pc' \in Steps \cup TimerSteps
  BY <1>4, TimerStepLocals DEF TimerSteps
<1> QED BY <1>1, <1>3, <1>5, <1>6, TimersFacts, TablesStay

\* The clock stays a time.
LEMMA EndOfRunTime == sched_microtime \in Times => After(sched_microtime, Tick) \in Times
<1>1. Times \subseteq Nat /\ Tick \in Nat
  BY TimerAssumption DEF Times
<1> QED BY <1>1, AfterIsTime

\* The tick starts a run over the timers, or ends at once without any.
LEMMA TickKeeps ==
    ASSUME TimersInv, SysTick_timers
    PROVE  TimersInv'
<1>1. /\ pc' \in {"yield", "run"} /\ UNCHANGED <<KernelTables, call, timers, timed>>
      /\ sched_microtime' \in {sched_microtime, After(sched_microtime, Tick)}
  BY DEF SysTick_timers, Goto
<1>2. sched_microtime' \in Times
  BY <1>1, TimersFacts, EndOfRunTime
<1>3. SearchStands'
  BY <1>1 DEF SearchStands
<1>4. LocalsOK' /\ pc' \in Steps \cup TimerSteps
  BY <1>1, TimersFacts DEF TimerSteps, Steps, LocalsOK, CallOK
<1> QED BY <1>1, <1>2, <1>3, <1>4, TimersFacts, TablesStay

\* The first place of a thread in the waiter list, for one that is listed.
LEMMA WaiterOfIn ==
    ASSUME WaitType, NEW t, \E i \in DOMAIN waiters : waiters[i] = t
    PROVE  WaiterOf(t) \in DOMAIN waiters /\ waiters[WaiterOf(t)] = t
<1> DEFINE places == {i \in DOMAIN waiters : waiters[i] = t}
<1>1. places \subseteq Nat /\ places # {}
  BY DEF WaitType
<1>2. Lowest(places) \in places
  BY <1>1, LowestIn
<1> QED BY <1>2 DEF WaiterOf

\* What the firing of a timer does to the threads leaves the tables well typed.
LEMMA FireTyped ==
    ASSUME Typed, NEW t \in Threads, FireTimeout(t) \/ FireSleeper(t),
           UNCHANGED <<priority, base_priority, stack_id, allocations, signalVars, pending, switchVars>>
    PROVE  TableType' /\ SignalType' /\ WaitType' /\ SwitchType'
<1>0. TableType /\ SignalType /\ WaitType /\ SwitchType
  BY DEF Typed
<1>1. SignalType' /\ SwitchType'
  BY <1>0, Frames
<1>2. /\ state' \in [Threads -> States]
      /\ wait_object' \in [Threads -> Objects \cup Threads \cup {None}]
  <2>1. CASE FireSleeper(t)
    BY <1>0, <2>1 DEF FireSleeper, TableType, WaitType, States
  <2>2. CASE FireTimeout(t) /\ wait_object[t] = None
    BY <1>0, <2>2 DEF FireTimeout, TableType, WaitType
  <2>3. CASE FireTimeout(t) /\ wait_object[t] # None
    <3>1. os_notify_thread(t)
      BY <2>3 DEF FireTimeout
    <3> QED BY <1>0, <3>1, NotifyThreadType
  <2> QED BY <2>1, <2>2, <2>3
<1>3. waiters' \in Seq(Threads)
  <2>1. CASE waiters' = waiters
    BY <1>0, <2>1 DEF WaitType
  <2>2. CASE waiters' # waiters
    <3>1. waiters' = ARRAY_DELETE(waiters, WaiterOf(t)) /\ \E i \in DOMAIN waiters : waiters[i] = t
      BY <2>2 DEF FireTimeout, FireSleeper
    <3>2. WaiterOf(t) \in DOMAIN waiters
      BY <1>0, <3>1, WaiterOfIn
    <3> QED BY <1>0, <3>1, <3>2, DeleteType DEF WaitType
  <2> QED BY <2>1, <2>2
<1>4. TableType' /\ WaitType'
  BY <1>0, <1>2, <1>3 DEF TableType, WaitType
<1> QED BY <1>1, <1>4

\* Moving the cursor changes nothing the tables promise.
LEMMA CursorMoves ==
    ASSUME NEW tm, TablesOK(tm), tm.size > 0
    PROVE  TablesOK([tm EXCEPT !.cursor = (@ + 1) % tm.size])
<1> DEFINE c == (tm.cursor + 1) % tm.size
           r == [tm EXCEPT !.cursor = c]
<1>0. tm \in Tables /\ Ordered(tm) /\ Matched(tm)
  BY DEF TablesOK
<1>1. c \in 0 .. SLEEPERS_MAX
  <2>1. tm.size \in Nat \ {0} /\ tm.size <= SLEEPERS_MAX /\ tm.cursor \in Nat /\ SLEEPERS_MAX \in Nat
    BY <1>0, TableFields
  <2>2. c \in 0 .. tm.size - 1
    BY <2>1
  <2> QED BY <2>1, <2>2
<1> HIDE DEF c
<1>2. /\ r \in Tables /\ r.size = tm.size /\ r.queue = tm.queue /\ r.sleepers = tm.sleepers
  BY <1>0, <1>1 DEF Tables
<1> HIDE DEF r
<1>3. Used(r) = Used(tm) /\ EntriesOf(r) = EntriesOf(tm)
  BY <1>2 DEF Used, EntriesOf
<1>4. Ordered(r)
  BY <1>0, <1>2, <1>3 DEF Ordered
<1>5. Matched(r)
  BY <1>0, <1>2, <1>3 DEF Matched
<1> QED BY <1>2, <1>4, <1>5 DEF TablesOK, r, c

\* A timer that fires leaves queue and slots in step: an interval timer is queued
\* again under a later time, any other is taken off.
LEMMA FiredKeeps ==
    ASSUME TablesOK(timers), CursorOnSleeper
    PROVE  TablesOK(Fired(timers.sleepers[timers.queue[timers.cursor].entry_id]))
<1> DEFINE sleeper == timers.sleepers[timers.queue[timers.cursor].entry_id]
           tm == IF sleeper.type = "INTERVAL"
                 THEN os_sleeper_reschedule(timers, timers.cursor)
                 ELSE os_cancel_sleeper(timers, timers.cursor)
<1>0. timers.cursor \in Used(timers) /\ timers.cursor \in {None} \cup 0 .. Hangs
  <2>1. timers.cursor \in Nat /\ timers.size \in Nat /\ timers.cursor <= SLEEPERS_MAX /\ SLEEPERS_MAX \in Nat
    BY TableFields DEF TablesOK
  <2>2. timers.cursor < timers.size
    BY DEF CursorOnSleeper
  <2> QED BY <2>1, <2>2 DEF Used, Hangs
<1>1. TablesOK(tm)
  <2>1. CASE sleeper.type = "INTERVAL"
    BY <1>0, <2>1, RescheduleKeeps
  <2>2. CASE sleeper.type # "INTERVAL"
    BY <1>0, <2>2, CancelKeeps
  <2> QED BY <2>1, <2>2
<1>2. Fired(sleeper) = IF tm.size > 0 THEN [tm EXCEPT !.cursor = (@ + 1) % tm.size] ELSE tm
  BY DEF Fired
<1> HIDE DEF tm
<1> QED BY <1>1, <1>2, CursorMoves

\* The commit of os_run_timer: the timer fires, the run ends, or it looks again.
LEMMA FiringKeeps ==
    ASSUME TimersInv, os_run_timer_commit
    PROVE  TimersInv'
<1> DEFINE sleeper == timers.sleepers[timers.queue[timers.cursor].entry_id]
<1>0. /\ TablesOK(timers) /\ sched_microtime \in Times /\ call \in Calls /\ Typed
      /\ TableType /\ SignalType /\ WaitType /\ SwitchType
  BY TimersFacts DEF Typed
<1>1. /\ timed' = NoTimed /\ call' = NoCall
      /\ UNCHANGED <<priority, base_priority, stack_id, allocations, signalVars, pending, switchVars>>
  BY DEF os_run_timer_commit
<1>2. \/ UNCHANGED <<timers, state, wait_object, waiters>>
      \/ /\ CursorOnSleeper /\ timers' = Fired(sleeper)
         /\ FireTimeout(sleeper.thread) \/ FireSleeper(sleeper.thread)
  BY DEF os_run_timer_commit
<1>3. pc' \in {"stuck", "run", "yield"} /\ sched_microtime' \in {sched_microtime, After(sched_microtime, Tick)}
  BY DEF os_run_timer_commit, Goto, EndOfRun
<1>4. sched_microtime' \in Times
  BY <1>0, <1>3, EndOfRunTime
<1>5. LocalsOK' /\ pc' \in Steps \cup TimerSteps /\ SearchStands'
  BY <1>1, <1>3, NoLocals DEF LocalsOK, CallOK, Steps, TimerSteps, SearchStands
<1>6. sleeper.thread \in Threads
  <2>1. timers.queue[timers.cursor].entry_id \in Sleepers /\ timers \in Tables
    <3>1. timers \in Tables /\ timers.cursor \in 0 .. SLEEPERS_MAX
      BY <1>0 DEF TablesOK, Tables
    <3> QED BY <3>1, TableFields
  <2> QED BY <2>1 DEF Tables
<1>7. TablesOK(timers') /\ TableType' /\ SignalType' /\ WaitType' /\ SwitchType'
  <2>1. CASE UNCHANGED <<timers, state, wait_object, waiters>>
    <3>1. UNCHANGED <<tableVars, signalVars, waitVars, switchVars>>
      BY <1>1, <2>1 DEF tableVars, waitVars
    <3> QED BY <1>0, <2>1, <3>1, Frames
  <2>2. CASE /\ CursorOnSleeper /\ timers' = Fired(sleeper)
             /\ FireTimeout(sleeper.thread) \/ FireSleeper(sleeper.thread)
    BY <1>0, <1>1, <1>6, <2>2, FiredKeeps, FireTyped
  <2> QED BY <1>2, <2>1, <2>2
<1>8. Typed'
  BY <1>5, <1>7 DEF Typed
<1>9. TimersTyped'
  BY <1>1, <1>4, <1>5, <1>7, <1>8, NoLocals, TimersTypedFrom DEF TablesOK
<1> QED BY <1>5, <1>7, <1>9 DEF TablesOK, TimersInv

\* Every step keeps the timers' invariant.
LEMMA TimersStep ==
    ASSUME IntervalsSetOnce, TimersInv, [TimersNext]_allVars
    PROVE  TimersInv'
<1>1. CASE Timed(SVC_Handler) \/ Timed(Syscall) \/ Timed(HandlerStep) \/ Timed(PendSV)
  <2>1. Timed(KernelStep)
    BY <1>1 DEF Timed, KernelStep
  <2> QED BY <2>1, TimersKernelStep
<1>2. CASE Timed(Interrupt)
  BY <1>2, TimersInterrupt
<1>3. CASE TimerCall
  BY <1>3, TimersCall
<1>4. CASE TimerStep
  BY <1>4, SearchKeeps, SettingKeeps, CancellingKeeps, RunKeeps, FiringKeeps DEF TimerStep
<1>5. CASE SysTick_timers
  BY <1>5, TickKeeps
<1>6. CASE NotifyHangs
  BY <1>6, SpinKeeps DEF NotifyHangs
<1>7. CASE UNCHANGED allVars
  <2>1. /\ UNCHANGED <<KernelTables, pc, call, timers, sched_microtime, timed>>
    BY <1>7 DEF allVars, vars, timerVars, KernelTables, tableVars
  <2>2. LocalsOK'
    BY <2>1, TimersFacts DEF Typed, LocalsOK, CallOK, KernelTables, waitVars
  <2>3. SearchStands'
    BY <2>1, TimersFacts DEF SearchStands, Holds, Used, TimerDue
  <2> QED BY <2>1, <2>2, <2>3, TimersFacts, TablesStay
<1> QED BY <1>1, <1>2, <1>3, <1>4, <1>5, <1>6, <1>7 DEF TimersNext, Spinning

\* At start nothing is timed.
LEMMA TimersStart == TimersInit => TimersInv
<1> SUFFICES ASSUME TimersInit PROVE TimersInv
  OBVIOUS
<1>1. /\ Init /\ os_timer_init /\ sched_microtime = 0 /\ timed = NoTimed
  BY DEF TimersInit
<1>2. TypeInv /\ pc = "user"
  BY <1>1, TypeInit DEF Init
<1>3. 0 \in Times /\ 0 \in Sleepers /\ 0 \in Threads /\ 0 \in 0 .. SLEEPERS_MAX
  BY TimerAssumption, TableAssumption DEF Times, Sleepers, Threads
<1>4. timers = [sleepers |-> [s \in Sleepers |-> NoSleeper],
                queue |-> [i \in 0 .. SLEEPERS_MAX |-> NoEntry], size |-> 0, cursor |-> 0]
  BY <1>1 DEF os_timer_init
<1>5. timers \in Tables
  <2>1. NoSleeper \in [armed : BOOLEAN, type : SleepTypes, thread : Threads,
                       sleep_from : Times, interval : Times]
    BY <1>3 DEF NoSleeper, SleepTypes
  <2>2. NoEntry \in [resume_time : Times, entry_id : Sleepers]
    BY <1>3 DEF NoEntry
  <2> QED BY <1>3, <1>4, <2>1, <2>2 DEF Tables
<1>6. TimersTyped
  BY <1>1, <1>2, <1>3, <1>5, NoLocals DEF TypeInv, TypeOK, TimersTyped, TimersTypeOK
<1>7. Used(timers) = {} /\ EntriesOf(timers) = {} /\ \A s \in Sleepers : ~timers.sleepers[s].armed
  BY <1>4 DEF Used, EntriesOf, NoSleeper
<1>8. Ordered(timers) /\ Matched(timers) /\ SearchStands
  BY <1>2, <1>7 DEF Ordered, Matched, SearchStands
<1> QED BY <1>6, <1>8 DEF TimersInv

\* For any number of threads and slots, any delays, and with device interrupts at any
\* point, as long as no interval timer is set again while it runs: the timer queue is
\* sorted, what is in it is armed, and every timer that is armed is in it exactly
\* once, a sleep or timeout under the time it asked for.
THEOREM QueueStaysMatched ==
    ASSUME IntervalsSetOnce
    PROVE  TimersSpec => []QueueMatchesSleepers
<1>1. TimersInv => QueueMatchesSleepers
  <2> SUFFICES ASSUME TimersInv PROVE QueueMatchesSleepers
    OBVIOUS
  <2>1. /\ TimersTypeOK /\ timers \in Tables /\ Ordered(timers) /\ Matched(timers)
        /\ InUse = Used(timers)
    BY DEF TimersInv, TimersTyped, TimersTypeOK, InUse, Used
  <2>2. \A i \in InUse : timers.sleepers[timers.queue[i].entry_id].armed
    BY <2>1 DEF Matched, EntriesOf
  <2>3. ASSUME NEW s \in Sleepers, timers.sleepers[s].armed
        PROVE  LET sleeper == timers.sleepers[s]
                   entries == {i \in InUse : timers.queue[i].entry_id = s}
               IN  \E i \in entries :
                      /\ entries = {i}
                      /\ sleeper.type # "INTERVAL" =>
                            timers.queue[i].resume_time = After(sleeper.sleep_from, sleeper.interval)
    <3>1. PICK e \in EntriesOf(timers) :
             /\ e.entry_id = s
             /\ timers.sleepers[s].type # "INTERVAL" =>
                   e.resume_time = After(timers.sleepers[s].sleep_from, timers.sleepers[s].interval)
      BY <2>1, <2>3 DEF Matched
    <3>2. PICK i \in InUse : timers.queue[i] = e
      BY <2>1 DEF EntriesOf
    <3>3. {j \in InUse : timers.queue[j].entry_id = s} = {i}
      BY <2>1, <3>1, <3>2 DEF Ordered
    <3> QED BY <3>1, <3>2, <3>3
  <2> QED BY <2>1, <2>2, <2>3 DEF QueueMatchesSleepers, Ordered
<1> QED BY <1>1, TimersStart, TimersStep, PTL DEF TimersSpec

\* Remainders below one and two moduli.
LEMMA Wraps ==
    ASSUME NEW m \in Nat \ {0}, NEW a \in Nat
    PROVE  /\ a < m => a % m = a
           /\ m <= a /\ a < m + m => a % m = a - m
<1>1. a < m => a % m = a
  OBVIOUS
<1>2. ASSUME m <= a, a < m + m PROVE a % m = a - m
  <2>1. a = m * 1 + (a - m) /\ a - m \in 0 .. m - 1
    BY <1>2
  <2>2. \A q \in Int, r \in 0 .. m - 1 : a = m * q + r => a % m = r
    OBVIOUS
  <2> QED BY <2>1, <2>2
<1> QED BY <1>1, <1>2

\* What is due at the end of a tick was asked for long enough ago.
LEMMA DueIsLate ==
    ASSUME NEW from \in Times, NEW interval \in Times, sched_microtime \in Times,
           from + interval < TimeMod, TimerDue(from + interval)
    PROVE  ((sched_microtime + TimeMod - from) % TimeMod) + Tick >= interval
<1> DEFINE now == sched_microtime
           passed == (now + TimeMod - from) % TimeMod
<1>0. /\ TimeMod \in Nat \ {0} /\ Tick \in Nat /\ 0 < Tick /\ Tick < TimeMod
      /\ now \in Nat /\ now < TimeMod /\ from \in Nat /\ from < TimeMod /\ interval \in Nat
  BY TimerAssumption DEF Times
<1>1. passed = IF from <= now THEN now - from ELSE now + TimeMod - from
  <2>1. now + TimeMod - from \in Nat
    BY <1>0
  <2>2. CASE from <= now
    <3>1. TimeMod <= now + TimeMod - from /\ now + TimeMod - from < TimeMod + TimeMod
      BY <1>0, <2>2
    <3>2. passed = (now + TimeMod - from) - TimeMod
      BY <1>0, <2>1, <3>1, Wraps
    <3> QED BY <1>0, <2>2, <3>2
  <2>3. CASE ~(from <= now)
    <3>1. now + TimeMod - from < TimeMod
      BY <1>0, <2>3
    <3> QED BY <1>0, <2>1, <2>3, <3>1, Wraps
  <2> QED BY <2>2, <2>3
<1> HIDE DEF passed
<1>2. CASE now + Tick < TimeMod
  <2>1. After(now, Tick) = now + Tick
    <3>1. now + Tick \in Nat
      BY <1>0
    <3> QED BY <1>0, <1>2, <3>1, Wraps DEF After
  <2>2. from + interval <= now + Tick
    BY <1>0, <2>1 DEF TimerDue
  <2>3. passed + Tick >= interval
    BY <1>0, <1>1, <2>2
  <2> QED BY <2>3 DEF passed
<1>3. CASE ~(now + Tick < TimeMod)
  <2>1. passed + Tick >= interval
    BY <1>0, <1>1, <1>3
  <2> QED BY <2>1 DEF passed
<1> QED BY <1>2, <1>3

\* A timer fires only in the commit of os_run_timer, if the entry it looked at was due.
LEMMA FiresWhenDue ==
    ASSUME TimersInv, [TimersNext]_allVars, pc = "run_commit", pc' # pc, timers' # timers
    PROVE  /\ call.fresh /\ timed.due /\ CursorOnSleeper
           /\ TimerDue(timers.queue[timers.cursor].resume_time)
<1>1. os_run_timer_commit
  <2>1. ~Timed(KernelStep)
    BY KernelStepFrom DEF Timed, Steps
  <2>2. ~(Timed(SVC_Handler) \/ Timed(Syscall) \/ Timed(HandlerStep) \/ Timed(PendSV))
    BY <2>1 DEF Timed, KernelStep
  <2>3. ~Timed(Interrupt)
    BY TimersFacts, InterruptType DEF Timed, Interrupt
  <2>4. ~TimerCall
    BY DEF TimerCall, os_usleep, os_setitimer, os_setitimer_cancel, sys_wait_with_timeout, Arm, SVC
  <2>5. ~(SysTick_timers \/ NotifyHangs \/ Spinning \/ UNCHANGED allVars)
    BY DEF SysTick_timers, NotifyHangs, Spinning, allVars, timerVars
  <2> QED BY <2>2, <2>3, <2>4, <2>5 DEF TimersNext, TimerStep, os_set_timed_event,
             do_set_timed_event, os_cancel_timed_event, os_cancel_timed_event_commit, os_run_timer
<1>2. call.fresh /\ timed.due /\ CursorOnSleeper
  BY <1>1 DEF os_run_timer_commit
<1> QED BY <1>2, TimersFacts DEF SearchStands

\* While every wait is entered with a time limit and only usleep stops threads, no
\* system call adds to the threads that are to wait or stop without one.
LEMMA NobodyUnlimited ==
    ASSUME OnlyTimedWaits, TimersInv, unlimited = {}, [TimersNext]_allVars
    PROVE  unlimited' = {}
<1>1. CASE Timed(SVC_Handler) \/ Timed(Syscall) \/ Timed(HandlerStep) \/ Timed(PendSV) \/ Timed(Interrupt)
  <2>0. unlimited' = unlimited \cup Untimed
    BY <1>1 DEF Timed
  <2>1. ASSUME pc = "svc", pc' \in {"wait", "stop"} PROVE FALSE
    <3>1. ~(SVC_Handler \/ PendSV)
      BY <2>1 DEF SVC_Handler, PendSV
    <3>2. ~Interrupt
      BY <2>1, TimersFacts, InterruptType DEF Interrupt
    <3>3. ~HandlerStep
      BY <2>1
         DEF HandlerStep, os_sched_yield, os_sched_yield_commit, os_sched_yield_clear,
             os_thread_kill, os_thread_kill_dispose, yield_if_current,
             os_thread_stop, os_thread_stop_commit, os_thread_continue, os_thread_continue_commit,
             os_thread_alloc, os_thread_alloc_commit, os_stack_create, os_stack_create_commit,
             os_thread_construct, os_notify_object, os_notify_object_commit,
             os_wait_for_object, os_wait_for_object_commit,
             os_initialize_waitable_object, os_initialize_waitable_object_commit,
             os_initialize_waitable_object_clear, os_initialize_waitable_object_clear_commit
    <3>4. ~(\/ os_system_call_reports \/ sys_sched_yield \/ sys_thread_exit \/ sys_kill_SIGKILL
            \/ sys_kill_SIGCONT \/ sys_kill_signal \/ os_signal \/ os_setpriority
            \/ sys_thread_create \/ sys_notify_object \/ sys_notify_object2
            \/ sys_init_waitable_object)
      BY <2>1 DEF os_system_call_reports, sys_sched_yield, sys_thread_exit, sys_kill_SIGKILL,
         sys_kill_SIGCONT, os_kill_dispatch, sys_kill_signal, os_signal, os_setpriority,
         sys_thread_create, sys_notify_object, sys_notify_object2, sys_init_waitable_object,
         Goto, Return
    <3> QED BY <1>1, <3>1, <3>2, <3>3, <3>4 DEF Timed, Syscall, OnlyTimedWaits
  <2>2. Untimed = {}
    BY <2>1 DEF Untimed
  <2> QED BY <2>0, <2>2
<1>2. CASE TimerCall
  BY <1>2 DEF TimerCall, os_usleep, os_setitimer, os_setitimer_cancel, sys_wait_with_timeout, Arm
<1>3. CASE TimerStep \/ SysTick_timers \/ NotifyHangs \/ Spinning \/ UNCHANGED allVars
  BY <1>3 DEF TimerStep, os_set_timed_event, do_set_timed_event, os_cancel_timed_event,
     os_cancel_timed_event_commit, os_run_timer, os_run_timer_commit, SysTick_timers,
     NotifyHangs, Spinning, allVars, timerVars
<1> QED BY <1>1, <1>2, <1>3 DEF TimersNext

\* For any tick, delays and interleaving with device interrupts, if every wait is
\* entered with a time limit, only usleep stops threads, and no interval timer is set
\* again while it runs: a timer of os_run_timer ends no sleep and no wait but one that
\* asked for it, and not before the time it asked for, unless the clock wrapped during it.
THEOREM NothingEndsEarly ==
    ASSUME OnlyTimedWaits, IntervalsSetOnce
    PROVE  TimersSpec => NotBeforeTime
<1>1. ASSUME TimersInv, unlimited = {}, [TimersNext]_allVars
      PROVE  [LET sleeper == timers.sleepers[timers.queue[timers.cursor].entry_id]
              IN  /\ pc = "run_commit" /\ pc' # pc /\ timers' # timers
                  /\ \/ sleeper.type = "SLEEP" /\ state[sleeper.thread] = "STOPPED"
                     \/ sleeper.type = "TIMEOUT" /\ wait_object[sleeper.thread] # None
                  => /\ sleeper.thread \notin unlimited
                     /\ sleeper.sleep_from + sleeper.interval < TimeMod
                           => ((sched_microtime + TimeMod - sleeper.sleep_from) % TimeMod) + Tick
                                 >= sleeper.interval]_allVars
  <2> DEFINE entry == timers.queue[timers.cursor]
             sleeper == timers.sleepers[entry.entry_id]
  <2> SUFFICES ASSUME pc = "run_commit", pc' # pc, timers' # timers, sleeper.type # "INTERVAL",
                      sleeper.sleep_from + sleeper.interval < TimeMod
               PROVE  ((sched_microtime + TimeMod - sleeper.sleep_from) % TimeMod) + Tick
                         >= sleeper.interval
    BY <1>1
  <2>1. /\ CursorOnSleeper /\ TimerDue(entry.resume_time)
        /\ timers \in Tables /\ Ordered(timers) /\ Matched(timers) /\ sched_microtime \in Times
    BY <1>1, FiresWhenDue, TimersFacts DEF TablesOK
  <2>2. entry \in EntriesOf(timers) /\ entry.entry_id \in Sleepers /\ sleeper.armed
    <3>1. timers.cursor \in Used(timers)
      BY <2>1, TableFields DEF CursorOnSleeper, Used
    <3> QED BY <2>1, <3>1, TableFields DEF EntriesOf, CursorOnSleeper
  <2>3. sleeper.sleep_from \in Times /\ sleeper.interval \in Times
    BY <2>1, <2>2 DEF Tables
  <2> HIDE DEF entry
  <2>4. entry.resume_time = After(sleeper.sleep_from, sleeper.interval)
    <3>1. PICK e \in EntriesOf(timers) :
             /\ e.entry_id = entry.entry_id
             /\ e.resume_time = After(sleeper.sleep_from, sleeper.interval)
      BY <2>1, <2>2 DEF Matched
    <3>2. e = entry
      BY <2>1, <2>2, <3>1, OneEntry
    <3> QED BY <3>1, <3>2
  <2> HIDE DEF sleeper
  <2>5. After(sleeper.sleep_from, sleeper.interval) = sleeper.sleep_from + sleeper.interval
    <3>1. sleeper.sleep_from + sleeper.interval \in Nat /\ TimeMod \in Nat \ {0}
      BY <2>3, TimerAssumption DEF Times
    <3> QED BY <3>1, Wraps DEF After
  <2> QED BY <2>1, <2>3, <2>4, <2>5, DueIsLate
<1>2. TimersInv /\ unlimited = {} /\ [TimersNext]_allVars => (TimersInv /\ unlimited = {})'
  BY TimersStep, NobodyUnlimited
<1>3. TimersInit => TimersInv /\ unlimited = {}
  BY TimersStart DEF TimersInit
<1> QED BY <1>1, <1>2, <1>3, PTL DEF TimersSpec, NotBeforeTime

\* A timeout or a sleep that ends loses no wakeup: it leaves no notification behind,
\* and everybody else who waits stays in the waiter list.
LEMMA FireWakeup ==
    ASSUME TimersInv, WakeupInv, os_run_timer_commit
    PROVE  WakeupInv'
<1> DEFINE sleeper == timers.sleepers[timers.queue[timers.cursor].entry_id]
           Listed == \A t \in Threads : wait_object[t] # None => \E i \in DOMAIN waiters : waiters[i] = t
<1>0. WaitType /\ WaitersAreFound /\ NoLostWakeup
  BY TimersFacts DEF Typed, WakeupInv
<1>1. UNCHANGED <<priority, base_priority, pending>> /\ pc' # "notify_commit"
  BY DEF os_run_timer_commit, Goto, EndOfRun
<1>2. CASE UNCHANGED <<wait_object, waiters>>
  BY <1>1, <1>2, WaitlessKeeps DEF Waitless, waitVars
<1>3. CASE ~UNCHANGED <<wait_object, waiters>>
  <2> DEFINE t == sleeper.thread
  <2>1. FireTimeout(t) /\ wait_object[t] # None
    BY <1>3 DEF os_run_timer_commit, FireSleeper, FireTimeout
  <2>2. t \in Threads
    <3>1. timers.queue[timers.cursor].entry_id \in Sleepers /\ timers \in Tables
      <4>1. timers \in Tables /\ timers.cursor \in 0 .. SLEEPERS_MAX
        BY TimersFacts DEF TablesOK, Tables
      <4> QED BY <4>1, TableFields
    <3> QED BY <3>1 DEF Tables
  <2> HIDE DEF t
  <2>3. /\ wait_object' = [wait_object EXCEPT ![t] = None]
        /\ \/ waiters' = waiters
           \/ waiters' = ARRAY_DELETE(waiters, WaiterOf(t))
    BY <2>1 DEF FireTimeout, os_notify_thread
  <2>4. WaiterOf(t) \in DOMAIN waiters /\ waiters[WaiterOf(t)] = t
    <3>1. \E i \in DOMAIN waiters : waiters[i] = t
      BY <1>0, <2>1, <2>2 DEF WaitersAreFound
    <3> QED BY <1>0, <3>1, WaiterOfIn
  <2>5. Listed'
    <3>1. CASE waiters' = waiters
      BY <1>0, <2>2, <2>3, <3>1 DEF WaitersAreFound, WaitType
    <3>2. CASE waiters' = ARRAY_DELETE(waiters, WaiterOf(t))
      BY <1>0, <2>3, <2>4, <3>2, WakingKeeps
    <3> QED BY <2>3, <3>1, <3>2
  <2>6. NoLostWakeup'
    BY <1>0, <1>1, <2>2, <2>3, EndingKeeps
  <2> QED BY <1>0, <1>1, <2>5, <2>6 DEF WakeupInv, WaitersAreFound
<1> QED BY <1>2, <1>3

\* No step of the kernel with its timers loses a wakeup.
LEMMA TimersWakeup ==
    ASSUME TimersInv, WakeupInv, [TimersNext]_allVars
    PROVE  WakeupInv'
<1>0. Typed
  BY TimersFacts
<1>1. CASE Timed(SVC_Handler) \/ Timed(Syscall) \/ Timed(HandlerStep) \/ Timed(PendSV)
  <2>1. KernelStep
    BY <1>1 DEF Timed, KernelStep
  <2>2. TypeInv /\ Next
    BY <1>0, <2>1, KernelStepTyped
  <2> QED BY <2>2, WakeupStep
<1>2. CASE Timed(Interrupt)
  <2>1. CASE isr_notify_object
    BY <1>0, <2>1, InterruptWakeup
  <2>2. CASE isr_kill
    <3>1. UNCHANGED <<waitVars, priority, base_priority, pc, call>>
      BY <2>2 DEF isr_kill
    <3>2. \A o : os_find_notified_thread_waiter(o)' = os_find_notified_thread_waiter(o)
      BY <3>1 DEF os_find_notified_thread_waiter, Candidates, waitVars
    <3> QED BY <3>1, <3>2 DEF WakeupInv, WaitersAreFound, NoLostWakeup, waitVars
  <2> QED BY <1>2, <2>1, <2>2 DEF Timed, Interrupt
<1>3. CASE os_run_timer_commit
  BY <1>3, FireWakeup
<1>4. CASE TimerCall \/ SysTick_timers \/ NotifyHangs
  <2>1. Waitless
    BY <1>4 DEF TimerCall, os_usleep, os_setitimer, os_setitimer_cancel, sys_wait_with_timeout, Arm,
       SysTick_timers, NotifyHangs, Spin, Goto, KernelTables, tableVars, Waitless
  <2> QED BY <2>1, WaitlessKeeps
<1>5. CASE os_set_timed_event \/ do_set_timed_event
  <2>1. Waitless
    BY <1>5 DEF os_set_timed_event, do_set_timed_event, AfterArming, Found, Return, Spin, Goto,
       KernelTables, tableVars, Waitless
  <2> QED BY <2>1, WaitlessKeeps
<1>6. CASE os_cancel_timed_event \/ os_cancel_timed_event_commit \/ os_run_timer
  <2>1. Waitless
    BY <1>6 DEF os_cancel_timed_event, os_cancel_timed_event_commit, os_run_timer, Found, Return,
       Spin, Goto, KernelTables, tableVars, Waitless
  <2> QED BY <2>1, WaitlessKeeps
<1>7. CASE UNCHANGED allVars
  <2>1. TypeInv => WakeupInv'
    BY <1>7, WakeupStep DEF allVars
  <2>2. UNCHANGED <<waitVars, priority, base_priority, pc, call>>
    BY <1>7 DEF allVars, vars, tableVars
  <2>3. \A o : os_find_notified_thread_waiter(o)' = os_find_notified_thread_waiter(o)
    BY <2>2 DEF os_find_notified_thread_waiter, Candidates, waitVars
  <2> QED BY <2>2, <2>3 DEF WakeupInv, WaitersAreFound, NoLostWakeup, waitVars
<1> QED BY <1>1, <1>2, <1>3, <1>4, <1>5, <1>6, <1>7 DEF TimersNext, TimerStep, Spinning

\* No wakeup is lost with timers either, for tables of any size, any delays and any
\* entry points, as long as no interval timer is set again while it runs (that may
\* take the tables out of their types): a notification that meets the end of a timeout, before, after or between
\* its search and its commit, wakes the thread or is kept for a later wait.
THEOREM TimeoutsLoseNoWakeup ==
    ASSUME IntervalsSetOnce
    PROVE  TimersSpec => []NoLostWakeup
<1>1. TimersInv /\ WakeupInv => NoLostWakeup
  BY DEF WakeupInv
<1>2. TimersInv /\ WakeupInv /\ [TimersNext]_allVars => (TimersInv /\ WakeupInv)'
  BY TimersStep, TimersWakeup
<1>3. TimersInit => TimersInv /\ WakeupInv
  BY TimersStart, WakeupInit DEF TimersInit
<1> QED BY <1>1, <1>2, <1>3, PTL DEF TimersSpec

------------------------------------------------------------------------------
(***************************************************************************)
(* Waits, notifications from interrupts, and timeouts together.            *)
(***************************************************************************)

NobodyStartsToWait == \A t \in Threads : state[t] # "WAITING" => state'[t] # "WAITING"

\* Points of handlers that hold on to no thread.
Plain == {"user", "svc", "yield", "yield_clear", "dispose", "self", "stop", "continue", "alloc",
          "notify", "notify_commit", "cancel", "cancel_commit", "run", "run_commit", "stuck"}

\* A step to such a point, in which nobody starts to wait.
LEMMA PlainKeeps ==
    ASSUME OrderlyWaits, SwitchType, pc' \in Plain, WaitersAreWaiting', NobodyStartsToWait,
           UNCHANGED <<thread_current, thread_next, pendsv>>,
           \A t \in Threads : wait_object'[t] \notin Threads
    PROVE  OrderlyWaits'
<1>1. pc' \notin InitSteps
  BY DEF Plain, InitSteps
<1>2. NotAmongWaiters'
  BY DEF OrderlyWaits, NotAmongWaiters, NobodyStartsToWait, Plain, SwitchType
<1>3. WaitsForObject'
  BY DEF WaitsForObject, Plain
<1> QED BY <1>1, <1>2, <1>3 DEF OrderlyWaits

\* Nothing that is said of waiters changes.
Resting == UNCHANGED <<state, wait_object, waiters, thread_current, thread_next, pendsv>>

\* What holds of the waiters goes on to hold.
LEMMA RestingFacts ==
    ASSUME OrderlyWaits, Resting
    PROVE  /\ WaitersAreWaiting' /\ NobodyStartsToWait
           /\ \A t \in Threads : wait_object'[t] \notin Threads
BY DEF OrderlyWaits, WaitsForObject, Resting, WaitersAreWaiting, NobodyStartsToWait

\* Steps that only move on to a point that holds on to no thread.
LEMMA RestingKeeps ==
    ASSUME OrderlyWaits, SwitchType, Resting, pc' \in Plain
    PROVE  OrderlyWaits'
BY RestingFacts, PlainKeeps DEF Resting

\* A change of the state of a thread that does not wait.
LEMMA ChangingKeeps ==
    ASSUME OrderlyWaits, TableType, WaitType, SwitchType,
           NEW t \in Threads, state[t] # "WAITING", NEW new \in States \ {"WAITING"},
           state' = [state EXCEPT ![t] = new], UNCHANGED waiters,
           wait_object' = wait_object \/ wait_object' = [wait_object EXCEPT ![t] = None]
    PROVE  /\ WaitersAreWaiting' /\ NobodyStartsToWait
           /\ \A u \in Threads : wait_object'[u] \notin Threads
<1>1. /\ \A u \in Threads \ {t} : wait_object'[u] = wait_object[u]
      /\ \A u \in Threads : wait_object'[u] \in {wait_object[u], None}
  BY DEF WaitType
<1>2. WaitersAreWaiting'
  BY <1>1, WaitersUntouched DEF OrderlyWaits
<1>3. NobodyStartsToWait
  BY DEF NobodyStartsToWait, TableType
<1>4. None \notin Threads
  BY NoneAssumption, TableAssumption DEF Threads
<1> QED BY <1>1, <1>2, <1>3, <1>4 DEF OrderlyWaits, WaitsForObject

\* Waking a waiter and taking it off the list.
LEMMA WakingOrderly ==
    ASSUME OrderlyWaits, TableType, WaitType, NEW w \in DOMAIN waiters,
           os_notify_thread(waiters[w]), waiters' = ARRAY_DELETE(waiters, w)
    PROVE  /\ WaitersAreWaiting' /\ NobodyStartsToWait
           /\ \A u \in Threads : wait_object'[u] \notin Threads
<1> DEFINE t == waiters[w]
           new == IF t = thread_current THEN "RUNNING" ELSE "READY"
<1>1. t \in Threads /\ wait_object[t] \notin Threads
  BY DEF WaitType, OrderlyWaits, WaitsForObject
<1>2. state' = [state EXCEPT ![t] = new] /\ wait_object' = [wait_object EXCEPT ![t] = None]
  BY <1>1 DEF os_notify_thread, Awakened, cb_syscall_notify_object
<1>3. new \in {"READY", "RUNNING"}
  OBVIOUS
<1> HIDE DEF new
<1>4. WaitersAreWaiting'
  BY <1>2, <1>3, WakingOne DEF OrderlyWaits
<1>5. NobodyStartsToWait
  BY <1>1, <1>2, <1>3 DEF NobodyStartsToWait, TableType
<1>6. \A u \in Threads : wait_object'[u] \in {wait_object[u], None}
  BY <1>1, <1>2 DEF WaitType
<1>7. None \notin Threads
  BY NoneAssumption, TableAssumption DEF Threads
<1> QED BY <1>4, <1>5, <1>6, <1>7 DEF OrderlyWaits, WaitsForObject

\* The next thread is one that can run, and not the current one.
LEMMA NextIsAnother ==
    ASSUME NEW cur, NEW st, NEW pr, os_get_next_thread(cur, st, pr) # None
    PROVE  /\ os_get_next_thread(cur, st, pr) \in Threads
           /\ RunnableIn(st, os_get_next_thread(cur, st, pr))
           /\ os_get_next_thread(cur, st, pr) # cur
<1>1. \E t \in Threads : SettlesFor(cur, t, st, pr)
  BY DEF os_get_next_thread
<1>2. os_get_next_thread(cur, st, pr) = CHOOSE t \in Threads : SettlesFor(cur, t, st, pr)
  BY <1>1 DEF os_get_next_thread
<1>3. /\ os_get_next_thread(cur, st, pr) \in Threads
      /\ SettlesFor(cur, os_get_next_thread(cur, st, pr), st, pr)
  BY <1>1, <1>2
<1> QED BY <1>3 DEF SettlesFor

\* A thread that does not wait, as the one a handler holds on to.
LEMMA HeldKeeps ==
    ASSUME OrderlyWaits, SwitchType, Resting,
           \/ /\ pc' \in {"kill", "stop_commit", "continue_commit", "stack", "stack_commit", "construct"}
              /\ state[call'.tgt] # "WAITING"
           \/ pc' = "alloc_commit" /\ state[call'.cand] # "WAITING"
           \/ pc' = "yield_commit" /\ state[call'.cand] # "WAITING" /\ call'.cand # thread_current
           \/ pc' = "wait" /\ call'.obj \in Objects /\ call'.tgt \in {None, thread_current}
           \/ /\ pc' = "wait_commit" /\ call'.obj \in Objects /\ call'.tgt = thread_current
              /\ state[thread_current] # "WAITING"
    PROVE  OrderlyWaits'
<1>1. pc' \notin InitSteps
  BY DEF InitSteps
<1>2. NotAmongWaiters'
  BY DEF OrderlyWaits, NotAmongWaiters, Resting
<1>3. WaitsForObject'
  BY RestingFacts DEF WaitsForObject, Resting
<1> QED BY <1>1, <1>2, <1>3, RestingFacts DEF OrderlyWaits

\* Entering a system call.
LEMMA OrderlyCalls ==
    ASSUME WaitsEndInOrder, OrderlyWaits, SwitchType, SVC_Handler \/ Syscall
    PROVE  OrderlyWaits'
<1> USE DEF Goto, Return, tableVars, waitVars, switchVars
<1>1. CASE SVC_Handler \/ os_system_call_reports \/ sys_sched_yield \/ os_signal \/ os_setpriority
  <2>1. Resting /\ pc' \in Plain
    BY <1>1 DEF SVC_Handler, os_system_call_reports, sys_sched_yield, os_signal, os_setpriority,
                Resting, Plain
  <2> QED BY <2>1, RestingKeeps
<1>2. CASE sys_kill_SIGSTOP \/ sys_kill_SIGCONT \/ sys_kill_signal
  <2>1. Resting /\ pc' \in Plain
    BY <1>2 DEF sys_kill_SIGSTOP, sys_kill_SIGCONT, os_kill_dispatch, sys_kill_signal, Resting, Plain
  <2> QED BY <2>1, RestingKeeps
<1>3. CASE sys_kill_SIGKILL
  <2>1. PICK t \in AppThreads : Signallable(t) /\ call' = [NoCall EXCEPT !.tgt = t]
    BY <1>3 DEF sys_kill_SIGKILL, os_kill_dispatch
  <2>2. Resting /\ pc' = "kill"
    BY <1>3 DEF sys_kill_SIGKILL, os_kill_dispatch, Resting
  <2>3. state[call'.tgt] # "WAITING"
    BY <2>1 DEF Signallable, NoCall
  <2> QED BY <2>2, <2>3, HeldKeeps
<1>4. CASE sys_thread_create \/ sys_notify_object \/ sys_notify_object2
  <2>1. Resting /\ pc' \in Plain
    BY <1>4 DEF sys_thread_create, sys_notify_object, sys_notify_object2, Resting, Plain
  <2> QED BY <2>1, RestingKeeps
<1>5. CASE sys_wait_for_object \/ sys_wait_for_object_value
  <2>1. Resting
    BY <1>5 DEF sys_wait_for_object, sys_wait_for_object_value, Resting
  <2>2. \/ pc' \in Plain
        \/ pc' = "wait" /\ call'.obj \in Objects /\ call'.tgt = None
    BY <1>5 DEF sys_wait_for_object, sys_wait_for_object_value, Plain, NoCall
  <2> QED BY <2>1, <2>2, RestingKeeps, HeldKeeps
<1>6. ~("exit" \in Ops \/ "join" \in Ops \/ "init" \in Ops)
  BY DEF WaitsEndInOrder
<1> QED BY <1>1, <1>2, <1>3, <1>4, <1>5, <1>6 DEF Syscall

\* Yielding and the context switch: whoever is chosen can run.
LEMMA OrderlySwitches ==
    ASSUME OrderlyWaits, TypeInv,
           os_sched_yield \/ os_sched_yield_commit \/ os_sched_yield_clear \/ PendSV
    PROVE  OrderlyWaits'
<1>0. TableType /\ WaitType /\ SwitchType /\ call \in Calls /\ CallOK
  BY DEF TypeInv, TypeOK
<1>1. CASE os_sched_yield
  <2> DEFINE next == os_get_next_thread(thread_current, state, priority)
  <2>1. Resting /\ Found(next, IF next = None THEN "yield_clear" ELSE "yield_commit")
    BY <1>1 DEF os_sched_yield, Resting, tableVars, waitVars, switchVars
  <2>2. CASE next = None
    BY <1>0, <2>1, <2>2, RestingKeeps DEF Found, Plain
  <2>3. CASE next # None
    <3>1. next \in Threads /\ RunnableIn(state, next) /\ next # thread_current
      BY <2>3, NextIsAnother
    <3> HIDE DEF next
    <3>2. pc' = "yield_commit" /\ call'.cand = next
      BY <1>0, <2>1, <2>3 DEF Found, Calls
    <3> QED BY <1>0, <2>1, <3>1, <3>2, HeldKeeps DEF RunnableIn
  <2> QED BY <2>2, <2>3
<1>2. CASE os_sched_yield_commit \/ os_sched_yield_clear
  <2>1. /\ UNCHANGED <<state, wait_object, waiters, thread_current>> /\ pc' = "user"
        /\ \/ UNCHANGED <<thread_next, pendsv>>
           \/ pendsv' = FALSE
           \/ pc = "yield_commit" /\ thread_next' = call.cand
    BY <1>2 DEF os_sched_yield_commit, os_sched_yield_clear, SwitchTo, os_request_context_switch,
                Return, tableVars, waitVars
  <2>2. pendsv' => state[thread_next'] # "WAITING" /\ thread_next' # thread_current
    BY <2>1 DEF OrderlyWaits, NotAmongWaiters
  <2>3. WaitersAreWaiting' /\ WaitsForObject'
    BY <2>1 DEF OrderlyWaits, WaitersAreWaiting, WaitsForObject
  <2> QED BY <2>1, <2>2, <2>3 DEF OrderlyWaits, NotAmongWaiters, InitSteps
<1>3. CASE PendSV
  <2>1. /\ pc = "user" /\ pendsv /\ pendsv' = FALSE
        /\ state' = [Leave(state, thread_current) EXCEPT ![thread_next] = "RUNNING"]
        /\ thread_current' = thread_next
        /\ UNCHANGED <<wait_object, waiters, pc, call>>
    BY <1>3 DEF PendSV, os_request_context_switch, waitVars
  <2>2. state[thread_next] # "WAITING" /\ thread_next \in Threads /\ thread_current \in Threads
    BY <1>0, <2>1 DEF OrderlyWaits, NotAmongWaiters, SwitchType
  <2>3. /\ state' \in [Threads -> States]
        /\ \A t \in Threads : state'[t] = "WAITING" <=> state[t] = "WAITING"
    BY <1>0, <2>1, <2>2 DEF Leave, TableType, States
  <2>4. WaitersAreWaiting'
    <3>1. \A i \in DOMAIN waiters : waiters[i] \in Threads
      BY <1>0 DEF WaitType
    <3> QED BY <2>1, <2>3, <3>1 DEF OrderlyWaits, WaitersAreWaiting
  <2>5. WaitsForObject'
    BY <2>1 DEF OrderlyWaits, WaitsForObject
  <2> QED BY <2>1, <2>4, <2>5 DEF OrderlyWaits, NotAmongWaiters, InitSteps
<1> QED BY <1>1, <1>2, <1>3

\* Ending, stopping, continuing and creating threads: none of them waits.
LEMMA OrderlyThreads ==
    ASSUME OrderlyWaits, TypeInv,
           \/ os_thread_kill \/ os_thread_kill_dispose \/ yield_if_current
           \/ os_thread_stop \/ os_thread_stop_commit
           \/ os_thread_continue \/ os_thread_continue_commit
           \/ os_thread_alloc \/ os_thread_alloc_commit
           \/ os_stack_create \/ os_stack_create_commit \/ os_thread_construct
    PROVE  OrderlyWaits'
<1>0. TableType /\ WaitType /\ SwitchType /\ call \in Calls /\ CallOK
  BY DEF TypeInv, TypeOK
<1>1. ASSUME NEW t \in Threads, state[t] # "WAITING", NEW new \in States \ {"WAITING"},
             state' = [state EXCEPT ![t] = new],
             UNCHANGED <<waiters, thread_current, thread_next, pendsv>>,
             wait_object' = wait_object \/ wait_object' = [wait_object EXCEPT ![t] = None],
             pc' \in Plain
      PROVE  OrderlyWaits'
  <2>1. /\ WaitersAreWaiting' /\ NobodyStartsToWait
        /\ \A u \in Threads : wait_object'[u] \notin Threads
    BY <1>0, <1>1, ChangingKeeps
  <2> QED BY <1>0, <1>1, <2>1, PlainKeeps
<1>2. ASSUME Resting, pc' \in Plain PROVE OrderlyWaits'
  BY <1>0, <1>2, RestingKeeps
<1> USE DEF Goto, Return, tableVars, waitVars, switchVars
<1>3. CASE os_thread_kill
  <2>1. call.tgt \in Threads /\ state[call.tgt] # "WAITING"
    BY <1>0, <1>3 DEF os_thread_kill, CallOK, OrderlyWaits, NotAmongWaiters
  <2>2. UNCHANGED <<wait_object, waiters, thread_current, thread_next, pendsv>> /\ pc' \in Plain
    BY <1>3 DEF os_thread_kill, Found, Plain
  <2>3. UNCHANGED state \/ state' = [state EXCEPT ![call.tgt] = "FINISHED"]
    BY <1>3 DEF os_thread_kill
  <2> QED BY <1>1, <1>2, <2>1, <2>2, <2>3 DEF States, Resting
<1>4. CASE os_thread_kill_dispose \/ yield_if_current
  BY <1>2, <1>4 DEF os_thread_kill_dispose, yield_if_current, YieldIfCurrent, Resting, Plain
<1>5. CASE os_thread_stop \/ os_thread_continue
  <2>1. Resting
    BY <1>5 DEF os_thread_stop, os_thread_continue, Resting
  <2>2. \/ pc' \in Plain
        \/ /\ pc' \in {"stop_commit", "continue_commit"} /\ Found(None, pc')
           /\ state[call.tgt] # "WAITING"
    BY <1>5 DEF os_thread_stop, os_thread_continue, Plain, RunnableIn, Found
  <2>3. CASE pc' \in Plain
    BY <1>2, <2>1, <2>3
  <2>4. CASE pc' \in {"stop_commit", "continue_commit"} /\ Found(None, pc') /\ state[call.tgt] # "WAITING"
    <3>1. call'.tgt = call.tgt
      BY <1>0, <2>4 DEF Found, Calls
    <3> QED BY <1>0, <2>1, <2>4, <3>1, HeldKeeps
  <2> QED BY <2>2, <2>3, <2>4
<1>6. CASE os_thread_stop_commit \/ os_thread_continue_commit
  <2>1. call.tgt \in Threads /\ state[call.tgt] # "WAITING"
    BY <1>0, <1>6 DEF os_thread_stop_commit, os_thread_continue_commit, CallOK, OrderlyWaits, NotAmongWaiters
  <2>2. UNCHANGED <<wait_object, waiters, thread_current, thread_next, pendsv>> /\ pc' \in Plain
    BY <1>6 DEF os_thread_stop_commit, os_thread_continue_commit, Plain
  <2>3. \/ UNCHANGED state
        \/ state' = [state EXCEPT ![call.tgt] = "STOPPED"]
        \/ state' = [state EXCEPT ![call.tgt] = "READY"]
    BY <1>6 DEF os_thread_stop_commit, os_thread_continue_commit
  <2> QED BY <1>1, <1>2, <2>1, <2>2, <2>3 DEF States, Resting
<1>7. CASE os_thread_alloc
  <2> DEFINE empty == {t \in Threads : state[t] = "EMPTY"}
  <2>1. Resting /\ (IF empty = {} THEN Return ELSE Found(Lowest(empty), "alloc_commit"))
    BY <1>7 DEF os_thread_alloc, Resting
  <2>2. CASE empty = {}
    BY <1>2, <2>1, <2>2 DEF Plain
  <2>3. CASE empty # {}
    <3>1. empty \subseteq Nat
      BY TableAssumption DEF Threads
    <3>2. Lowest(empty) \in empty
      BY <2>3, <3>1, LowestIn
    <3>3. pc' = "alloc_commit" /\ call'.cand = Lowest(empty)
      BY <1>0, <2>1, <2>3 DEF Found, Calls
    <3> QED BY <1>0, <2>1, <3>2, <3>3, HeldKeeps
  <2> QED BY <2>2, <2>3
<1>8. CASE os_thread_alloc_commit
  <2>0. call.cand \in Threads /\ state[call.cand] # "WAITING"
    BY <1>0, <1>8 DEF os_thread_alloc_commit, CallOK, OrderlyWaits, NotAmongWaiters
  <2>1. CASE ~call.fresh
    BY <1>2, <1>8, <2>1 DEF os_thread_alloc_commit, Resting, Plain
  <2>2. CASE call.fresh
    <3>1. /\ state' = [state EXCEPT ![call.cand] = "CREATED"] /\ pc' = "stack"
          /\ wait_object' = [wait_object EXCEPT ![call.cand] = None]
          /\ call' = [call EXCEPT !.tgt = call.cand, !.cand = None]
          /\ UNCHANGED <<waiters, thread_current, thread_next, pendsv>>
      BY <1>8, <2>2 DEF os_thread_alloc_commit
    <3>2. /\ WaitersAreWaiting' /\ NobodyStartsToWait
          /\ \A u \in Threads : wait_object'[u] \notin Threads
      BY <1>0, <2>0, <3>1, ChangingKeeps DEF States
    <3>3. call'.tgt = call.cand /\ state'[call.cand] = "CREATED"
      BY <1>0, <2>0, <3>1 DEF Calls, TableType
    <3>4. NotAmongWaiters'
      BY <1>0, <3>1, <3>2, <3>3 DEF OrderlyWaits, NotAmongWaiters, NobodyStartsToWait, SwitchType
    <3> QED BY <3>1, <3>2, <3>4 DEF OrderlyWaits, WaitsForObject, InitSteps
  <2> QED BY <2>1, <2>2
<1>9. CASE os_stack_create \/ os_stack_create_commit
  <2>1. Resting /\ state[call.tgt] # "WAITING"
    BY <1>9 DEF os_stack_create, os_stack_create_commit, Resting, OrderlyWaits, NotAmongWaiters
  <2>2. pc' \in {"user", "stack", "stack_commit", "construct"} /\ (pc' # "user" => call'.tgt = call.tgt)
    BY <1>0, <1>9 DEF os_stack_create, os_stack_create_commit, Found, Calls
  <2> QED BY <1>0, <1>2, <2>1, <2>2, HeldKeeps DEF Plain
<1>10. CASE os_thread_construct
  <2>1. call.tgt \in Threads /\ state[call.tgt] # "WAITING"
    BY <1>0, <1>10 DEF os_thread_construct, CallOK, OrderlyWaits, NotAmongWaiters
  <2>2. /\ UNCHANGED <<wait_object, waiters, thread_current, thread_next, pendsv>> /\ pc' \in Plain
        /\ state' = [state EXCEPT ![call.tgt] = "READY"]
    BY <1>10 DEF os_thread_construct, Plain
  <2> QED BY <1>1, <2>1, <2>2 DEF States
<1> QED BY <1>3, <1>4, <1>5, <1>6, <1>7, <1>8, <1>9, <1>10

\* Notifying and waiting: a waiter is woken and taken off the list in one, and the
\* current thread starts to wait only if it did not wait yet.
LEMMA OrderlyNotifications ==
    ASSUME OrderlyWaits, TypeInv,
           os_notify_object \/ os_notify_object_commit \/ os_wait_for_object \/ os_wait_for_object_commit
    PROVE  OrderlyWaits'
<1>0. TableType /\ WaitType /\ SwitchType /\ call \in Calls /\ CallOK
  BY DEF TypeInv, TypeOK
<1> USE DEF Goto, Return, tableVars, waitVars, switchVars
<1>1. CASE os_notify_object
  <2>1. Resting /\ pc' \in Plain
    BY <1>1 DEF os_notify_object, Found, Resting, Plain
  <2> QED BY <1>0, <2>1, RestingKeeps
<1>2. CASE os_notify_object_commit
  <2>0. pc = "notify_commit" /\ UNCHANGED <<thread_current, thread_next, pendsv>> /\ pc' \in Plain
    BY <1>2 DEF os_notify_object_commit, NotifyWaiter, NotifyNobody, Plain
  <2>1. CASE UNCHANGED <<state, wait_object, waiters>>
    BY <1>0, <2>0, <2>1, RestingKeeps DEF Resting
  <2>2. CASE ~UNCHANGED <<state, wait_object, waiters>>
    <3>1. call.fresh /\ call.cand # None /\ NotifyWaiter
      BY <1>2, <2>2 DEF os_notify_object_commit, NotifyNobody
    <3>2. call.cand \in DOMAIN waiters
      BY <1>0, <2>0, <3>1 DEF CallOK
    <3>3. os_notify_thread(waiters[call.cand]) /\ waiters' = ARRAY_DELETE(waiters, call.cand)
      BY <3>1 DEF NotifyWaiter
    <3>4. /\ WaitersAreWaiting' /\ NobodyStartsToWait
          /\ \A u \in Threads : wait_object'[u] \notin Threads
      BY <1>0, <3>2, <3>3, WakingOrderly
    <3> QED BY <1>0, <2>0, <3>4, PlainKeeps
  <2> QED BY <2>1, <2>2
<1>3. CASE os_wait_for_object
  <2> DEFINE me == IF call.tgt = None THEN thread_current ELSE call.tgt
  <2>1. Resting /\ me = thread_current /\ call.obj \in Objects
    BY <1>3 DEF os_wait_for_object, Resting, OrderlyWaits, WaitsForObject
  <2>2. \/ pc' = "user"
        \/ /\ pc' = "wait_commit" /\ call' = [call EXCEPT !.tgt = me, !.fresh = TRUE]
           /\ RunnableIn(state, me)
    BY <1>3 DEF os_wait_for_object
  <2> HIDE DEF me
  <2>3. CASE pc' = "user"
    BY <1>0, <2>1, <2>3, RestingKeeps DEF Plain
  <2>4. CASE pc' # "user"
    <3>1. call'.tgt = thread_current /\ call'.obj = call.obj
      BY <1>0, <2>1, <2>2, <2>4 DEF Calls
    <3> QED BY <1>0, <2>1, <2>2, <2>4, <3>1, HeldKeeps DEF RunnableIn
  <2> QED BY <2>3, <2>4
<1>4. CASE os_wait_for_object_commit
  <2>0. /\ pc = "wait_commit" /\ UNCHANGED <<thread_current, thread_next, pendsv>>
        /\ call.tgt = thread_current /\ thread_current \in Threads /\ call.obj \in Objects
        /\ state[thread_current] # "WAITING" /\ call.obj # None
    BY <1>0, <1>4, NoneAssumption
       DEF os_wait_for_object_commit, OrderlyWaits, WaitsForObject, NotAmongWaiters, SwitchType
  <2>1. CASE ~call.fresh
    <3>1. Resting /\ pc' = "wait" /\ call' = call
      BY <1>4, <2>1 DEF os_wait_for_object_commit, Resting
    <3> QED BY <1>0, <2>0, <3>1, HeldKeeps
  <2>2. CASE call.fresh /\ HasPending(call.obj)
    <3>1. Resting /\ pc' = "user"
      BY <1>4, <2>0, <2>2 DEF os_wait_for_object_commit, ConsumeOrBlock, Consume, Resting
    <3> QED BY <1>0, <3>1, RestingKeeps DEF Plain
  <2>3. CASE call.fresh /\ ~HasPending(call.obj)
    <3>1. /\ waiters' = Append(waiters, thread_current) /\ pc' = "yield"
          /\ state' = [state EXCEPT ![thread_current] = "WAITING"]
          /\ wait_object' = [wait_object EXCEPT ![thread_current] = call.obj]
      BY <1>4, <2>0, <2>3 DEF os_wait_for_object_commit, ConsumeOrBlock, Block
    <3>2. WaitersAreWaiting'
      BY <1>0, <2>0, <3>1, WaitingOne DEF OrderlyWaits
    <3>3. \A t \in Threads : wait_object'[t] \notin Threads
      <4>1. call.obj \notin Threads
        BY <2>0, NoneAssumption, TableAssumption DEF Threads
      <4>2. \A t \in Threads : wait_object'[t] \in {wait_object[t], call.obj}
        BY <1>0, <3>1 DEF WaitType
      <4> QED BY <4>1, <4>2 DEF OrderlyWaits, WaitsForObject
    <3>4. NotAmongWaiters'
      BY <1>0, <2>0, <3>1 DEF OrderlyWaits, NotAmongWaiters, SwitchType, TableType
    <3> QED BY <3>1, <3>2, <3>3, <3>4 DEF OrderlyWaits, WaitsForObject, InitSteps
  <2> QED BY <2>1, <2>2, <2>3
<1> QED BY <1>1, <1>2, <1>3, <1>4

\* Every step of Kernel but the interrupts.
LEMMA OrderlyStep ==
    ASSUME WaitsEndInOrder, OrderlyWaits, Typed, KernelStep
    PROVE  OrderlyWaits'
<1>1. TypeInv /\ SwitchType
  BY KernelStepTyped DEF Typed
<1>2. CASE SVC_Handler \/ Syscall
  BY <1>1, <1>2, OrderlyCalls
<1>3. CASE PendSV
  BY <1>1, <1>3, OrderlySwitches
<1>4. CASE HandlerStep
  <2>1. pc \notin InitSteps
    BY DEF OrderlyWaits
  <2>2. ~(\/ os_initialize_waitable_object \/ os_initialize_waitable_object_commit
          \/ os_initialize_waitable_object_clear \/ os_initialize_waitable_object_clear_commit)
    BY <2>1 DEF InitSteps, os_initialize_waitable_object, os_initialize_waitable_object_commit,
                os_initialize_waitable_object_clear, os_initialize_waitable_object_clear_commit
  <2> QED BY <1>1, <1>4, <2>2, OrderlySwitches, OrderlyThreads, OrderlyNotifications DEF HandlerStep
<1> QED BY <1>2, <1>3, <1>4 DEF KernelStep

\* isr_notify_object wakes a waiter wherever it hits a handler, and may ask for a
\* switch to another thread that can run.
LEMMA OrderlyInterrupt ==
    ASSUME OrderlyWaits, Typed, isr_notify_object
    PROVE  OrderlyWaits'
<1>0. TableType /\ WaitType /\ SwitchType /\ call \in Calls
  BY DEF Typed, LocalsOK
<1>1. /\ pc' = pc /\ call' = [call EXCEPT !.fresh = (pc = "user")] /\ UNCHANGED thread_current
  BY DEF isr_notify_object, switchVars
<1>2. call'.tgt = call.tgt /\ call'.cand = call.cand /\ call'.obj = call.obj
  BY <1>0, <1>1 DEF Calls
<1>3. ASSUME NobodyStartsToWait, WaitersAreWaiting', \A t \in Threads : wait_object'[t] \notin Threads,
             pendsv' => state'[thread_next'] # "WAITING" /\ thread_next' # thread_current
      PROVE  OrderlyWaits'
  <2>1. NotAmongWaiters'
    <3>1. /\ pc \in {"kill", "stop_commit", "continue_commit", "wait_commit",
                     "stack", "stack_commit", "construct"} => call.tgt \in Threads
          /\ pc \in {"alloc_commit", "yield_commit"} => call.cand \in Threads
      BY DEF Typed, LocalsOK, CallOK
    <3> QED BY <1>1, <1>2, <1>3, <3>1 DEF OrderlyWaits, NotAmongWaiters, NobodyStartsToWait
  <2>2. WaitsForObject'
    BY <1>1, <1>2, <1>3 DEF OrderlyWaits, WaitsForObject
  <2> QED BY <1>1, <1>3, <2>1, <2>2 DEF OrderlyWaits
<1>4. PICK o \in Objects :
        LET w == os_find_notified_thread_waiter(o)
        IN  \/ w = None /\ UNCHANGED <<state, wait_object, waiters, switchVars>>
            \/ /\ w # None
               /\ os_notify_thread(waiters[w])
               /\ waiters' = ARRAY_DELETE(waiters, w)
               /\ \/ SwitchTo(os_get_next_thread(thread_current, Awakened(waiters[w]), priority))
                  \/ UNCHANGED <<thread_next, old_task, new_task, pendsv>>
  BY DEF isr_notify_object
<1> DEFINE w == os_find_notified_thread_waiter(o)
           next == os_get_next_thread(thread_current, Awakened(waiters[w]), priority)
<1>5. CASE w = None
  <2>1. Resting
    BY <1>4, <1>5 DEF Resting, switchVars
  <2>2. pendsv' => state'[thread_next'] # "WAITING" /\ thread_next' # thread_current
    BY <2>1 DEF Resting, OrderlyWaits, NotAmongWaiters
  <2> QED BY <1>3, <2>1, <2>2, RestingFacts
<1>6. CASE w # None
  <2>1. /\ os_notify_thread(waiters[w]) /\ waiters' = ARRAY_DELETE(waiters, w)
        /\ SwitchTo(next) \/ UNCHANGED <<thread_next, old_task, new_task, pendsv>>
    BY <1>4, <1>6
  <2>2. w \in DOMAIN waiters /\ state' = Awakened(waiters[w])
    BY <1>0, <1>6, <2>1, WaiterFound DEF os_notify_thread
  <2>3. next # None => RunnableIn(state', next) /\ next # thread_current
    BY <2>2, NextIsAnother
  <2> HIDE DEF w, next
  <2>4. /\ WaitersAreWaiting' /\ NobodyStartsToWait
        /\ \A u \in Threads : wait_object'[u] \notin Threads
    BY <1>0, <2>1, <2>2, WakingOrderly
  <2>5. pendsv' => state'[thread_next'] # "WAITING" /\ thread_next' # thread_current
    <3>1. CASE UNCHANGED <<thread_next, old_task, new_task, pendsv>>
      BY <1>0, <2>4, <3>1 DEF OrderlyWaits, NotAmongWaiters, NobodyStartsToWait, SwitchType
    <3>2. CASE SwitchTo(next)
      BY <2>3, <3>2 DEF SwitchTo, os_request_context_switch, RunnableIn
    <3> QED BY <2>1, <3>1, <3>2
  <2> QED BY <1>3, <2>4, <2>5
<1> QED BY <1>5, <1>6

\* Queueing an entry and taking one off do not touch the slots.
LEMMA SlotsStay ==
    ASSUME NEW tm, DOMAIN tm = {"sleepers", "queue", "size", "cursor"}, NEW offs, NEW slot, NEW time
    PROVE  /\ os_dequeue_timed_event(tm, offs).sleepers = tm.sleepers
           /\ DOMAIN os_dequeue_timed_event(tm, offs) = DOMAIN tm
           /\ os_enqueue_timed_event(tm, slot, time).sleepers = tm.sleepers
BY DEF os_dequeue_timed_event, os_enqueue_timed_event

\* Setting a timeout makes no other kind of timer.
LEMMA SetTimeout ==
    ASSUME OnlyTimeouts, timers \in Tables, NEW delay, NEW slot \in Sleepers, NEW offs,
           NEW s \in Sleepers, SetTimedEvent(timers, "TIMEOUT", delay, slot, offs).sleepers[s].armed
    PROVE  SetTimedEvent(timers, "TIMEOUT", delay, slot, offs).sleepers[s].type = "TIMEOUT"
<1> DEFINE new == [armed |-> TRUE, type |-> "TIMEOUT", thread |-> thread_current,
                   sleep_from |-> sched_microtime, interval |-> delay]
           a == [timers EXCEPT !.sleepers[slot] = new]
           r == SetTimedEvent(timers, "TIMEOUT", delay, slot, offs)
           time == After(sched_microtime, delay)
<1>0. DOMAIN timers = {"sleepers", "queue", "size", "cursor"} /\ DOMAIN timers.sleepers = Sleepers
  BY DEF Tables
<1>1. r = IF offs = None THEN os_enqueue_timed_event(a, slot, time)
          ELSE IF timers.queue[offs].resume_time = time THEN a
          ELSE os_enqueue_timed_event(os_dequeue_timed_event(a, offs), slot, time)
  BY DEF SetTimedEvent
<1>2. /\ DOMAIN a = {"sleepers", "queue", "size", "cursor"}
      /\ a.sleepers = [timers.sleepers EXCEPT ![slot] = new] /\ new.type = "TIMEOUT"
  BY <1>0
<1> HIDE DEF a, new, r, time
<1>3. r.sleepers = a.sleepers
  BY <1>1, <1>2, SlotsStay
<1>4. r.sleepers[s].armed => r.sleepers[s].type = "TIMEOUT"
  BY <1>0, <1>2, <1>3 DEF OnlyTimeouts
<1> QED BY <1>4 DEF r

\* The steps of timer.c that look, set or cancel.
LEMMA OrderlyTimers ==
    ASSUME WaitsEndInOrder, TimersInv, WaitingInv,
           \/ TimerCall \/ SysTick_timers \/ NotifyHangs \/ os_set_timed_event \/ do_set_timed_event
           \/ os_cancel_timed_event \/ os_cancel_timed_event_commit \/ os_run_timer
    PROVE  WaitingInv'
<1>0. /\ OrderlyWaits /\ OnlyTimeouts /\ SwitchType /\ call \in Calls /\ TablesOK(timers)
      /\ timers \in Tables /\ timed \in TimedLocals
  BY TimersFacts DEF WaitingInv, Typed, TablesOK
<1>1. UNCHANGED KernelTables
  BY DEF TimerCall, os_usleep, os_setitimer, os_setitimer_cancel, sys_wait_with_timeout, Arm,
         SysTick_timers, NotifyHangs, os_set_timed_event, do_set_timed_event,
         os_cancel_timed_event, os_cancel_timed_event_commit, os_run_timer
<1>2. Resting
  BY <1>1 DEF Resting, KernelTables, tableVars, waitVars, switchVars
<1>3. ASSUME pc' \in Plain PROVE OrderlyWaits'
  BY <1>0, <1>2, <1>3, RestingKeeps
<1>4. ASSUME pc' \in {"arm", "arm_commit", "wait"}, call'.obj \in Objects,
             call'.tgt \in {None, thread_current}
      PROVE  OrderlyWaits'
  <2>1. pc' \notin InitSteps
    BY <1>4 DEF InitSteps
  <2>2. NotAmongWaiters'
    BY <1>0, <1>2, <1>4 DEF OrderlyWaits, NotAmongWaiters, Resting
  <2>3. WaitsForObject'
    BY <1>0, <1>2, <1>4, RestingFacts DEF WaitsForObject, Resting
  <2> QED BY <1>0, <1>2, <2>1, <2>2, <2>3, RestingFacts DEF OrderlyWaits
<1>5. ASSUME UNCHANGED timers, pc' \in {"arm", "arm_commit"} => timed'.type = "TIMEOUT"
      PROVE  OnlyTimeouts'
  BY <1>0, <1>5 DEF OnlyTimeouts
<1>6. pc \in {"arm", "arm_commit"} =>
         timed.type = "TIMEOUT" /\ call.obj \in Objects /\ call.tgt \in {None, thread_current}
  BY <1>0 DEF OnlyTimeouts, OrderlyWaits, WaitsForObject
<1> USE DEF Goto
<1>7. CASE TimerCall
  <2>1. sys_wait_with_timeout
    BY <1>7 DEF TimerCall, WaitsEndInOrder, MaySetInterval
  <2>2. PICK o \in Objects : Arm("TIMEOUT", o)
    BY <2>1 DEF sys_wait_with_timeout
  <2>3. /\ call' = [NoCall EXCEPT !.obj = o] /\ pc' = "arm" /\ UNCHANGED timers
        /\ timed'.type = "TIMEOUT"
    BY <2>2 DEF Arm, NoTimed
  <2>4. call'.obj \in Objects /\ call'.tgt = None
    BY <2>3 DEF NoCall
  <2> QED BY <1>4, <1>5, <2>3, <2>4 DEF WaitingInv
<1>8. CASE SysTick_timers \/ NotifyHangs \/ os_run_timer \/ os_cancel_timed_event
  <2>1. UNCHANGED timers /\ pc' \in Plain /\ pc' \notin {"arm", "arm_commit"}
    BY <1>8 DEF SysTick_timers, NotifyHangs, os_run_timer, os_cancel_timed_event, Spin, Found, Plain
  <2> QED BY <1>3, <1>5, <2>1 DEF WaitingInv
<1>9. CASE os_set_timed_event
  <2>1. UNCHANGED timers /\ pc = "arm"
    BY <1>9 DEF os_set_timed_event
  <2>2. \/ pc' = "stuck"
        \/ /\ Found(None, "arm_commit") /\ \E slot, offs : timed' = [timed EXCEPT !.slot = slot, !.offs = offs]
    BY <1>9 DEF os_set_timed_event, Spin
  <2>3. CASE pc' = "stuck"
    BY <1>3, <1>5, <2>1, <2>3 DEF WaitingInv, Plain
  <2>4. CASE pc' # "stuck"
    <3>1. pc' = "arm_commit" /\ call'.obj = call.obj /\ call'.tgt = call.tgt /\ timed'.type = timed.type
      BY <1>0, <2>2, <2>4 DEF Found, Calls, TimedLocals
    <3> QED BY <1>4, <1>5, <1>6, <2>1, <3>1 DEF WaitingInv
  <2> QED BY <2>3, <2>4
<1>10. CASE do_set_timed_event
  <2>0. pc = "arm_commit" /\ timed.type = "TIMEOUT" /\ timed.slot \in Sleepers
    BY <1>0, <1>6, <1>10 DEF do_set_timed_event, TimedLocals
  <2>1. CASE ~call.fresh
    <3>1. pc' = "arm" /\ UNCHANGED <<timers, timed, call>>
      BY <1>10, <2>1 DEF do_set_timed_event
    <3> QED BY <1>4, <1>5, <1>6, <2>0, <3>1 DEF WaitingInv
  <2>2. CASE call.fresh
    <3>1. /\ timers' = SetTimedEvent(timers, "TIMEOUT", timed.delay, timed.slot, timed.offs)
          /\ AfterArming
      BY <1>10, <2>0, <2>2 DEF do_set_timed_event
    <3>2. pc' = "wait" /\ call' = call
      BY <2>0, <3>1 DEF AfterArming
    <3>3. \A s \in Sleepers : timers'.sleepers[s].armed => timers'.sleepers[s].type = "TIMEOUT"
      BY <1>0, <2>0, <3>1, SetTimeout
    <3>4. OnlyTimeouts'
      BY <3>2, <3>3 DEF OnlyTimeouts
    <3> QED BY <1>4, <1>6, <2>0, <3>2, <3>4 DEF WaitingInv
  <2> QED BY <2>1, <2>2
<1>11. CASE os_cancel_timed_event_commit
  <2>1. pc' \in Plain /\ pc' \notin {"arm", "arm_commit"}
    BY <1>11 DEF os_cancel_timed_event_commit, Return, Plain
  <2>2. UNCHANGED timers \/ timers' = os_cancel_sleeper(timers, timed.offs)
    BY <1>11 DEF os_cancel_timed_event_commit
  <2>3. timed.offs \in {None} \cup 0 .. Hangs
    <3>1. timed.offs \in {None} \cup 0 .. SLEEPERS_MAX
      BY <1>0 DEF TimedLocals
    <3> QED BY <3>1, TimerAssumption DEF Hangs
  <2>4. \A s \in Sleepers : timers'.sleepers[s].armed => timers'.sleepers[s] = timers.sleepers[s]
    BY <1>0, <2>2, <2>3, CancelKeeps
  <2>5. OnlyTimeouts'
    BY <1>0, <2>1, <2>4 DEF OnlyTimeouts
  <2> QED BY <1>3, <2>1, <2>5 DEF WaitingInv
<1> QED BY <1>7, <1>8, <1>9, <1>10, <1>11

\* A timeout that fires ends the wait and takes the thread off the list.
LEMMA OrderlyFiring ==
    ASSUME TimersInv, WakeupInv, WaitingInv, os_run_timer_commit
    PROVE  WaitingInv'
<1> DEFINE sleeper == timers.sleepers[timers.queue[timers.cursor].entry_id]
           t == sleeper.thread
<1>0. /\ OrderlyWaits /\ OnlyTimeouts /\ TableType /\ WaitType /\ SwitchType /\ TablesOK(timers)
      /\ timers \in Tables
  BY TimersFacts DEF WaitingInv, Typed, TablesOK
<1>1. /\ UNCHANGED <<thread_current, thread_next, pendsv>>
      /\ pc' \in Plain /\ pc' \notin {"arm", "arm_commit"}
  BY DEF os_run_timer_commit, switchVars, Goto, EndOfRun, Plain
<1>2. CASE UNCHANGED <<timers, state, wait_object, waiters>>
  <2>1. OrderlyWaits'
    BY <1>0, <1>1, <1>2, RestingKeeps DEF Resting
  <2> QED BY <1>0, <1>1, <1>2, <2>1 DEF WaitingInv, OnlyTimeouts
<1>3. CASE ~UNCHANGED <<timers, state, wait_object, waiters>>
  <2>1. /\ CursorOnSleeper /\ timers' = Fired(sleeper)
        /\ IF sleeper.type = "TIMEOUT" THEN FireTimeout(t) ELSE FireSleeper(t)
    BY <1>3 DEF os_run_timer_commit
  <2>2. /\ timers.cursor \in Used(timers) /\ timers.cursor \in {None} \cup 0 .. Hangs
        /\ timers.queue[timers.cursor].entry_id \in Sleepers
    <3>1. /\ timers.cursor \in Nat /\ timers.size \in Nat /\ timers.cursor <= SLEEPERS_MAX
          /\ SLEEPERS_MAX \in Nat /\ timers.cursor < timers.size
      BY <1>0, <2>1, TableFields DEF CursorOnSleeper
    <3>2. timers.cursor \in Used(timers) /\ timers.cursor \in {None} \cup 0 .. Hangs
      BY <3>1 DEF Used, Hangs
    <3> QED BY <1>0, <3>2, TableFields
  <2>3. sleeper.type = "TIMEOUT" /\ t \in Threads
    BY <1>0, <2>1, <2>2 DEF OnlyTimeouts, CursorOnSleeper, Tables
  <2>4. FireTimeout(t)
    BY <2>1, <2>3
  <2>5. OnlyTimeouts'
    <3> DEFINE tm == os_cancel_sleeper(timers, timers.cursor)
    <3>1. /\ \A s \in Sleepers : tm.sleepers[s].armed => tm.sleepers[s] = timers.sleepers[s]
          /\ tm \in Tables
      BY <1>0, <2>2, CancelKeeps DEF TablesOK
    <3>2. timers' = IF tm.size > 0 THEN [tm EXCEPT !.cursor = (@ + 1) % tm.size] ELSE tm
      BY <2>1, <2>3 DEF Fired
    <3> HIDE DEF tm
    <3>3. timers'.sleepers = tm.sleepers
      BY <3>1, <3>2 DEF Tables
    <3> QED BY <1>0, <1>1, <3>1, <3>3 DEF OnlyTimeouts
  <2> HIDE DEF t
  <2>6. CASE wait_object[t] = None
    <3>1. UNCHANGED <<state, wait_object, waiters>>
      BY <2>4, <2>6 DEF FireTimeout
    <3>2. OrderlyWaits'
      BY <1>0, <1>1, <3>1, RestingKeeps DEF Resting
    <3> QED BY <2>5, <3>2 DEF WaitingInv
  <2>7. CASE wait_object[t] # None
    <3>1. \E i \in DOMAIN waiters : waiters[i] = t
      BY <2>3, <2>7 DEF WakeupInv, WaitersAreFound
    <3>2. wait_object[t] \in Objects
      BY <1>0, <2>3, <2>7 DEF WaitType, OrderlyWaits, WaitsForObject
    <3>3. WaiterOf(t) \in DOMAIN waiters /\ waiters[WaiterOf(t)] = t
      BY <1>0, <3>1, WaiterOfIn
    <3>4. os_notify_thread(t) /\ waiters' = ARRAY_DELETE(waiters, WaiterOf(t))
      BY <2>4, <2>7, <3>1, <3>2 DEF FireTimeout
    <3>5. /\ WaitersAreWaiting' /\ NobodyStartsToWait
          /\ \A u \in Threads : wait_object'[u] \notin Threads
      BY <1>0, <3>3, <3>4, WakingOrderly
    <3>6. OrderlyWaits'
      BY <1>0, <1>1, <3>5, PlainKeeps
    <3> QED BY <2>5, <3>6 DEF WaitingInv
  <2> QED BY <2>6, <2>7
<1> QED BY <1>2, <1>3

\* Every step of the kernel with its timers.
LEMMA WaitingStep ==
    ASSUME WaitsEndInOrder, TimersInv, WakeupInv, WaitingInv, [TimersNext]_allVars
    PROVE  WaitingInv'
<1>0. OrderlyWaits /\ OnlyTimeouts /\ Typed /\ SwitchType
  BY TimersFacts DEF WaitingInv, Typed
<1>1. ASSUME CancelTimeout \/ UNCHANGED timers, UNCHANGED timed,
             pc' \in {"arm", "arm_commit"} => pc' = pc
      PROVE  OnlyTimeouts'
  <2>1. \A s \in Sleepers : timers'.sleepers[s].armed => timers'.sleepers[s] = timers.sleepers[s]
    BY <1>1, TimedKeeps
  <2> QED BY <1>0, <1>1, <2>1 DEF OnlyTimeouts
<1>2. CASE Timed(SVC_Handler) \/ Timed(Syscall) \/ Timed(HandlerStep) \/ Timed(PendSV)
  <2>1. KernelStep /\ (CancelTimeout \/ UNCHANGED timers) /\ UNCHANGED timed
    BY <1>2 DEF Timed, KernelStep
  <2>2. pc' \in Steps
    BY <1>0, <2>1, KernelStepTyped
  <2>3. OnlyTimeouts'
    BY <1>1, <2>1, <2>2 DEF Steps, Timed
  <2> QED BY <1>0, <2>1, <2>3, OrderlyStep DEF WaitingInv
<1>3. CASE Timed(Interrupt)
  <2>1. isr_notify_object /\ (CancelTimeout \/ UNCHANGED timers) /\ UNCHANGED timed
    BY <1>3 DEF Timed, Interrupt, WaitsEndInOrder
  <2>2. pc' = pc
    BY <2>1 DEF isr_notify_object
  <2> QED BY <1>0, <1>1, <2>1, <2>2, OrderlyInterrupt DEF WaitingInv
<1>4. CASE \/ TimerCall \/ SysTick_timers \/ NotifyHangs \/ os_set_timed_event \/ do_set_timed_event
           \/ os_cancel_timed_event \/ os_cancel_timed_event_commit \/ os_run_timer
  BY <1>4, OrderlyTimers
<1>5. CASE os_run_timer_commit
  BY <1>5, OrderlyFiring
<1>6. CASE UNCHANGED allVars
  <2>1. Resting /\ UNCHANGED <<pc, call, timers, timed>>
    BY <1>6 DEF allVars, vars, timerVars, tableVars, waitVars, switchVars, Resting
  <2>2. NotAmongWaiters' /\ WaitsForObject' /\ OnlyTimeouts'
    BY <1>0, <2>1 DEF OrderlyWaits, NotAmongWaiters, WaitsForObject, OnlyTimeouts, Resting
  <2> QED BY <1>0, <2>1, <2>2, RestingFacts DEF WaitingInv, OrderlyWaits
<1> QED BY <1>2, <1>3, <1>4, <1>5, <1>6 DEF TimersNext, TimerStep, Spinning

\* At start nobody waits.
LEMMA WaitingStart == TimersInit => WaitingInv
<1> SUFFICES ASSUME TimersInit PROVE WaitingInv
  OBVIOUS
<1>1. Init /\ \A s \in Sleepers : ~timers.sleepers[s].armed
  BY DEF TimersInit, os_timer_init, NoSleeper
<1>2. /\ wait_object = [t \in Threads |-> None] /\ waiters = <<>> /\ pendsv = FALSE /\ pc = "user"
  BY <1>1 DEF Init
<1>3. \A t \in Threads : state[t] # "WAITING"
  <2> DEFINE st == [t \in Threads |-> IF t <= IdleThread THEN "READY" ELSE "EMPTY"]
  <2>1. \E first : state = [st EXCEPT ![first] = "RUNNING"]
    BY <1>1 DEF Init
  <2> QED BY <2>1
<1>4. WaitersAreWaiting
  BY <1>2, <1>3 DEF WaitersAreWaiting
<1>5. None \notin Threads
  BY NoneAssumption, TableAssumption DEF Threads
<1> QED BY <1>1, <1>2, <1>4, <1>5
           DEF WaitingInv, OrderlyWaits, NotAmongWaiters, WaitsForObject, OnlyTimeouts, InitSteps

\* The waiter list is exact for any tables and delays, with notifications from threads
\* and from device interrupts and with timeouts that fire beside them: every waiting
\* thread is listed once and nobody else is, whichever of the two ends a wait.
THEOREM TimedWaitersAreListed ==
    ASSUME WaitsEndInOrder
    PROVE  TimersSpec => []WaitersAreWaiting
<1> DEFINE I == TimersInv /\ WakeupInv /\ WaitingInv
<1>1. I => WaitersAreWaiting
  BY DEF WaitingInv, OrderlyWaits
<1>2. I /\ [TimersNext]_allVars => I'
  <2>1. IntervalsSetOnce
    BY DEF WaitsEndInOrder, IntervalsSetOnce
  <2> QED BY <2>1, TimersStep, TimersWakeup, WaitingStep
<1>3. TimersInit => I
  BY TimersStart, WakeupInit, WaitingStart DEF TimersInit
<1> QED BY <1>1, <1>2, <1>3, PTL DEF TimersSpec
==============================================================================
