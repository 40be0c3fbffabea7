------------------------------- MODULE Mutex -------------------------------
(***************************************************************************)
(* Futexes (src/lib/arch/arm/mutex.c, src/lib/arch/riscv/mutex.c): one     *)
(* futex, shared by the threads of a process that may be preempted at any  *)
(* instruction that touches it.                                            *)
(*                                                                         *)
(* A system call is one step: threads do not preempt it, and device        *)
(* interrupts have no business with a futex.  What the steps inside of     *)
(* wait_for_object and notify_object do is the matter of module Kernel.    *)
(***************************************************************************)
EXTENDS Integers, FiniteSets

CONSTANTS
    Users,      \* threads that share the futex
    NoOne,      \* 0xFF: the futex has no owner
    Archs,      \* builds to look at
    TryArchs    \* builds whose application uses futex_trylock

Architectures == {"ARMv7-M", "ARMv6-M", "RISC-V"}

ASSUME MutexAssumption == NoOne \notin Users /\ Archs \subseteq Architectures

VARIABLES
    arch,       \* the build
    state,      \* futex->state
    owner,      \* futex->owner
    monitor,    \* the thread whose load the exclusive monitor still covers
    waiting,    \* threads in os_notification_waiters for &futex->state
    pc,         \* step of each thread
    loaded,     \* the state it has loaded
    trying      \* threads that are in futex_trylock

futexVars == <<state, owner>>
vars == <<arch, state, owner, monitor, waiting, pc, loaded, trying>>

Init ==
    /\ arch \in Archs
    /\ state = 0
    /\ owner = NoOne
    /\ monitor = NoOne
    /\ waiting = {}
    /\ pc = [t \in Users |-> "idle"]
    /\ loaded = [t \in Users |-> 0]
    /\ trying = {}

------------------------------------------------------------------------------
(***************************************************************************)
(* Exclusive accesses.  An exception clears the monitor, so that a         *)
(* conditional store fails if another thread ran since the load.  The      *)
(* exception alone is enough: any conditional store may fail.              *)
(***************************************************************************)

Goto(t, step) == pc' = [pc EXCEPT ![t] = step]

\* The monitor after a step of t that is not an exclusive access.
Ran(t) == monitor' = IF monitor = t THEN t ELSE NoOne

LoadExclusive(t) == monitor' = t /\ loaded' = [loaded EXCEPT ![t] = state]

\* Mutant: the store does not look at the monitor.
StoreAlways(t, value) == state' = value

StoreExclusive(t, value) == monitor = t /\ state' = value

\* The store fails, or a state was loaded that needs no store; CLREX.
NoStore(t) == monitor' = NoOne /\ UNCHANGED futexVars

------------------------------------------------------------------------------
(***************************************************************************)
(* futex_lock and futex_trylock                                            *)
(***************************************************************************)

FirstStep == IF arch = "ARMv6-M" THEN "lock_call" ELSE "lock_load"

\* futex_lock is called.
futex_lock(t) ==
    /\ pc[t] = "idle"
    /\ Goto(t, FirstStep)
    /\ Ran(t)
    /\ UNCHANGED <<arch, futexVars, waiting, loaded, trying>>

futex_trylock(t) ==
    /\ pc[t] = "idle"
    /\ arch \in TryArchs
    /\ Goto(t, FirstStep)
    /\ trying' = trying \cup {t}
    /\ Ran(t)
    /\ UNCHANGED <<arch, futexVars, waiting, loaded>>

\* __futex_fast_lock has failed: futex_trylock returns, futex_lock waits.
LockFailed(t) ==
    /\ Goto(t, IF t \in trying THEN "idle" ELSE "lock_wait")
    /\ trying' = trying \ {t}

LockLoad(t) ==
    /\ pc[t] = "lock_load"
    /\ LoadExclusive(t)
    /\ Goto(t, "lock_store")
    /\ UNCHANGED <<arch, futexVars, waiting, trying>>

\* RISC-V stores state and owner as one word, ARM the owner afterwards.
LockStored(t) ==
    /\ pc[t] = "lock_store"
    /\ loaded[t] = 0
    /\ StoreExclusive(t, loaded[t] + 1)
    /\ monitor' = NoOne
    /\ IF arch = "RISC-V"
       THEN Goto(t, "held") /\ owner' = t /\ trying' = trying \ {t}
       ELSE Goto(t, "lock_owner") /\ UNCHANGED <<owner, trying>>
    /\ UNCHANGED <<arch, waiting, loaded>>

LockNotStored(t) ==
    /\ pc[t] = "lock_store"
    /\ NoStore(t)
    /\ LockFailed(t)
    /\ UNCHANGED <<arch, waiting, loaded>>

LockOwner(t) ==
    /\ pc[t] = "lock_owner"
    /\ owner' = t
    /\ Goto(t, "held")
    /\ trying' = trying \ {t}
    /\ Ran(t)
    /\ UNCHANGED <<arch, state, waiting, loaded>>

\* The ARMv6-M lock: wait_for_object_value with NOTIFY_VALUE_INCREMENT.  Once it
\* had to wait, the caller is told that the lock failed, futex_trylock included.
LockCall(t) ==
    /\ pc[t] = "lock_call"
    /\ monitor' = NoOne
    /\ IF state = 0
       THEN state' = 1 /\ Goto(t, "lock_owner") /\ UNCHANGED waiting
       ELSE waiting' = waiting \cup {t} /\ Goto(t, "lock_failed") /\ UNCHANGED state
    /\ UNCHANGED <<arch, owner, loaded, trying>>

\* The wait inside of the ARMv6-M lock is over.
LockCallReturns(t) ==
    /\ pc[t] = "lock_failed" /\ t \notin waiting
    /\ LockFailed(t)
    /\ Ran(t)
    /\ UNCHANGED <<arch, futexVars, waiting, loaded>>

\* Mutant: the caller waits whatever the state is.
WaitAlways(t) == waiting' = waiting \cup {t}

\* os_sys_wait_for_object_value(&futex->state, 0, ...).
wait_for_object_value(t) ==
    waiting' = IF state = 0 THEN waiting ELSE waiting \cup {t}

LockWait(t) ==
    /\ pc[t] = "lock_wait"
    /\ wait_for_object_value(t)
    /\ Goto(t, "lock_retry")
    /\ monitor' = NoOne
    /\ UNCHANGED <<arch, futexVars, loaded, trying>>

LockRetry(t) ==
    /\ pc[t] = "lock_retry" /\ t \notin waiting
    /\ Goto(t, FirstStep)
    /\ Ran(t)
    /\ UNCHANGED <<arch, futexVars, waiting, loaded, trying>>

------------------------------------------------------------------------------
(***************************************************************************)
(* futex_unlock, called by the thread that has the lock                    *)
(***************************************************************************)

futex_unlock(t) ==
    /\ pc[t] = "held"
    /\ Goto(t, "unlock_load")
    /\ Ran(t)
    /\ UNCHANGED <<arch, futexVars, waiting, loaded, trying>>

UnlockLoad(t) ==
    /\ pc[t] = "unlock_load"
    /\ LoadExclusive(t)
    /\ Goto(t, "unlock_store")
    /\ UNCHANGED <<arch, futexVars, waiting, trying>>

\* ARMv6-M has no exclusive store; RISC-V checks the owner.
UnlockStored(t) ==
    /\ pc[t] = "unlock_store"
    /\ loaded[t] > 0
    /\ arch = "RISC-V" => owner = t
    /\ IF arch = "ARMv6-M" THEN state' = loaded[t] - 1 ELSE StoreExclusive(t, loaded[t] - 1)
    /\ monitor' = NoOne
    /\ Goto(t, "notify")
    /\ UNCHANGED <<arch, owner, waiting, loaded, trying>>

UnlockNotStored(t) ==
    /\ pc[t] = "unlock_store"
    /\ arch # "ARMv6-M" \/ loaded[t] = 0
    /\ NoStore(t)
    /\ Goto(t, "unlock_load")
    /\ UNCHANGED <<arch, waiting, loaded, trying>>

\* Mutant: nobody is woken.
NotifyNobody(t) == UNCHANGED waiting

\* notify_object2(&futex->state, NOTIFY_PRIORITY_DROP) wakes one of the waiters;
\* it records nothing if there is none.
notify_object2(t) ==
    \/ waiting = {} /\ UNCHANGED waiting
    \/ \E w \in waiting : waiting' = waiting \ {w}

UnlockNotify(t) ==
    /\ pc[t] = "notify"
    /\ notify_object2(t)
    /\ Goto(t, "idle")
    /\ monitor' = NoOne
    /\ UNCHANGED <<arch, futexVars, loaded, trying>>

------------------------------------------------------------------------------
\* futex_init and futex_destroy, which the application calls while no thread
\* uses the futex.
futex_init ==
    /\ \A t \in Users : pc[t] = "idle"
    /\ state' = 0
    /\ owner' = NoOne
    /\ monitor' = NoOne
    /\ UNCHANGED <<arch, waiting, pc, loaded, trying>>

Lock(t) ==
    \/ LockLoad(t) \/ LockStored(t) \/ LockNotStored(t) \/ LockOwner(t)
    \/ LockCall(t) \/ LockCallReturns(t) \/ LockWait(t) \/ LockRetry(t)

Unlock(t) == UnlockLoad(t) \/ UnlockStored(t) \/ UnlockNotStored(t) \/ UnlockNotify(t)

Step(t) == Lock(t) \/ futex_unlock(t) \/ Unlock(t)

Next == futex_init \/ \E t \in Users : futex_lock(t) \/ futex_trylock(t) \/ Step(t)

Spec == Init /\ [][Next]_vars

\* A thread that is in the middle of a call goes on and one that has the lock
\* gives it back, for threads of one priority take turns.  Exceptions are rarer
\* than instructions: a store that is retried for ever is not interrupted every
\* time.
FairSpec ==
    /\ Spec
    /\ \A t \in Users : WF_vars(Step(t)) /\ SF_vars(LockStored(t)) /\ SF_vars(UnlockStored(t))

------------------------------------------------------------------------------
(***************************************************************************)
(* Properties.                                                             *)
(***************************************************************************)

LockSteps == {"lock_load", "lock_store", "lock_call", "lock_failed", "lock_wait", "lock_retry"}
HoldSteps == {"lock_owner", "held", "unlock_load", "unlock_store"}

Has(t) == pc[t] \in HoldSteps

TypeOK ==
    /\ arch \in Archs
    /\ state \in {0, 1}
    /\ owner \in Users \cup {NoOne}
    /\ monitor \in Users \cup {NoOne}
    /\ waiting \in SUBSET Users
    /\ pc \in [Users -> {"idle", "notify"} \cup LockSteps \cup HoldSteps]
    /\ loaded \in [Users -> {0, 1}]
    /\ trying \in SUBSET Users

\* The state says whether a thread has the futex and at most one has it, at
\* every instruction of a lock or an unlock that was preempted; from the return of
\* the lock to the store of the unlock the owner field names that thread.
MutualExclusion ==
    /\ \A t, u \in Users : Has(t) /\ Has(u) => t = u
    /\ state = IF \E t \in Users : Has(t) THEN 1 ELSE 0
    /\ \A t \in Users : Has(t) /\ pc[t] # "lock_owner" => owner = t

\* No thread sleeps on a futex it could have without someone left to wake it:
\* there is an owner, a notification under way, or a thread that was woken or
\* came later and is about to lock it, which will notify in its turn.
SleeperHasWaker ==
    waiting # {} =>
        \/ \E t \in Users : Has(t) \/ pc[t] = "notify"
        \/ \E t \in Users \ waiting : pc[t] \in LockSteps /\ t \notin trying

StatusAt(step) ==
    IF step \in HoldSteps THEN "holding" ELSE IF step \in LockSteps THEN "asking" ELSE "idle"

Status == [t \in Users |-> StatusAt(pc[t])]

Promise == INSTANCE Lock WITH status <- Status

\* Preempted anywhere, the code does what a lock does: a thread gets it only
\* while nobody has it, and loses it only by unlocking.
ImplementsLock == Promise!Spec

\* While threads ask for the futex it keeps being handed out: they do not all
\* sleep, and no two of them make each other fail for ever.
Progress ==
    (\E t \in Users : pc[t] \in LockSteps /\ t \notin trying) ~> (\E t \in Users : Has(t))
==============================================================================
