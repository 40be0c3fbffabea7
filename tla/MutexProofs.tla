---------------------------- MODULE MutexProofs ----------------------------
(***************************************************************************)
(* Proofs about futexes, for any number of threads and every build: the    *)
(* futex excludes, it implements module Lock, and nobody sleeps on it      *)
(* without someone left to wake it.                                        *)
(***************************************************************************)
EXTENDS Mutex, TLAPS

\* What a thread that is about to store knows: the monitor still covers its load
\* only if the state has not changed, and nobody changes the state of a futex
\* that is held.
LoadIsCurrent ==
    /\ \A t \in Users : monitor = t /\ pc[t] \in {"lock_store", "unlock_store"} => loaded[t] = state
    /\ \A t \in Users : pc[t] = "unlock_store" => loaded[t] = 1

Inv == TypeOK /\ MutualExclusion /\ LoadIsCurrent

LEMMA InitInv == Init => Inv
  BY MutexAssumption DEF Init, Inv, TypeOK, MutualExclusion, LoadIsCurrent, Has, HoldSteps, LockSteps

LEMMA NextInv == Inv /\ [Next]_vars => Inv'
  <1> SUFFICES ASSUME Inv, [Next]_vars PROVE Inv'
    OBVIOUS
  <1> USE MutexAssumption DEF Inv, TypeOK, MutualExclusion, LoadIsCurrent, Has, HoldSteps, LockSteps,
            Goto, Ran, LoadExclusive, StoreExclusive, NoStore, futexVars, FirstStep, LockFailed
  <1>1. CASE UNCHANGED vars
    BY <1>1 DEF vars
  <1>2. CASE futex_init
    BY <1>2 DEF futex_init
  <1>3. ASSUME NEW t \in Users, futex_lock(t) \/ futex_trylock(t) PROVE Inv'
    BY <1>3 DEF futex_lock, futex_trylock
  <1>4. ASSUME NEW t \in Users, LockLoad(t) PROVE Inv'
    BY <1>4 DEF LockLoad
  <1>5. ASSUME NEW t \in Users, LockStored(t) PROVE Inv'
    BY <1>5 DEF LockStored
  <1>6. ASSUME NEW t \in Users, LockNotStored(t) PROVE Inv'
    BY <1>6 DEF LockNotStored
  <1>7. ASSUME NEW t \in Users, LockOwner(t) PROVE Inv'
    BY <1>7 DEF LockOwner
  <1>8. ASSUME NEW t \in Users, LockCall(t) PROVE Inv'
    BY <1>8 DEF LockCall
  <1>9. ASSUME NEW t \in Users, LockCallReturns(t) PROVE Inv'
    BY <1>9 DEF LockCallReturns
  <1>10. ASSUME NEW t \in Users, LockWait(t) \/ LockRetry(t) PROVE Inv'
    BY <1>10 DEF LockWait, LockRetry, wait_for_object_value
  <1>11. ASSUME NEW t \in Users, futex_unlock(t) \/ UnlockLoad(t) PROVE Inv'
    BY <1>11 DEF futex_unlock, UnlockLoad
  <1>12. ASSUME NEW t \in Users, UnlockStored(t) PROVE Inv'
    BY <1>12 DEF UnlockStored
  <1>13. ASSUME NEW t \in Users, UnlockNotStored(t) PROVE Inv'
    BY <1>13 DEF UnlockNotStored
  <1>14. ASSUME NEW t \in Users, UnlockNotify(t) PROVE Inv'
    BY <1>14 DEF UnlockNotify, notify_object2
  <1> QED
    BY <1>1, <1>2, <1>3, <1>4, <1>5, <1>6, <1>7, <1>8, <1>9, <1>10, <1>11, <1>12, <1>13, <1>14
    DEF Next, Step, Lock, Unlock

\* TypeOK, MutualExclusion and LoadIsCurrent hold of every reachable state.
THEOREM InvHolds == Spec => []Inv
  BY InitInv, NextInv, PTL DEF Spec

\* At most one thread is between the store that locks the futex and the one that
\* unlocks it, wherever the threads are preempted, on every build.
THEOREM FutexExcludes == Spec => []MutualExclusion
  <1>1. Inv => MutualExclusion
    BY DEF Inv
  <1> QED
    BY <1>1, InvHolds, PTL

------------------------------------------------------------------------------
(***************************************************************************)
(* Refinement of Lock.  Most steps leave the status of every thread alone. *)
(***************************************************************************)

LEMMA InitRefines == Init => Promise!Init
  BY DEF Init, Promise!Init, Status, StatusAt, HoldSteps, LockSteps

\* A step that moves one thread changes at most the status of that thread.
LEMMA StatusOfOne ==
    ASSUME TypeOK, NEW t \in Users, NEW step, Goto(t, step)
    PROVE  Status' = [Status EXCEPT ![t] = StatusAt(step)]
  BY DEF TypeOK, Goto, Status

LEMMA StatusIs ==
    ASSUME NEW t \in Users
    PROVE  /\ Status[t] = StatusAt(pc[t])
           /\ Status \in [Users -> {"holding", "asking", "idle"}]
  BY DEF Status, StatusAt

LEMMA NextRefines == Inv /\ [Next]_vars => [Promise!Next]_Status
  <1> SUFFICES ASSUME Inv, [Next]_vars PROVE Promise!Next \/ Status' = Status
    BY DEF Promise!Next
  <1> USE DEF Inv, StatusAt, HoldSteps, LockSteps
  <1>1. CASE UNCHANGED vars
    BY <1>1 DEF vars, Status
  <1>2. CASE futex_init
    BY <1>2 DEF futex_init, Status
  <1>3. ASSUME NEW t \in Users, futex_lock(t) \/ futex_trylock(t) PROVE Promise!Request(t)
    BY <1>3, StatusOfOne, StatusIs DEF futex_lock, futex_trylock, FirstStep, Promise!Request
  <1>4. ASSUME NEW t \in Users,
               \/ LockLoad(t) \/ LockWait(t) \/ LockRetry(t)
               \/ futex_unlock(t) \/ UnlockLoad(t) \/ UnlockNotStored(t) \/ UnlockNotify(t)
               \/ LockOwner(t)
        PROVE  Status' = Status
    BY <1>4, StatusOfOne, StatusIs
    DEF LockLoad, LockWait, LockRetry, futex_unlock, UnlockLoad, UnlockNotStored, UnlockNotify,
        LockOwner, FirstStep
  <1>5. ASSUME NEW t \in Users, LockStored(t) \/ LockCall(t) PROVE Promise!Next \/ Status' = Status
    <2>1. CASE pc'[t] \in HoldSteps
      <3>1. state = 0 /\ pc[t] \in LockSteps /\ \E step \in HoldSteps : Goto(t, step)
        BY <1>5, <2>1 DEF LockStored, LockCall, TypeOK, LoadIsCurrent, StoreExclusive, Goto
      <3>2. \A v \in Users : ~Has(v)
        BY <3>1 DEF MutualExclusion
      <3>3. Promise!Acquire(t)
        BY <3>1, <3>2, StatusOfOne, StatusIs DEF Has, Promise!Acquire
      <3> QED
        BY <3>3 DEF Promise!Next
    <2>2. CASE pc'[t] \notin HoldSteps
      BY <1>5, <2>2, StatusOfOne, StatusIs DEF LockStored, LockCall, TypeOK, Goto
    <2> QED
      BY <2>1, <2>2
  <1>6. ASSUME NEW t \in Users, LockNotStored(t) \/ LockCallReturns(t)
        PROVE  Promise!Fail(t) \/ Status' = Status
    BY <1>6, StatusOfOne, StatusIs DEF LockNotStored, LockCallReturns, LockFailed, Promise!Fail
  <1>7. ASSUME NEW t \in Users, UnlockStored(t) PROVE Promise!Release(t)
    BY <1>7, StatusOfOne, StatusIs DEF UnlockStored, Promise!Release
  <1> QED
    BY <1>1, <1>2, <1>3, <1>4, <1>5, <1>6, <1>7
    DEF Next, Step, Lock, Unlock, Promise!Next

\* Preempted anywhere, futex_lock, futex_trylock and futex_unlock do what a lock
\* does: they implement module Lock.
THEOREM FutexImplementsLock == Spec => ImplementsLock
  BY InitRefines, NextRefines, InvHolds, PTL DEF Spec, ImplementsLock, Promise!Spec

------------------------------------------------------------------------------
(***************************************************************************)
(* Sleepers and their wakers.                                              *)
(***************************************************************************)

\* Where threads sleep, and that no thread in futex_trylock does: only the
\* ARMv6-M build sleeps within __futex_fast_lock.
SleepersLocked ==
    /\ \A t \in waiting : pc[t] \in {"lock_failed", "lock_retry"}
    /\ \A t \in Users : pc[t] \in {"lock_call", "lock_failed"} => arch = "ARMv6-M"
    /\ trying # {} => arch \in TryArchs
    /\ \A t \in trying : pc[t] \in {"lock_load", "lock_store", "lock_owner"}

SleepInv == Inv /\ SleepersLocked /\ SleeperHasWaker

LEMMA InitSleepInv == Init => SleepInv
  BY InitInv DEF Init, SleepInv, SleepersLocked, SleeperHasWaker

LEMMA NextSleepersLocked ==
    ASSUME "ARMv6-M" \notin TryArchs, Inv, SleepersLocked, [Next]_vars
    PROVE  SleepersLocked'
  <1> USE DEF Inv, TypeOK, SleepersLocked, Goto, LockSteps, HoldSteps
  <1>1. CASE UNCHANGED vars
    BY <1>1 DEF vars
  <1>2. CASE futex_init
    BY <1>2 DEF futex_init
  <1>3. ASSUME NEW t \in Users, futex_lock(t) \/ futex_trylock(t) PROVE SleepersLocked'
    BY <1>3 DEF futex_lock, futex_trylock, FirstStep
  <1>4. ASSUME NEW t \in Users, LockLoad(t) \/ LockStored(t) \/ LockOwner(t) PROVE SleepersLocked'
    BY <1>4 DEF LockLoad, LockStored, LockOwner
  <1>5. ASSUME NEW t \in Users, LockNotStored(t) \/ LockCallReturns(t) PROVE SleepersLocked'
    BY <1>5 DEF LockNotStored, LockCallReturns, LockFailed
  <1>6. ASSUME NEW t \in Users, LockCall(t) PROVE SleepersLocked'
    BY <1>6 DEF LockCall
  <1>7. ASSUME NEW t \in Users, LockWait(t) PROVE SleepersLocked'
    BY <1>7 DEF LockWait, wait_for_object_value
  <1>8. ASSUME NEW t \in Users, LockRetry(t) PROVE SleepersLocked'
    BY <1>8 DEF LockRetry, FirstStep
  <1>9. ASSUME NEW t \in Users, futex_unlock(t) \/ UnlockLoad(t) \/ UnlockStored(t) \/ UnlockNotStored(t)
        PROVE  SleepersLocked'
    BY <1>9 DEF futex_unlock, UnlockLoad, UnlockStored, UnlockNotStored
  <1>10. ASSUME NEW t \in Users, UnlockNotify(t) PROVE SleepersLocked'
    BY <1>10 DEF UnlockNotify, notify_object2
  <1> QED
    BY <1>1, <1>2, <1>3, <1>4, <1>5, <1>6, <1>7, <1>8, <1>9, <1>10 DEF Next, Step, Lock, Unlock

\* Either the step makes a waker of its thread, or the wakers there were remain.
LEMMA NextSleeperHasWaker ==
    ASSUME "ARMv6-M" \notin TryArchs, SleepInv, [Next]_vars
    PROVE  SleeperHasWaker'
  <1> USE DEF SleepInv, Inv, TypeOK, SleepersLocked, SleeperHasWaker, Has, Goto, LockSteps, HoldSteps
  <1>1. CASE UNCHANGED vars
    BY <1>1 DEF vars
  <1>2. CASE futex_init
    BY <1>2 DEF futex_init
  <1>3. ASSUME NEW t \in Users, futex_lock(t) \/ futex_trylock(t) PROVE SleeperHasWaker'
    BY <1>3 DEF futex_lock, futex_trylock, FirstStep
  <1>4. ASSUME NEW t \in Users, LockLoad(t) \/ LockStored(t) \/ LockOwner(t) PROVE SleeperHasWaker'
    BY <1>4 DEF LockLoad, LockStored, LockOwner
  <1>5. ASSUME NEW t \in Users, LockNotStored(t) \/ LockCallReturns(t) PROVE SleeperHasWaker'
    BY <1>5 DEF LockNotStored, LockCallReturns, LockFailed
  <1>6. ASSUME NEW t \in Users, LockCall(t) PROVE SleeperHasWaker'
    BY <1>6 DEF LockCall, MutualExclusion
  <1>7. ASSUME NEW t \in Users, LockWait(t) PROVE SleeperHasWaker'
    BY <1>7 DEF LockWait, wait_for_object_value, MutualExclusion
  <1>8. ASSUME NEW t \in Users, LockRetry(t) PROVE SleeperHasWaker'
    BY <1>8 DEF LockRetry, FirstStep
  <1>9. ASSUME NEW t \in Users, futex_unlock(t) \/ UnlockLoad(t) \/ UnlockStored(t) \/ UnlockNotStored(t)
        PROVE  SleeperHasWaker'
    BY <1>9 DEF futex_unlock, UnlockLoad, UnlockStored, UnlockNotStored
  <1>10. ASSUME NEW t \in Users, UnlockNotify(t) PROVE SleeperHasWaker'
    BY <1>10 DEF UnlockNotify, notify_object2
  <1> QED
    BY <1>1, <1>2, <1>3, <1>4, <1>5, <1>6, <1>7, <1>8, <1>9, <1>10 DEF Next, Step, Lock, Unlock

\* No thread is left asleep on a futex without an owner, a notification or a
\* thread about to lock it, if the ARMv6-M build does without futex_trylock.
THEOREM SleepersAreWoken ==
    ASSUME "ARMv6-M" \notin TryArchs PROVE Spec => []SleeperHasWaker
  <1>1. SleepInv /\ [Next]_vars => SleepInv'
    BY NextInv, NextSleepersLocked, NextSleeperHasWaker DEF SleepInv
  <1>2. SleepInv => SleeperHasWaker
    BY DEF SleepInv
  <1> QED
    BY InitSleepInv, <1>1, <1>2, PTL DEF Spec
==============================================================================
