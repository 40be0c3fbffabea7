----------------------------- MODULE TxnProofs -----------------------------
(***************************************************************************)
(* Proofs about the transaction subsystem, for any set of contexts, any    *)
(* shared state and any width of the rolling counter.                      *)
(***************************************************************************)
EXTENDS Txn, TLAPS

------------------------------------------------------------------------------
\* The counter stays within Txn_t and follows the distance invariant: one
\* increment moves it one further from any handle, modulo the wrap.
LEMMA IncrementType ==
    ASSUME NEW id \in Ids PROVE Increment(id) \in Ids
BY TxnModAssumption DEF Ids, Increment

LEMMA IncrementDistance ==
    ASSUME NEW id \in Ids, NEW h \in Ids, NEW a \in 0 .. TxnMod,
           Older(a) < TxnMod,
           a < TxnMod => id = h + a \/ id = h + a - TxnMod
    PROVE  \/ Increment(id) = h + Older(a)
           \/ Increment(id) = h + Older(a) - TxnMod
BY TxnModAssumption DEF Ids, Increment, Older

\* A handle that equals the counter while the distance invariant holds and the
\* counter has not gone all the way round is a handle nobody committed against.
LEMMA EqualMeansQuiet ==
    ASSUME NEW id \in Ids, NEW h \in Ids, NEW a \in 0 .. TxnMod,
           a < TxnMod, id = h + a \/ id = h + a - TxnMod, id = h
    PROVE  a = 0
BY TxnModAssumption DEF Ids

------------------------------------------------------------------------------
\* Initial states satisfy the inductive invariant.
LEMMA InitIInv == Init => IInv
<1> SUFFICES ASSUME Init PROVE IInv
  OBVIOUS
<1>1. TypeOK
  <2>1. 0 \in Ids /\ 0 \in 0 .. TxnMod
    BY TxnModAssumption DEF Ids
  <2>2. NothingRead \in [Fields -> Values \cup {Unread}]
    BY DEF NothingRead
  <2> QED
    BY <2>1, <2>2 DEF Init, TypeOK
<1>2. LockOwner
  BY SentinelAssumption DEF Init, LockOwner
<1>3. CounterDistance
  BY DEF Init, CounterDistance
<1>4. QuietSnapshot
  BY DEF Init, QuietSnapshot
<1> QED
  BY <1>1, <1>2, <1>3, <1>4 DEF IInv

\* Granting a read-write commit keeps the invariant: every open transaction is
\* one commit older, and its distance from the counter grows by one.
LEMMA EnterCommitIInv ==
    ASSUME IInv, NEW c \in Contexts, pc[c] # "commit",
           lock = NoContext, EnterCommit(c), mem' = mem,
           \/ Forget(c)
           \/ pc[c] = "idle" /\ UNCHANGED <<txn, snap>>
    PROVE  IInv'
<1> USE DEF EnterCommit, KeepLock
<1>1. TypeOK'
  <2>1. current_id' \in Ids
    BY IncrementType DEF IInv, TypeOK
  <2>2. txn' \in [Contexts -> Ids] /\ snap' \in [Contexts -> [Fields -> Values \cup {Unread}]]
    <3>1. 0 \in Ids
      BY TxnModAssumption DEF Ids
    <3>2. NothingRead \in [Fields -> Values \cup {Unread}]
      BY DEF NothingRead
    <3> QED BY <3>1, <3>2 DEF IInv, TypeOK, Forget
  <2>3. age' \in [Contexts -> 0 .. TxnMod]
    BY TxnModAssumption DEF IInv, TypeOK, Older
  <2> QED
    BY <2>1, <2>2, <2>3 DEF IInv, TypeOK
<1>2. LockOwner'
  BY SentinelAssumption DEF IInv, LockOwner, TypeOK
<1>3. CounterDistance'
  <2> SUFFICES ASSUME NEW d \in Contexts, pc'[d] = "reading", age'[d] < TxnMod
               PROVE  \/ current_id' = txn'[d] + age'[d]
                      \/ current_id' = txn'[d] + age'[d] - TxnMod
    BY DEF CounterDistance
  <2>1. d # c /\ pc[d] = "reading" /\ age'[d] = Older(age[d]) /\ txn'[d] = txn[d]
    BY DEF IInv, TypeOK, Forget
  <2>2. age[d] < TxnMod => current_id = txn[d] + age[d] \/ current_id = txn[d] + age[d] - TxnMod
    BY <2>1 DEF IInv, CounterDistance
  <2>3. current_id \in Ids /\ txn[d] \in Ids /\ age[d] \in 0 .. TxnMod
    BY DEF IInv, TypeOK
  <2> QED
    BY <2>1, <2>2, <2>3, IncrementDistance
<1>4. QuietSnapshot'
  <2> SUFFICES ASSUME NEW d \in Contexts, pc'[d] = "reading", age'[d] = 0
               PROVE  FALSE
    BY DEF QuietSnapshot
  <2>1. age[d] \in 0 .. TxnMod /\ age'[d] = Older(age[d])
    BY DEF IInv, TypeOK
  <2> QED
    BY <2>1, TxnModAssumption DEF Older
<1> QED
  BY <1>1, <1>2, <1>3, <1>4 DEF IInv

\* Closing a transaction without writing (read-only, refused or dropped).
LEMMA CloseIInv ==
    ASSUME IInv, NEW c \in Contexts, pc[c] = "reading",
           pc' = [pc EXCEPT ![c] = "idle"], Forget(c),
           age' = [age EXCEPT ![c] = 0],
           UNCHANGED <<current_id, lock, mem>>
    PROVE  IInv'
<1>1. TypeOK'
  BY TxnModAssumption DEF IInv, TypeOK, Forget, NothingRead, Ids
<1>2. LockOwner'
  BY DEF IInv, LockOwner, TypeOK
<1>3. CounterDistance'
  BY DEF IInv, CounterDistance, TypeOK, Forget
<1>4. QuietSnapshot'
  BY DEF IInv, QuietSnapshot, SnapshotCurrent, TypeOK, Forget
<1> QED
  BY <1>1, <1>2, <1>3, <1>4 DEF IInv

\* Every step of the transaction subsystem preserves the inductive invariant.
LEMMA NextIInv == IInv /\ [Next]_vars => IInv'
<1> SUFFICES ASSUME IInv, [Next]_vars PROVE IInv'
  OBVIOUS
<1>1. ASSUME NEW c \in Contexts, os_txn_start(c) PROVE IInv'
  <2> USE <1>1 DEF os_txn_start
  <2>1. TypeOK'
    BY TxnModAssumption DEF IInv, TypeOK, NothingRead, Ids
  <2>2. LockOwner'
    BY DEF IInv, LockOwner, TypeOK
  <2>3. CounterDistance'
    BY TxnModAssumption DEF IInv, CounterDistance, TypeOK, Ids
  <2>4. QuietSnapshot'
    BY DEF IInv, QuietSnapshot, SnapshotCurrent, TypeOK, NothingRead
  <2> QED
    BY <2>1, <2>2, <2>3, <2>4 DEF IInv
<1>2. ASSUME NEW c \in Contexts, NEW f \in Fields, Read(c, f) PROVE IInv'
  <2> USE <1>2 DEF Read
  <2>1. TypeOK'
    BY DEF IInv, TypeOK
  <2>2. LockOwner' /\ CounterDistance'
    BY DEF IInv, LockOwner, CounterDistance
  <2>3. QuietSnapshot'
    BY DEF IInv, QuietSnapshot, SnapshotCurrent, TypeOK
  <2> QED
    BY <2>1, <2>2, <2>3 DEF IInv
<1>3. ASSUME NEW c \in Contexts, Abandon(c) PROVE IInv'
  BY <1>3, CloseIInv DEF Abandon
<1>4. ASSUME NEW c \in Contexts, os_txn_commit_readwrite(c) PROVE IInv'
  BY <1>4, EnterCommitIInv DEF os_txn_commit_readwrite
<1>5. ASSUME NEW c \in Contexts, os_txn_commit_readonly(c) PROVE IInv'
  BY <1>5, CloseIInv DEF os_txn_commit_readonly
<1>6. ASSUME NEW c \in Contexts, os_txn_commit_aborted(c) PROVE IInv'
  BY <1>6, CloseIInv DEF os_txn_commit_aborted
<1>7. ASSUME NEW c \in Contexts, os_txn_start_commit(c) PROVE IInv'
  BY <1>7, EnterCommitIInv DEF os_txn_start_commit
<1>8. ASSUME NEW c \in Contexts, NEW f \in Fields, NEW v \in Values, Write(c, f, v)
      PROVE  IInv'
  <2> USE <1>8 DEF Write
  <2>1. lock = c
    BY DEF IInv, LockOwner
  <2>2. TypeOK' /\ LockOwner' /\ CounterDistance'
    BY DEF IInv, TypeOK, LockOwner, CounterDistance
  <2>3. QuietSnapshot'
    BY <2>1, SentinelAssumption DEF IInv, QuietSnapshot
  <2> QED
    BY <2>2, <2>3 DEF IInv
<1>9. ASSUME NEW c \in Contexts, os_txn_done(c) PROVE IInv'
  <2> USE <1>9 DEF os_txn_done
  <2>1. lock = c
    BY DEF IInv, LockOwner
  <2>2. TypeOK' /\ CounterDistance'
    BY DEF IInv, TypeOK, CounterDistance
  <2>3. LockOwner'
    BY <2>1, SentinelAssumption DEF IInv, LockOwner, TypeOK
  <2>4. QuietSnapshot'
    BY <2>1, SentinelAssumption DEF IInv, QuietSnapshot, SnapshotCurrent, TypeOK
  <2> QED
    BY <2>2, <2>3, <2>4 DEF IInv
<1>10. CASE UNCHANGED vars
  BY <1>10 DEF vars, IInv, TypeOK, LockOwner, CounterDistance, QuietSnapshot, SnapshotCurrent
<1> QED
  BY <1>1, <1>2, <1>3, <1>4, <1>5, <1>6, <1>7, <1>8, <1>9, <1>10 DEF Next

------------------------------------------------------------------------------
\* The inductive invariant holds in every reachable state.
THEOREM Invariance == Spec => []IInv
BY InitIInv, NextIInv, PTL DEF Spec

\* Type correctness: os_txn_current_id and every handle stay within Txn_t.
THEOREM TypeCorrect == Spec => []TypeOK
<1>1. IInv => TypeOK
  BY DEF IInv
<1> QED
  BY <1>1, Invariance, PTL

\* At most one context is between a granted read-write os_txn_commit (or
\* os_txn_start_commit) and os_txn_done.
THEOREM Exclusive == Spec => []CommitExclusive
<1>1. IInv => CommitExclusive
  BY DEF IInv, LockOwner, CommitExclusive
<1> QED
  BY <1>1, Invariance, PTL

\* A granted commit vouches for everything read since os_txn_start, as long as
\* the counter has not gone all the way round.
THEOREM GrantedIsCurrent == Spec => GrantedSnapshotIsCurrent
<1>1. ASSUME IInv, [Next]_vars, NEW c \in Contexts, Granted(c), age[c] < TxnMod
      PROVE  SnapshotCurrent(c)
  <2>1. pc[c] = "reading" /\ current_id = txn[c]
    BY <1>1 DEF Granted, os_txn_commit_readwrite, os_txn_commit_readonly
  <2>2. age[c] = 0
    BY <1>1, <2>1, EqualMeansQuiet DEF IInv, TypeOK, CounterDistance
  <2> QED
    BY <1>1, <2>1, <2>2 DEF IInv, QuietSnapshot
<1>2. IInv /\ [Next]_vars =>
        [\A c \in Contexts : Granted(c) /\ age[c] < TxnMod => SnapshotCurrent(c)]_vars
  BY <1>1
<1> QED
  BY <1>2, Invariance, PTL DEF Spec, GrantedSnapshotIsCurrent

\* os_txn_commit refuses a transaction only after another context's read-write
\* commit: retry loops of a lone context terminate.
THEOREM RefusalNeedsConflict == Spec => RefusedOnlyOnConflict
<1>1. ASSUME IInv, [Next]_vars, NEW c \in Contexts, os_txn_commit_aborted(c)
      PROVE  age[c] > 0
  <2>1. pc[c] = "reading" /\ current_id # txn[c]
    BY <1>1 DEF os_txn_commit_aborted
  <2>2. age[c] \in 0 .. TxnMod /\ txn[c] \in Ids /\ current_id \in Ids
    BY <1>1 DEF IInv, TypeOK
  <2>3. age[c] < TxnMod =>
          current_id = txn[c] + age[c] \/ current_id = txn[c] + age[c] - TxnMod
    BY <1>1, <2>1 DEF IInv, CounterDistance
  <2> QED
    BY <2>1, <2>2, <2>3, TxnModAssumption DEF Ids
<1>2. IInv /\ [Next]_vars =>
        [\A c \in Contexts : os_txn_commit_aborted(c) => age[c] > 0]_vars
  BY <1>1
<1> QED
  BY <1>2, Invariance, PTL DEF Spec, RefusedOnlyOnConflict
==============================================================================
