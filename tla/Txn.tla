-------------------------------- MODULE Txn --------------------------------
(***************************************************************************)
(* The transaction subsystem of the CMRX kernel (src/os/kernel/txn.c).     *)
(*                                                                         *)
(* A context (a system call handler, an interrupt handler preempting it,   *)
(* another core) starts a transaction by remembering the rolling counter   *)
(* os_txn_current_id, reads the shared kernel state with no lock held and  *)
(* then asks to commit.  The commit is granted when the counter still has  *)
(* the remembered value; a granted read-write commit advances the counter  *)
(* and keeps the critical section, which os_txn_done leaves.               *)
(*                                                                         *)
(* os_core_lock and os_smp_lock are always taken and released as a pair,   *)
(* so they are one variable `lock'.  Contexts interleave arbitrarily,      *)
(* which covers both preemption on one core and several cores.  The        *)
(* verification flag of CMRX_KERNEL_TRANSACTION_VERIFICATION is compiled   *)
(* out and not modelled.                                                   *)
(***************************************************************************)
EXTENDS Integers

CONSTANTS
    Contexts,   \* execution contexts that use transactions
    Fields,     \* the fields of the shared kernel state
    Values,     \* the values a field may take
    TxnMod,     \* number of values of Txn_t (256: uint8_t in the code)
    NoContext,  \* nobody holds the lock
    Unread      \* a field the transaction has not read yet

\* The counter has room for at least one increment before it wraps.
ASSUME TxnModAssumption == TxnMod \in Nat /\ TxnMod >= 2
ASSUME SentinelAssumption == NoContext \notin Contexts /\ Unread \notin Values

VARIABLES
    current_id,  \* os_txn_current_id
    lock,        \* holder of the core and SMP lock, or NoContext
    pc,          \* idle, reading (between start and commit), commit
    txn,         \* the Txn_t handle each context holds
    mem,         \* the shared kernel state
    snap,        \* what each context read since os_txn_start
    age          \* history: read-write commits since os_txn_start, up to TxnMod

vars == <<current_id, lock, pc, txn, mem, snap, age>>

Ids == 0 .. TxnMod - 1

\* Mutant: a counter wider than Txn_t, so it leaves the handle's range.
IncrementUnbounded(id) == id + 1

\* Mutant: the rolling counter stays where it is.
IncrementStuck(id) == id

\* os_txn_current_id++ on an unsigned integer of TxnMod values.
Increment(id) == IF id = TxnMod - 1 THEN 0 ELSE id + 1

\* History bookkeeping: one more read-write commit happened; saturates at TxnMod.
Older(a) == IF a < TxnMod THEN a + 1 ELSE a

NothingRead == [f \in Fields |-> Unread]

\* The handle and the values read are locals of the transaction: they are gone
\* once it is committed, refused or dropped.
Forget(c) ==
    /\ txn' = [txn EXCEPT ![c] = 0]
    /\ snap' = [snap EXCEPT ![c] = NothingRead]

Init ==
    /\ current_id = 0
    /\ lock = NoContext
    /\ pc = [c \in Contexts |-> "idle"]
    /\ txn = [c \in Contexts |-> 0]
    /\ mem \in [Fields -> Values]
    /\ snap = [c \in Contexts |-> NothingRead]
    /\ age = [c \in Contexts |-> 0]

------------------------------------------------------------------------------

os_txn_start(c) ==
    /\ pc[c] = "idle"
    /\ lock = NoContext
    /\ txn' = [txn EXCEPT ![c] = current_id]
    /\ age' = [age EXCEPT ![c] = 0]
    /\ snap' = [snap EXCEPT ![c] = NothingRead]
    /\ pc' = [pc EXCEPT ![c] = "reading"]
    /\ UNCHANGED <<current_id, lock, mem>>

\* The computation between start and commit: it reads shared state unlocked,
\* possibly in the middle of another context's commit.
Read(c, f) ==
    /\ pc[c] = "reading"
    /\ snap[c][f] = Unread
    /\ snap' = [snap EXCEPT ![c][f] = mem[f]]
    /\ UNCHANGED <<current_id, lock, pc, txn, mem, age>>

\* A transaction may be dropped without being committed.
Abandon(c) ==
    /\ pc[c] = "reading"
    /\ pc' = [pc EXCEPT ![c] = "idle"]
    /\ Forget(c)
    /\ age' = [age EXCEPT ![c] = 0]
    /\ UNCHANGED <<current_id, lock, mem>>

\* Mutant: the critical section is left as a read-only commit leaves it.
LeaveLock(c) == lock' = NoContext

\* A granted read-write commit returns with both locks held.
KeepLock(c) == lock' = c

\* Entering the critical section as a writer.
EnterCommit(c) ==
    /\ current_id' = Increment(current_id)
    /\ age' = [d \in Contexts |->
                  IF d # c /\ pc[d] = "reading" THEN Older(age[d]) ELSE 0]
    /\ KeepLock(c)
    /\ pc' = [pc EXCEPT ![c] = "commit"]

os_txn_commit_readwrite(c) ==
    /\ pc[c] = "reading"
    /\ lock = NoContext
    /\ current_id = txn[c]
    /\ EnterCommit(c)
    /\ Forget(c)
    /\ UNCHANGED mem

\* Mutant: a read-only commit advances the counter like a read-write one.
CommitReadonlyIncrements(c) ==
    /\ pc[c] = "reading"
    /\ lock = NoContext
    /\ current_id = txn[c]
    /\ current_id' = Increment(current_id)
    /\ pc' = [pc EXCEPT ![c] = "idle"]
    /\ Forget(c)
    /\ age' = [age EXCEPT ![c] = 0]
    /\ UNCHANGED <<lock, mem>>

os_txn_commit_readonly(c) ==
    /\ pc[c] = "reading"
    /\ lock = NoContext
    /\ current_id = txn[c]
    /\ pc' = [pc EXCEPT ![c] = "idle"]
    /\ Forget(c)
    /\ age' = [age EXCEPT ![c] = 0]
    /\ UNCHANGED <<current_id, lock, mem>>

\* Either type of commit is refused when the counter has moved.
os_txn_commit_aborted(c) ==
    /\ pc[c] = "reading"
    /\ lock = NoContext
    /\ current_id # txn[c]
    /\ pc' = [pc EXCEPT ![c] = "idle"]
    /\ Forget(c)
    /\ age' = [age EXCEPT ![c] = 0]
    /\ UNCHANGED <<current_id, lock, mem>>

os_txn_start_commit(c) ==
    /\ pc[c] = "idle"
    /\ lock = NoContext
    /\ EnterCommit(c)
    /\ UNCHANGED <<txn, mem, snap>>

\* A store to shared state inside the critical section.
Write(c, f, v) ==
    /\ pc[c] = "commit"
    /\ mem' = [mem EXCEPT ![f] = v]
    /\ UNCHANGED <<current_id, lock, pc, txn, snap, age>>

os_txn_done(c) ==
    /\ pc[c] = "commit"
    /\ lock' = NoContext
    /\ pc' = [pc EXCEPT ![c] = "idle"]
    /\ UNCHANGED <<current_id, txn, mem, snap, age>>

Next ==
    \E c \in Contexts :
        \/ os_txn_start(c)
        \/ \E f \in Fields : Read(c, f)
        \/ Abandon(c)
        \/ os_txn_commit_readwrite(c)
        \/ os_txn_commit_readonly(c)
        \/ os_txn_commit_aborted(c)
        \/ os_txn_start_commit(c)
        \/ \E f \in Fields, v \in Values : Write(c, f, v)
        \/ os_txn_done(c)

Spec == Init /\ [][Next]_vars

------------------------------------------------------------------------------
(***************************************************************************)
(* Properties.                                                             *)
(***************************************************************************)

\* Every variable stays in its domain; the counter never leaves Txn_t.
TypeOK ==
    /\ current_id \in Ids
    /\ lock \in Contexts \cup {NoContext}
    /\ pc \in [Contexts -> {"idle", "reading", "commit"}]
    /\ txn \in [Contexts -> Ids]
    /\ mem \in [Fields -> Values]
    /\ snap \in [Contexts -> [Fields -> Values \cup {Unread}]]
    /\ age \in [Contexts -> 0 .. TxnMod]

\* "The code can perform the modification in exclusive state" (txn.h): two
\* contexts are never between a granted read-write commit and os_txn_done.
CommitExclusive ==
    \A c, d \in Contexts : pc[c] = "commit" /\ pc[d] = "commit" => c = d

\* The step grants the commit that context c asked for.
Granted(c) == os_txn_commit_readwrite(c) \/ os_txn_commit_readonly(c)

\* Everything c read since os_txn_start still is the shared state.
SnapshotCurrent(c) ==
    \A f \in Fields : snap[c][f] # Unread => snap[c][f] = mem[f]

\* A granted commit (read-only or read-write) means that everything the
\* transaction read without a lock, torn reads in the middle of another
\* context's commit included, is still true - provided fewer than TxnMod
\* read-write commits happened since os_txn_start.  txn.h promises it without
\* the proviso, but the counter has only TxnMod values.
GrantedSnapshotIsCurrent ==
    [][\A c \in Contexts :
          Granted(c) /\ age[c] < TxnMod => SnapshotCurrent(c)]_vars

\* os_txn_commit refuses a transaction only if some other context really
\* committed a read-write transaction in between: a lone context's retry loop
\* ends, and read-only transactions never disturb anyone.
RefusedOnlyOnConflict ==
    [][\A c \in Contexts : os_txn_commit_aborted(c) => age[c] > 0]_vars

------------------------------------------------------------------------------
(***************************************************************************)
(* The inductive invariant behind the proofs.                              *)
(***************************************************************************)

\* The lock is held exactly by the context inside the critical section.
LockOwner ==
    \A c \in Contexts : pc[c] = "commit" <=> lock = c

\* Until the counter has gone all the way round, its distance from a
\* transaction's handle is the number of commits since os_txn_start.
CounterDistance ==
    \A c \in Contexts :
        pc[c] = "reading" /\ age[c] < TxnMod =>
            \/ current_id = txn[c] + age[c]
            \/ current_id = txn[c] + age[c] - TxnMod

\* With no commit since os_txn_start nobody is writing and what was read
\* is what is there.
QuietSnapshot ==
    \A c \in Contexts :
        pc[c] = "reading" /\ age[c] = 0 => lock = NoContext /\ SnapshotCurrent(c)

IInv == TypeOK /\ LockOwner /\ CounterDistance /\ QuietSnapshot
==============================================================================
