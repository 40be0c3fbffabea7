---------------------------- MODULE NotifyTable ----------------------------
(***************************************************************************)
(* The hash table the kernel keeps pending notifications in                *)
(* (os_notification_buffer in src/os/kernel/notify.c, HASH_SEARCH in       *)
(* include/cmrx/algo.h).  Every operation runs with interrupts disabled or *)
(* is validated by a transaction, so each is one step.                     *)
(***************************************************************************)
EXTENDS Integers, FiniteSets

CONSTANTS
    Objects,        \* objects that can be waited for
    Sources,        \* those of them that the application notifies
    BufferSize,     \* OS_NOTIFICATION_BUFFER_SIZE, a power of two
    Hash,           \* os_hash_key() of each object, masked to the table
    HASH_EMPTY,     \* the address that marks a free entry
    MaxPending      \* bound on the notifications pending for one object

Slots == 0 .. BufferSize - 1

ASSUME HashAssumption ==
    /\ BufferSize \in Nat \ {0} /\ Hash \in [Objects -> Slots]
    /\ HASH_EMPTY \notin Objects /\ Sources \subseteq Objects

VARIABLES
    address, pending_notifications,     \* os_notification_buffer[]
    size,                               \* os_notification_buffer_size
    hung,                               \* a search never ends
    result                              \* what the last operation returned

vars == <<address, pending_notifications, size, hung, result>>

Init ==
    /\ address = [s \in Slots |-> HASH_EMPTY]
    /\ pending_notifications = [s \in Slots |-> 0]
    /\ size = 0
    /\ hung = FALSE
    /\ result = "none"

\* Where the k-th probe for o looks: the stride grows by one with each probe,
\* so BufferSize probes visit every entry of a power-of-two table.
Probe(o, k) == (Hash[o] + (k * (k + 1)) \div 2) % BufferSize

\* The search stops at the first entry that holds o or is free.
Stops(o, k) == address[Probe(o, k)] \in {o, HASH_EMPTY}

Ends(o) == \E k \in Slots : Stops(o, k)

HASH_SEARCH(o) ==
    Probe(o, CHOOSE k \in Slots : Stops(o, k) /\ \A j \in 0 .. k - 1 : ~Stops(o, j))

\* The table has no free entry and o is not in it: the kernel spins, with
\* interrupts disabled.
Hang(o) ==
    /\ ~Ends(o)
    /\ hung' = TRUE
    /\ UNCHANGED <<address, pending_notifications, size, result>>

Full == size = BufferSize

os_notify_queue_event(o) ==
    /\ ~hung /\ o \in Sources
    /\ Ends(o)
    /\ LET s == HASH_SEARCH(o)
       IN  /\ pending_notifications[s] < MaxPending
           /\ IF Full
              THEN /\ result' = "E_OUT_OF_NOTIFICATIONS"
                   /\ UNCHANGED <<address, pending_notifications, size>>
              ELSE /\ address' = [address EXCEPT ![s] = o]
                   /\ size' = IF address[s] = HASH_EMPTY THEN size + 1 ELSE size
                   /\ pending_notifications' = [pending_notifications EXCEPT ![s] = @ + 1]
                   /\ result' = "E_OK"
    /\ UNCHANGED hung

\* Mutant: the entry is freed with the first notification consumed.
FreeAtOnce(s) ==
    /\ pending_notifications' = [pending_notifications EXCEPT ![s] = 0]
    /\ address' = [address EXCEPT ![s] = HASH_EMPTY]
    /\ size' = size - 1

\* Mutant: the load is not reduced when the last notification goes.
ForgetSize(s) ==
    /\ pending_notifications' = [pending_notifications EXCEPT ![s] = @ - 1]
    /\ address' = IF pending_notifications[s] = 1
                  THEN [address EXCEPT ![s] = HASH_EMPTY] ELSE address
    /\ size' = size

\* One notification less; the entry is freed with the last one.
TakeOne(s) ==
    /\ pending_notifications' = [pending_notifications EXCEPT ![s] = @ - 1]
    /\ IF pending_notifications[s] = 1
       THEN /\ address' = [address EXCEPT ![s] = HASH_EMPTY]
            /\ size' = size - 1
       ELSE UNCHANGED <<address, size>>

os_notify_dequeue_event(o) ==
    /\ ~hung
    /\ Ends(o)
    /\ LET s == HASH_SEARCH(o)
       IN  IF address[s] # o
           THEN /\ result' = "must wait"
                /\ UNCHANGED <<address, pending_notifications, size>>
           ELSE /\ TakeOne(s)
                /\ result' = "consumed"
    /\ UNCHANGED hung

\* The tail of os_initialize_waitable_object.
ClearEntry(o) ==
    /\ ~hung
    /\ Ends(o)
    /\ LET s == HASH_SEARCH(o)
       IN  IF address[s] # o
           THEN UNCHANGED <<address, pending_notifications, size>>
           ELSE /\ address' = [address EXCEPT ![s] = HASH_EMPTY]
                /\ pending_notifications' = [pending_notifications EXCEPT ![s] = 0]
                /\ size' = size - 1
    /\ result' = "E_OK"
    /\ UNCHANGED hung

\* Once the kernel spins nothing happens any more.
Dead == hung /\ UNCHANGED vars

Next ==
    \/ \E o \in Objects :
          \/ os_notify_queue_event(o)
          \/ os_notify_dequeue_event(o)
          \/ ClearEntry(o)
          \/ ~hung /\ Hang(o)
    \/ Dead

Spec == Init /\ [][Next]_vars

------------------------------------------------------------------------------
(***************************************************************************)
(* Properties.                                                             *)
(***************************************************************************)

\* Every entry holds an object or is free, no counter goes below zero, and the
\* load stays within the table.
TypeOK ==
    /\ address \in [Slots -> Objects \cup {HASH_EMPTY}]
    /\ pending_notifications \in [Slots -> Nat]
    /\ size \in 0 .. BufferSize
    /\ hung \in BOOLEAN

\* The table is well formed, os_notification_buffer_size is the number of entries
\* in use, and an entry is in use exactly while it has notifications: what the two
\* ASSERTs on pending_notifications and the load check rely on.
SizeIsLoad ==
    /\ TypeOK
    /\ size = Cardinality({s \in Slots : address[s] # HASH_EMPTY})
    /\ \A s \in Slots : address[s] # HASH_EMPTY <=> pending_notifications[s] > 0

\* The notifications a search for o finds.
Lookup(o) ==
    IF Ends(o) /\ address[HASH_SEARCH(o)] = o
    THEN pending_notifications[HASH_SEARCH(o)] ELSE 0

Counters == INSTANCE Pending
              WITH pending <- [o \in Objects |-> Lookup(o)], Capacity <- BufferSize

\* The table implements one counter per object, whatever collides in it: a
\* notification that was queued is found by the next wait and is refused only
\* when the table is full.  What include/cmrx/ipc/notify.h promises; a freed entry
\* ends the probe sequences that passed it, so the code does not keep it.
RecordsNotifications == Counters!Spec

\* Entries in use.
Used == {s \in Slots : address[s] # HASH_EMPTY}

\* The search for o finds it, with its k-th probe.
Finds(o, k) == address[Probe(o, k)] = o /\ \A j \in 0 .. k - 1 : ~Stops(o, j)

\* A search for the object of any entry in use finds that entry.
AllReachable ==
    \A s \in Used : \E k \in Slots : Probe(address[s], k) = s /\ Finds(address[s], k)

\* The search for some other object in the table passes entry s: once s is free
\* that search ends there.
OnTheWay(s) ==
    \E o \in Objects, k \in Slots :
       Finds(o, k) /\ Probe(o, k) # s /\ \E j \in 0 .. k - 1 : Probe(o, j) = s

\* A step frees an entry that the search for another object passes.
Cut == \E s \in Used : address'[s] = HASH_EMPTY /\ OnTheWay(s)

\* Whenever every entry can be found, the next operation is that of one counter per
\* object, whatever the hash values: a notification is recorded and consumed once,
\* taking an entry hides no other one, a search never ends at another object's
\* entry, and an operation is refused only when the table is full of different
\* objects.  Only freeing an entry that another object's probe sequence passes
\* (the last consumption, or initialisation) takes the table out of this regime.
RecordsUntilCut ==
    /\ Counters!Init /\ AllReachable
    /\ [][AllReachable => Cut \/ Counters!Next]_<<[o \in Objects |-> Lookup(o)], result>>
    /\ [][AllReachable => Cut \/ AllReachable']_vars
==============================================================================
