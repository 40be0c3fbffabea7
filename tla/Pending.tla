------------------------------ MODULE Pending ------------------------------
(***************************************************************************)
(* What the store of pending notifications promises to the rest of the     *)
(* kernel (include/cmrx/ipc/notify.h): a notification nobody waits for is  *)
(* recorded, once per call, until a wait for the same object consumes it   *)
(* or the object is initialised again.  It may be refused only when too    *)
(* many different objects have notifications pending.                      *)
(***************************************************************************)
EXTENDS Naturals, FiniteSets

CONSTANTS
    Objects,    \* objects that can be notified
    Capacity    \* how many different objects can have notifications pending

VARIABLES
    pending,    \* notifications recorded per object
    result      \* what the last operation returned

Init == pending = [o \in Objects |-> 0] /\ result = "none"

Recorded == {o \in Objects : pending[o] > 0}

Queue(o) ==
    \/ /\ pending' = [pending EXCEPT ![o] = @ + 1]
       /\ result' = "E_OK"
    \/ /\ Cardinality(Recorded) = Capacity
       /\ result' = "E_OUT_OF_NOTIFICATIONS"
       /\ UNCHANGED pending

Dequeue(o) ==
    IF pending[o] > 0
    THEN pending' = [pending EXCEPT ![o] = @ - 1] /\ result' = "consumed"
    ELSE result' = "must wait" /\ UNCHANGED pending

Clear(o) == pending' = [pending EXCEPT ![o] = 0] /\ result' = "E_OK"

Next == \E o \in Objects : Queue(o) \/ Dequeue(o) \/ Clear(o)

Spec == Init /\ [][Next]_<<pending, result>>
==============================================================================
