-------------------------------- MODULE Lock --------------------------------
(***************************************************************************)
(* What a futex promises: threads ask for it, at most one has it, and only *)
(* the one that has it gives it back.                                      *)
(***************************************************************************)
CONSTANTS Users     \* threads that share the lock

VARIABLES status    \* what each of them is doing with it

Init == status = [u \in Users |-> "idle"]

Request(u) == status[u] = "idle" /\ status' = [status EXCEPT ![u] = "asking"]

Acquire(u) ==
    /\ status[u] = "asking"
    /\ \A v \in Users : status[v] # "holding"
    /\ status' = [status EXCEPT ![u] = "holding"]

\* A request that does not wait is given up.
Fail(u) == status[u] = "asking" /\ status' = [status EXCEPT ![u] = "idle"]

Release(u) == status[u] = "holding" /\ status' = [status EXCEPT ![u] = "idle"]

Next == \E u \in Users : Request(u) \/ Acquire(u) \/ Fail(u) \/ Release(u)

Spec == Init /\ [][Next]_status
==============================================================================
