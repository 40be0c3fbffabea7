------------------------------- MODULE MCArm -------------------------------
(***************************************************************************)
(* Threads 0 and 1 belong to process 0, thread 2 to process 1.  Each       *)
(* process has one region that follows the host and one of its own.        *)
(***************************************************************************)
EXTENDS Arm

Parents == [t \in Threads |-> IF t = 2 THEN 1 ELSE 0]
Aligned == [p \in Processes |-> <<[start |-> 256 * p, size |-> 128],
                                 [start |-> 256 * p + 128, size |-> 64 * p]>>]
ThreadStacks == [t \in Threads |-> [start |-> 1024 + 1024 * t, size |-> 1024]]

\* Entries of rpc_stack above the depth are written before they are read again:
\* states that differ in them only are the same state to TLC.
LiveEntries == [t \in Threads |-> [n \in 0 .. Depth(t) |-> RpcEntry(t, n)]]
LiveState == <<mpuVars, schedVars, pc, svc, LiveEntries, stack_id, calls, frameVars>>
==============================================================================
