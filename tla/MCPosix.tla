------------------------------ MODULE MCPosix ------------------------------
(***************************************************************************)
(* Slot 0 and the idle thread in slot 1 are started by the kernel; slot 2  *)
(* is left for thread_create.                                              *)
(***************************************************************************)
EXTENDS Posix

Boot == {0, 1}
Priorities == [t \in Threads |-> IF t = 1 THEN 2 ELSE 1]
==============================================================================
