------------------------------ MODULE MCTimers ------------------------------
(***************************************************************************)
(* TLC instances of Timers: autostarted threads, and what os_hash_key()    *)
(* gives for the keys of the first four threads in a table of eight.       *)
(***************************************************************************)
EXTENDS Timers

Two == <<1, 2>>

HashOfKey ==
    [type \in SleepTypes |->
        [t \in Threads |-> IF type = "SLEEP" THEN <<0, 3, 7, 2>>[t + 1]
                           ELSE IF type = "TIMEOUT" THEN <<2, 3, 5, 0>>[t + 1]
                           ELSE <<0, 0, 4, 1>>[t + 1]]]
==============================================================================
