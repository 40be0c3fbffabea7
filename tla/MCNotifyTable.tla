--------------------------- MODULE MCNotifyTable ---------------------------
(***************************************************************************)
(* A TLC instance of NotifyTable: four entries, five objects of which four *)
(* are notified.  Two of these have the same hash value and the probe      *)
(* sequences of all of them run through each other's entries; the search   *)
(* of the full table for the fifth does not end.                           *)
(***************************************************************************)
EXTENDS NotifyTable, TLC

CONSTANTS o1, o2, o3, o4, o5

CollidingHash == o1 :> 3 @@ o2 :> 3 @@ o3 :> 0 @@ o4 :> 2 @@ o5 :> 2
==============================================================================
