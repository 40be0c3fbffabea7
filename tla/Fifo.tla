-------------------------------- MODULE Fifo --------------------------------
(***************************************************************************)
(* What a queue promises: at most Depth items wait in it, they come out in *)
(* the order they went in, whole, and each of them once.                   *)
(***************************************************************************)
EXTENDS Naturals, Sequences

CONSTANTS Items, Depth

VARIABLES items,    \* the items in the queue, the oldest first
          out       \* what the receiver was given last

Init == items = <<>> /\ out \notin Items

Send == /\ Len(items) < Depth
        /\ \E v \in Items : items' = Append(items, v)
        /\ UNCHANGED out

Receive == items # <<>> /\ out' = Head(items) /\ items' = Tail(items)

Next == Send \/ Receive

Spec == Init /\ [][Next]_<<items, out>>
==============================================================================
