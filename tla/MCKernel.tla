------------------------------ MODULE MCKernel ------------------------------
(***************************************************************************)
(* TLC instances of Kernel: the priorities of the autostarted threads.     *)
(* The idle thread follows them and takes the third slot.                  *)
(***************************************************************************)
EXTENDS Kernel

Two == <<1, 2>>
==============================================================================
