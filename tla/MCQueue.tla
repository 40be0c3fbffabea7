------------------------------ MODULE MCQueue ------------------------------
(* Instances of module Queue.                                              *)
EXTENDS Queue, TLC
==============================================================================
