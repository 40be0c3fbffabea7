----------------------------- MODULE MCContext -----------------------------
(***************************************************************************)
(* TLC instance of Context: two threads that share the FPU.                *)
(***************************************************************************)
EXTENDS Context
==============================================================================
