------------------------------- MODULE MCTxn -------------------------------
(***************************************************************************)
(* TLC instance of Txn: three contexts (two cores and an interrupt), two   *)
(* fields, and a counter of three values so that it wraps quickly.         *)
(***************************************************************************)
EXTENDS Txn, TLC

Symmetry ==
    Permutations(Contexts) \cup Permutations(Fields) \cup Permutations(Values)
==============================================================================
