------------------------------ MODULE MCMutex ------------------------------
(* Instances of module Mutex.                                              *)
EXTENDS Mutex, TLC

AllArchs == Architectures

\* Builds whose lock can fail without a system call.
ExclusiveArchs == {"ARMv7-M", "RISC-V"}
==============================================================================
