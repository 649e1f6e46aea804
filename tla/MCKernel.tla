------------------------------ MODULE MCKernel -------------------------------
(* Four pids, hence at most three processes besides idle; two applications. *)
EXTENDS Kernel
==============================================================================
