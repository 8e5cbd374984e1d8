-------------------------- MODULE MCLoginLimiter --------------------------
(***************************************************************************)
(* Instances of LoginLimiter for TLC.                                      *)
(***************************************************************************)
EXTENDS LoginLimiter, TLC

CONSTANTS t1, t2, t3

Threads == Permutations(Thread)
=============================================================================
