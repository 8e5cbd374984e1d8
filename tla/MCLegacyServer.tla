-------------------------- MODULE MCLegacyServer --------------------------
(***************************************************************************)
(* Instances of LegacyServer for TLC.                                      *)
(***************************************************************************)
EXTENDS LegacyServer, TLC

Interchangeable == Permutations(Socket) \cup Permutations(User)
=============================================================================
