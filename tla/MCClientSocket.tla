--------------------------- MODULE MCClientSocket ---------------------------
(***************************************************************************)
(* Instances of ClientSocket for TLC.                                      *)
(***************************************************************************)
EXTENDS ClientSocket

CONSTANTS login, register, s1, s2
=============================================================================
