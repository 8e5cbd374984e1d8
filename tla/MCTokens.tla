----------------------------- MODULE MCTokens -----------------------------
(***************************************************************************)
(* Instances of Tokens for TLC.                                            *)
(***************************************************************************)
EXTENDS Tokens, TLC

Interchangeable == Permutations(Person)
=============================================================================
