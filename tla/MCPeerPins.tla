----------------------------- MODULE MCPeerPins -----------------------------
(***************************************************************************)
(* Instances of PeerPins for TLC.                                          *)
(***************************************************************************)
EXTENDS PeerPins, TLC

CONSTANTS ana, bob, k1, k2, c1, c2, c3, s1

Symmetries == Permutations(Call) \cup Permutations(Key) \cup Permutations(Peer)
=============================================================================
