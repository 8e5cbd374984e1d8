-------------------------- MODULE MCLegacyClient --------------------------
(***************************************************************************)
(* Instances of LegacyClient for TLC: one peer whose key the server may    *)
(* change and whose messages it may repeat, and one that writes once.      *)
(***************************************************************************)
EXTENDS LegacyClient

CONSTANTS ana, bob, k1, k2, m1, m2, m3

MCOffered  == {<<ana, k1>>, <<ana, k2>>}
MCArriving == {<<ana, k1, m1>>, <<ana, k1, m2>>, <<ana, k1, m3>>, <<ana, k2, m1>>, <<bob, k1, m1>>}
=============================================================================
