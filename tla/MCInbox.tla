------------------------------ MODULE MCInbox ------------------------------
(***************************************************************************)
(* Instances of Inbox for TLC: bob and carol share a browser.              *)
(***************************************************************************)
EXTENDS Inbox, TLC

CONSTANTS bob, carol, m1, m2, h1, h2

ToBob   == [i \in MsgId |-> bob]
ToBoth  == [i \in MsgId |-> IF i = m1 THEN bob ELSE carol]

Calls == Permutations({h1, h2})
=============================================================================
