----------------------------- MODULE MCAccounts -----------------------------
(***************************************************************************)
(* Instances of Accounts for TLC.                                          *)
(***************************************************************************)
EXTENDS Accounts, TLC

CONSTANTS ana, bob, w1, w2, p1, p2, p3, b1, b2, f1, f2, f3

\* Two tabs of one browser, and one of another.
TwoAndOne == (p1 :> b1) @@ (p2 :> b1) @@ (p3 :> b2)

Symmetries == Permutations(User) \cup Permutations(Form)
=============================================================================
