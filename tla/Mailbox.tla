------------------------------ MODULE Mailbox ------------------------------
(***************************************************************************)
(* What the relay promises its users, with no sessions, routes or          *)
(* snapshots: a message is accepted once, from one user to another; it is  *)
(* handed to its recipient at least once; the recipient confirms it; and   *)
(* nothing that was accepted changes or goes back.                         *)
(***************************************************************************)
CONSTANTS MsgId, User, NoLetter

VARIABLES
    phase,      \* how far a message has come
    letter      \* who sent it to whom

Phase  == {"absent", "queued", "handed", "confirmed"}
Letter == [from : User, to : User]

Init ==
    /\ phase = [i \in MsgId |-> "absent"]
    /\ letter = [i \in MsgId |-> NoLetter]

\* enqueue_message stores a new message; a connected recipient gets it at once.
Post(i) ==
    /\ phase[i] = "absent"
    /\ \E p \in {"queued", "handed"} : phase' = [phase EXCEPT ![i] = p]
    /\ \E l \in Letter : l.from # l.to /\ letter' = [letter EXCEPT ![i] = l]

\* _deliver writes it to a session of its recipient.
Hand(i) ==
    /\ phase[i] = "queued"
    /\ phase' = [phase EXCEPT ![i] = "handed"]
    /\ UNCHANGED letter

\* mark_delivered records that the recipient acknowledged it.
Confirm(i) ==
    /\ phase[i] = "handed"
    /\ phase' = [phase EXCEPT ![i] = "confirmed"]
    /\ UNCHANGED letter

Next == \E i \in MsgId : Post(i) \/ Hand(i) \/ Confirm(i)

Spec == Init /\ [][Next]_<<phase, letter>>
=============================================================================
