------------------------- MODULE LegacyClientProofs -------------------------
(***************************************************************************)
(* Proofs about LegacyClient, for any peers, keys, envelopes and window.   *)
(*                                                                         *)
(* The invariant is built in layers, each kept by every step under those   *)
(* before it: Base (types), Trusted (what was confirmed), Undisputed (what *)
(* the other thread may have pinned), Saved (the file), Owner (the own     *)
(* keys) and Window (the replay ids).                                      *)
(***************************************************************************)
EXTENDS LegacyClient, TLAPS, FiniteSetTheorems

USE ClientAssumption

Rec  == [peer : Peer, key : Key]
Own  == [x : Nat, e : Nat]

\* A thread has what its position needs.
Whole ==
    /\ pc \in [Thread -> UiPoint \cup RecvPoint]
    /\ keyfiles \in Own /\ mine \in Own
    /\ pc["ui"] = "polling" => work["ui"].peer \in Peer
    /\ pc["ui"] \in {"look", "pin", "open", "write", "asking", "send"} => work["ui"] \in Rec
    /\ pc["recv"] \in {"pin", "open", "write", "check"} => work["recv"] \in Rec /\ id \in Id
    /\ pc["ui"] \in {"savex", "savee", "hello"} => pc["recv"] = "none"

Base == TypeOK /\ Whole

\* What a map of pins says is verified was confirmed.
Vouched(map) == \A p \in Peer : map[p].verified => [peer |-> p, key |-> map[p].key] \in confirmed

\* The ui thread sends only what was confirmed, and no pin, in memory, in the
\* file or on its way there, is marked as verified without it.
Trusted ==
    /\ SentUnderConfirmed
    /\ agreed => pc["ui"] \in {"open", "write", "send"}
    /\ agreed \/ pc["ui"] = "send" => work["ui"] \in confirmed
    /\ Vouched(pins) /\ Vouched(disk) /\ \A t \in Thread : Vouched(buffer[t])

\* Unless the threads raced for a peer, one about to pin it finds it unpinned,
\* and the key the user is asked about is the pinned one.
Undisputed ==
    /\ \A t \in Thread : pc[t] = "pin" /\ work[t].peer \notin raced => pins[work[t].peer] = NoPin
    /\ pc["ui"] \in {"open", "write", "asking"} /\ work["ui"].peer \notin raced
           => pins[work["ui"].peer].key = work["ui"].key

\* Unless two saves overlapped, one thread writes at a time, and what it writes
\* are the pins, or the other is about to save them again.
Saved ==
    /\ FileHoldsPins
    /\ ~mixed => /\ ~(pc["ui"] = "write" /\ pc["recv"] = "write")
                 /\ \A t \in Thread : pc[t] = "write" =>
                        buffer[t] = pins \/ \E o \in Thread \ {t} : pc[o] = "open"

\* Keys are announced only when both files hold them, and are then read back.
Owner ==
    /\ announced # {} => announced = {keyfiles} /\ keyfiles.x # 0 /\ keyfiles.e # 0
    /\ pc["ui"] \in {"savex", "savee"} => announced = {} /\ mine.x # 0 /\ mine.e # 0
    /\ pc["ui"] = "savee" => keyfiles.x = mine.x
    /\ pc["ui"] = "hello" => mine = keyfiles /\ keyfiles.x # 0 /\ keyfiles.e # 0

\* As many of the ids taken are remembered as the window has room for, among
\* them the last; none was taken again before more had been than it has room for.
Room(n) == IF n > REPLAY_WINDOW THEN REPLAY_WINDOW + 1 ELSE n

Window ==
    /\ IsFiniteSet(got) /\ seen \subseteq got
    /\ Cardinality(seen) = Room(Cardinality(got))
    /\ last # NoId => last \in seen
    /\ twice => Cardinality(got) > REPLAY_WINDOW + 1

-----------------------------------------------------------------------------
\* What arrives names a peer, a key and an id.
LEMMA Inputs ==
    /\ \A o \in Offered : o[1] \in Peer /\ o[2] \in Key
    /\ \A a \in Arriving : a[1] \in Peer /\ a[2] \in Key /\ a[3] \in Id
OBVIOUS

\* There are no pins, no keys and no connection at first.
LEMMA InitBase == Init => Base
<1>1. SUFFICES ASSUME Init PROVE Base
  OBVIOUS
<1>2. TypeOK
  BY <1>1 DEF Init, TypeOK, Pins, Nothing, NoWork, Thread, UiPoint, RecvPoint
<1>3. Whole
  BY <1>1 DEF Init, Whole, Own, NoKeys, Thread, UiPoint, RecvPoint
<1>4. QED
  BY <1>2, <1>3 DEF Base

\* Every step keeps the types, and leaves a thread with what its position needs.
LEMMA BaseStep == Base /\ [Next]_vars => Base'
<1>1. SUFFICES ASSUME Base, [Next]_vars PROVE Base'
  OBVIOUS
<1>2. TypeOK /\ Whole
  BY <1>1 DEF Base
<1>3. CASE Restart
  BY <1>2, <1>3 DEF Restart, Base, TypeOK, Whole, Own, Pins, Nothing, NoWork, NoKeys, Thread,
     UiPoint, RecvPoint
<1>4. CASE Connect
  BY <1>2, <1>4 DEF Connect, pinning, sending, replay, Latest, Goto, Base, TypeOK, Whole, Own,
     Thread, UiPoint
<1>5. ASSUME NEW p \in Peer, Send(p) PROVE Base'
  BY <1>2, <1>5 DEF Send, InHand, pinning, sending, replay, identity, Goto, Base, TypeOK, Whole,
     Rec, Thread, UiPoint
<1>6. CASE Confirm
  BY <1>2, <1>6 DEF Confirm, replay, identity, Goto, Base, TypeOK, Whole, Rec, Pins, Thread,
     UiPoint
<1>7. CASE Refuse
  BY <1>2, <1>7 DEF Refuse, EndSend, Done, pinning, replay, identity, Goto, Base, TypeOK, Whole,
     NoWork, Thread, UiPoint
<1>8. CASE SaveX
  BY <1>2, <1>8 DEF SaveX, pinning, sending, replay, Goto, Base, TypeOK, Whole, Own, Thread,
     UiPoint
<1>9. CASE SaveE
  BY <1>2, <1>9 DEF SaveE, pinning, sending, replay, Goto, Base, TypeOK, Whole, Own, Thread,
     UiPoint
<1>10. CASE Hello
  BY <1>2, <1>10 DEF Hello, pinning, sending, replay, Base, TypeOK, Whole, Thread, UiPoint,
     RecvPoint
<1>11. CASE HelloFails
  BY <1>2, <1>11 DEF HelloFails, pinning, sending, replay, identity, Goto, Base, TypeOK, Whole,
     Thread, UiPoint
<1>12. CASE Poll
  BY <1>2, <1>12 DEF Poll, InHand, pinning, sending, replay, identity, Goto, Base, TypeOK,
     Whole, Rec, Thread, UiPoint
<1>13. CASE GiveUp
  BY <1>2, <1>13 DEF GiveUp, EndSend, Done, pinning, replay, identity, Goto, Base, TypeOK,
     Whole, NoWork, Thread, UiPoint
<1>14. CASE Look
  <2>1. CASE EndSend
    BY <1>2, <1>14, <2>1 DEF Look, EndSend, Done, pinning, replay, identity, Goto, Base, TypeOK,
       Whole, NoWork, Thread, UiPoint
  <2>2. ASSUME NEW point \in {"pin", "send", "asking"},
             Goto("ui", point), UNCHANGED <<work, agreed>>
        PROVE  Base'
    BY <1>2, <1>14, <2>2 DEF Look, pinning, replay, identity, Goto, Base, TypeOK, Whole, Thread,
       UiPoint
  <2>3. QED
    BY <1>14, <2>1, <2>2 DEF Look
<1>15. ASSUME NEW t \in Thread, Pin(t) PROVE Base'
  BY <1>2, <1>15 DEF Pin, sending, replay, identity, Goto, Base, TypeOK, Whole, Rec, Pins,
     Thread, UiPoint, RecvPoint
<1>16. ASSUME NEW t \in Thread, Open(t) PROVE Base'
  BY <1>2, <1>16 DEF Open, sending, replay, identity, Goto, Base, TypeOK, Whole, Pins, Nothing,
     UiPoint, RecvPoint
<1>17. ASSUME NEW t \in Thread, Write(t) PROVE Base'
  BY <1>2, <1>17 DEF Write, AfterSave, Unsure, sending, replay, identity, Goto, Base, TypeOK,
     Whole, Pins, Nothing, UiPoint, RecvPoint
<1>18. ASSUME NEW t \in Thread, WriteFails(t) PROVE Base'
  BY <1>2, <1>18 DEF WriteFails, Done, Unsure, identity, Goto, Base, TypeOK, Whole, Pins,
     Nothing, NoWork, UiPoint, RecvPoint
<1>19. CASE Transmit
  BY <1>2, <1>19 DEF Transmit, EndSend, Done, pinning, replay, identity, Goto, Base, TypeOK,
     Whole, Rec, NoWork, Thread, UiPoint
<1>20. CASE Check
  <2>1. id \in Id /\ \A s \in Kept : s \subseteq seen
    BY <1>2, <1>20 DEF Check, Kept, Whole
  <2>2. seen' \subseteq Id /\ got' \subseteq Id /\ last' \in Id \cup {NoId}
    BY <1>2, <1>20, <2>1 DEF Check, TypeOK
  <2>3. twice' \in BOOLEAN
    BY <1>2, <1>20 DEF Check, TypeOK
  <2>4. QED
    BY <1>2, <1>20, <2>2 DEF Check, Done, pinning, sending, identity, Goto, Base, TypeOK, Whole,
       NoWork, Thread, RecvPoint
<1>21. CASE Served
  BY <1>2, <1>21 DEF Served, Blocked, pinning, sending, replay, identity, Goto, Base, TypeOK,
     Whole, Thread, RecvPoint
<1>22. CASE Notice
  BY <1>2, <1>22 DEF Notice, pinning, sending, replay, identity, Goto, Base, TypeOK, Whole,
     Thread, RecvPoint
<1>23. CASE Lost
  <2>1. \E point \in {"closing", "failing"} : Goto("recv", point) /\ sock' \in BOOLEAN
    BY <1>2, <1>23 DEF Lost, TypeOK
  <2>2. QED
    BY <1>2, <1>23, <2>1 DEF Lost, pinning, sending, replay, identity, Goto, Base, TypeOK,
       Whole, Thread, RecvPoint
<1>24. ASSUME NEW p \in Peer, NEW k \in Key, Pubkey(p, k) PROVE Base'
  BY <1>2, <1>24 DEF Pubkey, pinning, sending, replay, identity, Goto, Base, TypeOK, Whole,
     Thread, RecvPoint
<1>25. ASSUME NEW p \in Peer, NEW k \in Key, NEW i \in Id, Msg(p, k, i) PROVE Base'
  BY <1>2, <1>25 DEF Msg, InHand, pinning, sending, identity, Goto, Base, TypeOK, Whole, Rec,
     Thread, RecvPoint
<1>26. CASE UNCHANGED vars
  BY <1>2, <1>26 DEF vars, pinning, sending, replay, identity, Base, TypeOK, Whole
<1>27. QED
  BY <1>1, <1>3, <1>4, <1>5, <1>6, <1>7, <1>8, <1>9, <1>10, <1>11, <1>12, <1>13, <1>14, <1>15,
     <1>16, <1>17, <1>18, <1>19, <1>20, <1>21, <1>22, <1>23, <1>24, <1>25, <1>26 DEF Next,
     UiStep, RecvStep, Save, Thread

\* Every variable keeps its type.
THEOREM LegacyClientTypeOK == Spec => []TypeOK
<1>1. Base => TypeOK
  BY DEF Base
<1>2. QED
  BY <1>1, InitBase, BaseStep, PTL DEF Spec

-----------------------------------------------------------------------------
\* Only the answer of the user confirms, and it confirms what is then sent.
LEMMA TrustedStep == Base /\ Trusted /\ [Next]_vars => Trusted'
<1>1. SUFFICES ASSUME Base /\ Trusted, [Next]_vars PROVE Trusted'
  OBVIOUS
<1>2. TypeOK /\ Whole
  BY <1>1 DEF Base
<1>3. CASE Restart
  BY <1>1, <1>3 DEF Restart, Trusted, SentUnderConfirmed, Vouched, Nothing, NoPin, Thread
<1>4. CASE Connect
  BY <1>1, <1>4 DEF Connect, pinning, sending, Goto, Trusted, SentUnderConfirmed, Vouched
<1>5. ASSUME NEW p \in Peer, Send(p) PROVE Trusted'
  BY <1>1, <1>5 DEF Send, pinning, sending, Goto, Trusted, SentUnderConfirmed, Vouched
<1>6. CASE Confirm
  BY <1>1, <1>2, <1>6 DEF Confirm, Goto, Whole, Trusted, SentUnderConfirmed, Vouched, Rec,
     Thread
<1>7. CASE Refuse
  BY <1>1, <1>7 DEF Refuse, EndSend, pinning, Goto, Trusted, SentUnderConfirmed, Vouched
<1>8. CASE SaveX
  BY <1>1, <1>8 DEF SaveX, pinning, sending, Goto, Trusted, SentUnderConfirmed, Vouched
<1>9. CASE SaveE
  BY <1>1, <1>9 DEF SaveE, pinning, sending, Goto, Trusted, SentUnderConfirmed, Vouched
<1>10. CASE Hello
  BY <1>1, <1>10 DEF Hello, pinning, sending, Trusted, SentUnderConfirmed, Vouched
<1>11. CASE HelloFails
  BY <1>1, <1>11 DEF HelloFails, pinning, sending, Goto, Trusted, SentUnderConfirmed, Vouched
<1>12. CASE Poll
  BY <1>1, <1>12 DEF Poll, pinning, sending, Goto, Trusted, SentUnderConfirmed, Vouched
<1>13. CASE GiveUp
  BY <1>1, <1>13 DEF GiveUp, EndSend, pinning, Goto, Trusted, SentUnderConfirmed, Vouched
<1>14. CASE Look
  BY <1>1, <1>2, <1>14 DEF Look, EndSend, pinning, Goto, Whole, Trusted, SentUnderConfirmed,
     Vouched, Rec
<1>15. ASSUME NEW t \in Thread, Pin(t) PROVE Trusted'
  BY <1>1, <1>15 DEF Pin, sending, Goto, Trusted, SentUnderConfirmed, Vouched
<1>16. ASSUME NEW t \in Thread, Open(t) PROVE Trusted'
  BY <1>1, <1>16 DEF Open, sending, Goto, Trusted, SentUnderConfirmed, Vouched, Nothing, NoPin
<1>17. ASSUME NEW t \in Thread, Write(t) PROVE Trusted'
  BY <1>1, <1>17 DEF Write, AfterSave, Unsure, sending, Goto, Trusted, SentUnderConfirmed,
     Vouched, Nothing, NoPin
<1>18. ASSUME NEW t \in Thread, WriteFails(t) PROVE Trusted'
  <2>1. Vouched(disk')
    BY <1>1, <1>18 DEF WriteFails, Unsure, Trusted, Vouched, Nothing, NoPin
  <2>2. \A o \in Thread : Vouched(buffer'[o])
    BY <1>1, <1>18 DEF WriteFails, Trusted, Vouched, Nothing, NoPin
  <2>3. UNCHANGED <<pins, confirmed, unasked>> /\ (agreed' => agreed /\ t = "recv")
    BY <1>18 DEF WriteFails
  <2>4. CASE t = "ui"
    <3>1. pc'["ui"] = "idle" /\ ~agreed'
      BY <1>2, <1>18, <2>4 DEF WriteFails, Goto, Whole
    <3>2. QED
      BY <1>1, <2>1, <2>2, <2>3, <3>1 DEF Trusted, Vouched, SentUnderConfirmed
  <2>5. CASE t = "recv"
    <3>1. pc'["ui"] = pc["ui"] /\ work'["ui"] = work["ui"]
      BY <1>18, <2>5 DEF WriteFails, Done, Goto
    <3>2. QED
      BY <1>1, <2>1, <2>2, <2>3, <3>1 DEF Trusted, Vouched, SentUnderConfirmed
  <2>6. QED
    BY <2>4, <2>5 DEF Thread
<1>19. CASE Transmit
  BY <1>1, <1>2, <1>19 DEF Transmit, EndSend, pinning, Goto, Whole, Trusted, SentUnderConfirmed,
     Vouched, Thread
<1>20. CASE Check
  BY <1>1, <1>20 DEF Check, Done, pinning, sending, Goto, Trusted, SentUnderConfirmed, Vouched
<1>21. CASE Served
  BY <1>1, <1>21 DEF Served, pinning, sending, Goto, Trusted, SentUnderConfirmed, Vouched
<1>22. CASE Notice
  BY <1>1, <1>22 DEF Notice, pinning, sending, Goto, Trusted, SentUnderConfirmed, Vouched
<1>23. CASE Lost
  BY <1>1, <1>2, <1>23 DEF Lost, pinning, sending, Goto, Whole, Trusted, SentUnderConfirmed,
     Vouched, Thread
<1>24. ASSUME NEW p \in Peer, NEW k \in Key, Pubkey(p, k) PROVE Trusted'
  BY <1>1, <1>24 DEF Pubkey, pinning, sending, Goto, Trusted, SentUnderConfirmed, Vouched
<1>25. ASSUME NEW p \in Peer, NEW k \in Key, NEW i \in Id, Msg(p, k, i) PROVE Trusted'
  BY <1>1, <1>2, <1>25 DEF Msg, InHand, pinning, sending, Goto, TypeOK, Whole, Trusted,
     SentUnderConfirmed, Vouched, Thread
<1>26. CASE UNCHANGED vars
  BY <1>1, <1>26 DEF vars, pinning, sending, Trusted, SentUnderConfirmed, Vouched
<1>27. QED
  BY <1>1, <1>3, <1>4, <1>5, <1>6, <1>7, <1>8, <1>9, <1>10, <1>11, <1>12, <1>13, <1>14, <1>15,
     <1>16, <1>17, <1>18, <1>19, <1>20, <1>21, <1>22, <1>23, <1>24, <1>25, <1>26 DEF Next,
     UiStep, RecvStep, Save, Thread

\* A peer is looked up before it is pinned, and a race for it is recorded.
LEMMA UndisputedStep == Base /\ Undisputed /\ [Next]_vars => Undisputed'
<1>1. SUFFICES ASSUME Base /\ Undisputed, [Next]_vars PROVE Undisputed'
  OBVIOUS
<1>2. TypeOK /\ Whole
  BY <1>1 DEF Base
<1>3. CASE Restart
  BY <1>3 DEF Restart, Undisputed, Thread
<1>4. CASE Connect
  BY <1>4 DEF Connect, Goto, Undisputed, Thread
<1>5. ASSUME NEW p \in Peer, Send(p) PROVE Undisputed'
  BY <1>1, <1>5 DEF Send, InHand, pinning, Goto, Undisputed
<1>6. CASE Confirm
  BY <1>1, <1>2, <1>6 DEF Confirm, Goto, Whole, Undisputed, Rec, NoPin, Thread
<1>7. CASE Refuse
  BY <1>1, <1>2, <1>7 DEF Refuse, EndSend, Done, pinning, Goto, Whole, Undisputed, Thread
<1>8. CASE SaveX
  BY <1>2, <1>8 DEF SaveX, Goto, Whole, Undisputed, Thread
<1>9. CASE SaveE
  BY <1>2, <1>9 DEF SaveE, Goto, Whole, Undisputed, Thread
<1>10. CASE Hello
  BY <1>10 DEF Hello, Undisputed, Thread
<1>11. CASE HelloFails
  BY <1>2, <1>11 DEF HelloFails, Goto, Whole, Undisputed, Thread
<1>12. CASE Poll
  BY <1>1, <1>12 DEF Poll, InHand, pinning, Goto, Undisputed
<1>13. CASE GiveUp
  BY <1>1, <1>13 DEF GiveUp, EndSend, Done, pinning, Goto, Undisputed
<1>14. CASE Look
  BY <1>1, <1>2, <1>14 DEF Look, EndSend, Done, pinning, Goto, TypeOK, Whole, Undisputed
<1>15. ASSUME NEW t \in Thread, Pin(t) PROVE Undisputed'
  BY <1>1, <1>2, <1>15 DEF Pin, Goto, TypeOK, Whole, Undisputed, Rec, Pins, NoPin, Thread
<1>16. ASSUME NEW t \in Thread, Open(t) PROVE Undisputed'
  BY <1>1, <1>16 DEF Open, Goto, Undisputed
<1>17. ASSUME NEW t \in Thread, Write(t) PROVE Undisputed'
  BY <1>1, <1>17 DEF Write, AfterSave, Goto, Undisputed
<1>18. ASSUME NEW t \in Thread, WriteFails(t) PROVE Undisputed'
  BY <1>1, <1>2, <1>18 DEF WriteFails, Done, Goto, Whole, Undisputed
<1>19. CASE Transmit
  BY <1>1, <1>19 DEF Transmit, EndSend, Done, pinning, Goto, Undisputed
<1>20. CASE Check
  BY <1>1, <1>20 DEF Check, Done, pinning, Goto, Undisputed
<1>21. CASE Served
  BY <1>1, <1>21 DEF Served, Blocked, pinning, Goto, Undisputed
<1>22. CASE Notice
  BY <1>1, <1>22 DEF Notice, pinning, Goto, Undisputed
<1>23. CASE Lost
  BY <1>1, <1>2, <1>23 DEF Lost, pinning, Goto, Whole, Undisputed, Thread
<1>24. ASSUME NEW p \in Peer, NEW k \in Key, Pubkey(p, k) PROVE Undisputed'
  BY <1>1, <1>24 DEF Pubkey, pinning, Goto, Undisputed
<1>25. ASSUME NEW p \in Peer, NEW k \in Key, NEW i \in Id, Msg(p, k, i) PROVE Undisputed'
  <2>1. UNCHANGED <<pins, raced>> /\ pc'["ui"] = pc["ui"] /\ work'["ui"] = work["ui"]
    BY <1>2, <1>25 DEF Msg, InHand, pinning, Goto, TypeOK, Whole, Thread
  <2>2. pc'["recv"] = "pin" => pins[p] = NoPin /\ work'["recv"].peer = p
    BY <1>2, <1>25 DEF Msg, InHand, Goto, TypeOK, Whole
  <2>3. QED
    BY <1>1, <2>1, <2>2 DEF Undisputed, Thread
<1>26. CASE UNCHANGED vars
  BY <1>1, <1>26 DEF vars, pinning, Undisputed
<1>27. QED
  BY <1>1, <1>3, <1>4, <1>5, <1>6, <1>7, <1>8, <1>9, <1>10, <1>11, <1>12, <1>13, <1>14, <1>15,
     <1>16, <1>17, <1>18, <1>19, <1>20, <1>21, <1>22, <1>23, <1>24, <1>25, <1>26 DEF Next,
     UiStep, RecvStep, Save, Thread

\* Whoever changes the pins saves them afterwards.
LEMMA SavedStep == Base /\ Saved /\ [Next]_vars => Saved'
<1>1. SUFFICES ASSUME Base /\ Saved, [Next]_vars PROVE Saved'
  OBVIOUS
<1>2. TypeOK /\ Whole
  BY <1>1 DEF Base
<1>3. CASE Restart
  BY <1>3 DEF Restart, Saved, FileHoldsPins, Thread
<1>4. CASE Connect
  BY <1>1, <1>4 DEF Connect, pinning, Goto, Saved, FileHoldsPins, Saving
<1>5. ASSUME NEW p \in Peer, Send(p) PROVE Saved'
  BY <1>1, <1>5 DEF Send, pinning, Goto, Saved, FileHoldsPins, Saving
<1>6. CASE Confirm
  BY <1>2, <1>6 DEF Confirm, Goto, Whole, Saved, FileHoldsPins, Saving, Thread
<1>7. CASE Refuse
  BY <1>1, <1>7 DEF Refuse, EndSend, pinning, Goto, Saved, FileHoldsPins, Saving
<1>8. CASE SaveX
  BY <1>1, <1>8 DEF SaveX, pinning, Goto, Saved, FileHoldsPins, Saving
<1>9. CASE SaveE
  BY <1>1, <1>9 DEF SaveE, pinning, Goto, Saved, FileHoldsPins, Saving
<1>10. CASE Hello
  <2>1. /\ UNCHANGED <<pins, disk, buffer, mixed>>
        /\ \A t \in Thread : ~Saving(t) /\ ~Saving(t)'
    BY <1>2, <1>10 DEF Hello, pinning, Whole, Saving, Thread
  <2>2. QED
    BY <1>1, <2>1 DEF Saved, FileHoldsPins, Saving, Thread
<1>11. CASE HelloFails
  BY <1>1, <1>11 DEF HelloFails, pinning, Goto, Saved, FileHoldsPins, Saving
<1>12. CASE Poll
  BY <1>1, <1>12 DEF Poll, pinning, Goto, Saved, FileHoldsPins, Saving
<1>13. CASE GiveUp
  BY <1>1, <1>13 DEF GiveUp, EndSend, pinning, Goto, Saved, FileHoldsPins, Saving
<1>14. CASE Look
  BY <1>1, <1>2, <1>14 DEF Look, EndSend, pinning, Goto, Whole, Saved, FileHoldsPins, Saving
<1>15. ASSUME NEW t \in Thread, Pin(t) PROVE Saved'
  BY <1>1, <1>2, <1>15 DEF Pin, Goto, Whole, Saved, FileHoldsPins, Saving
<1>16. ASSUME NEW t \in Thread, Open(t) PROVE Saved'
  BY <1>2, <1>16 DEF Open, Goto, TypeOK, Saved, FileHoldsPins, Saving, Thread
<1>17. ASSUME NEW t \in Thread, Write(t) PROVE Saved'
  BY <1>1, <1>2, <1>17 DEF Write, AfterSave, Unsure, Goto, Whole, Saved, FileHoldsPins, Saving
<1>18. ASSUME NEW t \in Thread, WriteFails(t) PROVE Saved'
  BY <1>1, <1>18 DEF WriteFails, Goto, Saved, FileHoldsPins, Saving
<1>19. CASE Transmit
  BY <1>1, <1>19 DEF Transmit, EndSend, pinning, Goto, Saved, FileHoldsPins, Saving
<1>20. CASE Check
  BY <1>1, <1>20 DEF Check, pinning, Goto, Saved, FileHoldsPins, Saving
<1>21. CASE Served
  BY <1>1, <1>21 DEF Served, Blocked, pinning, Goto, Saved, FileHoldsPins, Saving
<1>22. CASE Notice
  BY <1>1, <1>22 DEF Notice, pinning, Goto, Saved, FileHoldsPins, Saving
<1>23. CASE Lost
  BY <1>1, <1>2, <1>23 DEF Lost, pinning, Goto, Whole, Saved, FileHoldsPins, Saving
<1>24. ASSUME NEW p \in Peer, NEW k \in Key, Pubkey(p, k) PROVE Saved'
  BY <1>1, <1>24 DEF Pubkey, pinning, Goto, Saved, FileHoldsPins, Saving
<1>25. ASSUME NEW p \in Peer, NEW k \in Key, NEW i \in Id, Msg(p, k, i) PROVE Saved'
  BY <1>1, <1>2, <1>25 DEF Msg, pinning, Goto, Whole, Saved, FileHoldsPins, Saving
<1>26. CASE UNCHANGED vars
  BY <1>1, <1>26 DEF vars, pinning, Saved, FileHoldsPins, Saving
<1>27. QED
  BY <1>1, <1>3, <1>4, <1>5, <1>6, <1>7, <1>8, <1>9, <1>10, <1>11, <1>12, <1>13, <1>14, <1>15,
     <1>16, <1>17, <1>18, <1>19, <1>20, <1>21, <1>22, <1>23, <1>24, <1>25, <1>26 DEF Next,
     UiStep, RecvStep, Save, Thread

\* Keys are made only while the files are not whole.
LEMMA OwnerStep == Base /\ Owner /\ [Next]_vars => Owner'
<1>1. SUFFICES ASSUME Base /\ Owner, [Next]_vars PROVE Owner'
  OBVIOUS
<1>2. TypeOK /\ Whole
  BY <1>1 DEF Base
<1>3. CASE Restart
  BY <1>1, <1>3 DEF Restart, Owner, Thread
<1>4. CASE Connect
  BY <1>1, <1>2, <1>4 DEF Connect, Latest, Goto, Whole, Owner, Own
<1>5. ASSUME NEW p \in Peer, Send(p) PROVE Owner'
  BY <1>1, <1>5 DEF Send, identity, Goto, Owner
<1>6. CASE Confirm
  BY <1>1, <1>6 DEF Confirm, identity, Goto, Owner
<1>7. CASE Refuse
  BY <1>1, <1>7 DEF Refuse, EndSend, identity, Goto, Owner
<1>8. CASE SaveX
  BY <1>1, <1>8 DEF SaveX, Goto, Owner
<1>9. CASE SaveE
  BY <1>1, <1>2, <1>9 DEF SaveE, Whole, Owner, Own
<1>10. CASE Hello
  BY <1>1, <1>10 DEF Hello, Owner
<1>11. CASE HelloFails
  BY <1>1, <1>11 DEF HelloFails, identity, Goto, Owner
<1>12. CASE Poll
  BY <1>1, <1>12 DEF Poll, identity, Goto, Owner
<1>13. CASE GiveUp
  BY <1>1, <1>13 DEF GiveUp, EndSend, identity, Goto, Owner
<1>14. CASE Look
  BY <1>1, <1>2, <1>14 DEF Look, EndSend, identity, Goto, Whole, Owner
<1>15. ASSUME NEW t \in Thread, Pin(t) PROVE Owner'
  BY <1>1, <1>15 DEF Pin, identity, Goto, Owner
<1>16. ASSUME NEW t \in Thread, Open(t) PROVE Owner'
  BY <1>1, <1>16 DEF Open, identity, Goto, Owner
<1>17. ASSUME NEW t \in Thread, Write(t) PROVE Owner'
  BY <1>1, <1>17 DEF Write, AfterSave, identity, Goto, Owner
<1>18. ASSUME NEW t \in Thread, WriteFails(t) PROVE Owner'
  BY <1>1, <1>18 DEF WriteFails, identity, Goto, Owner
<1>19. CASE Transmit
  BY <1>1, <1>19 DEF Transmit, EndSend, identity, Goto, Owner
<1>20. CASE Check
  BY <1>1, <1>20 DEF Check, identity, Goto, Owner
<1>21. CASE Served
  BY <1>1, <1>21 DEF Served, identity, Goto, Owner
<1>22. CASE Notice
  BY <1>1, <1>22 DEF Notice, identity, Goto, Owner
<1>23. CASE Lost
  BY <1>1, <1>2, <1>23 DEF Lost, identity, Goto, Whole, Owner, Thread
<1>24. ASSUME NEW p \in Peer, NEW k \in Key, Pubkey(p, k) PROVE Owner'
  BY <1>1, <1>24 DEF Pubkey, identity, Goto, Owner
<1>25. ASSUME NEW p \in Peer, NEW k \in Key, NEW i \in Id, Msg(p, k, i) PROVE Owner'
  BY <1>1, <1>2, <1>25 DEF Msg, identity, Goto, Whole, Owner, Thread
<1>26. CASE UNCHANGED vars
  BY <1>1, <1>26 DEF vars, identity, Owner
<1>27. QED
  BY <1>1, <1>3, <1>4, <1>5, <1>6, <1>7, <1>8, <1>9, <1>10, <1>11, <1>12, <1>13, <1>14, <1>15,
     <1>16, <1>17, <1>18, <1>19, <1>20, <1>21, <1>22, <1>23, <1>24, <1>25, <1>26 DEF Next,
     UiStep, RecvStep, Save, Thread

\* Taking an id that is not remembered keeps the window: trimmed when it is full,
\* and otherwise no id has been forgotten yet.
LEMMA TrimmedWindow ==
    ASSUME Window, NEW new, new \notin seen, NEW s \in Kept, seen' = s \cup {new},
           got' = got \cup {new}, last' = new, twice' <=> twice \/ new \in got
    PROVE  Window'
<1>1. /\ IsFiniteSet(got) /\ IsFiniteSet(seen) /\ seen \subseteq got
      /\ Cardinality(got) \in Nat /\ Cardinality(seen) \in Nat
      /\ Cardinality(seen) <= Cardinality(got)
      /\ Cardinality(seen) = Cardinality(got) => seen = got
  BY FS_Subset, FS_CardinalityType DEF Window
<1>2. Cardinality(seen) = Room(Cardinality(got))
  BY DEF Window
<1>3. IsFiniteSet(got') /\ Cardinality(got') \in Nat /\ Cardinality(got) <= Cardinality(got')
  <2>1. IsFiniteSet(got \cup {new})
    BY <1>1, FS_AddElement
  <2>2. Cardinality(got) <= Cardinality(got \cup {new})
    BY <2>1, FS_Subset
  <2>3. QED
    BY <2>1, <2>2, FS_CardinalityType
<1>4. s \subseteq seen
  BY DEF Kept
<1>5. IsFiniteSet(s) /\ Cardinality(s) \in Nat /\ Cardinality(seen') = Cardinality(s) + 1
  BY <1>1, <1>4, FS_Subset, FS_AddElement, FS_CardinalityType
<1>6. /\ Cardinality(seen') = Room(Cardinality(got'))
      /\ twice' => Cardinality(got') > REPLAY_WINDOW + 1
  <2>1. CASE Cardinality(seen) > REPLAY_WINDOW
    <3>1. Cardinality(s) = REPLAY_WINDOW
      BY <2>1 DEF Kept
    <3>2. Cardinality(seen) = REPLAY_WINDOW + 1 /\ Cardinality(got) > REPLAY_WINDOW
      BY <1>1, <1>2, <2>1 DEF Room
    <3>3. new \in got => Cardinality(got) > REPLAY_WINDOW + 1
      <4>1. new \in got => Cardinality(seen) # Cardinality(got)
        BY <1>1
      <4>2. QED
        BY <1>1, <3>2, <4>1
    <3>4. twice => Cardinality(got) > REPLAY_WINDOW + 1
      BY DEF Window
    <3>5. twice' => Cardinality(got) > REPLAY_WINDOW + 1
      BY <3>3, <3>4
    <3>6. Cardinality(seen') = Room(Cardinality(got'))
      <4>1. Cardinality(got') \in Nat /\ Cardinality(got') > REPLAY_WINDOW
        BY <1>1, <1>3, <3>2
      <4>2. Cardinality(seen') = REPLAY_WINDOW + 1
        BY <1>5, <3>1
      <4>3. QED
        BY <4>1, <4>2 DEF Room
    <3>7. Cardinality(got) > REPLAY_WINDOW + 1 => Cardinality(got') > REPLAY_WINDOW + 1
      BY <1>1, <1>3
    <3>8. QED
      BY <3>5, <3>6, <3>7
  <2>2. CASE ~(Cardinality(seen) > REPLAY_WINDOW)
    <3>1. s = seen
      BY <2>2 DEF Kept
    <3>2. Cardinality(got) <= REPLAY_WINDOW /\ Cardinality(seen) = Cardinality(got)
      BY <1>1, <1>2, <2>2 DEF Room
    <3>3. seen = got
      BY <1>1, <3>2
    <3>4. seen' = got'
      BY <3>1, <3>3
    <3>5. Cardinality(got') = Cardinality(got) + 1
      BY <1>5, <3>1, <3>3, <3>4
    <3>6. Cardinality(seen') = Room(Cardinality(got'))
      <4>1. Cardinality(got) \in Nat /\ Cardinality(got) <= REPLAY_WINDOW
        BY <1>1, <3>2
      <4>2. Cardinality(got') = Room(Cardinality(got'))
        BY <3>5, <4>1 DEF Room
      <4>3. QED
        BY <3>4, <4>2
    <3>7. ~twice
      <4>1. twice => Cardinality(got) > REPLAY_WINDOW + 1
        BY DEF Window
      <4>2. ~(Cardinality(got) > REPLAY_WINDOW + 1)
        BY <1>1, <3>2
      <4>3. QED
        BY <4>1, <4>2
    <3>8. new \notin got
      BY <3>3
    <3>9. QED
      BY <3>6, <3>7, <3>8
  <2>3. QED
    BY <2>1, <2>2
<1>7. seen' \subseteq got' /\ last' \in seen'
  BY <1>1, <1>4
<1>8. QED
  BY <1>3, <1>6, <1>7 DEF Window

\* The window is trimmed only when it is full.
LEMMA WindowStep == Base /\ Window /\ [Next]_vars => Window'
<1>1. SUFFICES ASSUME Base /\ Window, [Next]_vars PROVE Window'
  OBVIOUS
<1>2. TypeOK /\ Whole
  BY <1>1 DEF Base
<1>3. CASE Restart
  <2>1. got' = {} /\ seen' = {} /\ last' = NoId /\ ~twice'
    BY <1>3 DEF Restart
  <2>2. QED
    BY <2>1, FS_EmptySet DEF Window, Room
<1>4. CASE Connect
  BY <1>1, <1>4 DEF Connect, replay, Window
<1>5. ASSUME NEW p \in Peer, Send(p) PROVE Window'
  BY <1>1, <1>5 DEF Send, replay, Window
<1>6. CASE Confirm
  BY <1>1, <1>6 DEF Confirm, replay, Window
<1>7. CASE Refuse
  BY <1>1, <1>7 DEF Refuse, replay, Window
<1>8. CASE SaveX
  BY <1>1, <1>8 DEF SaveX, replay, Window
<1>9. CASE SaveE
  BY <1>1, <1>9 DEF SaveE, replay, Window
<1>10. CASE Hello
  BY <1>1, <1>10 DEF Hello, replay, Window
<1>11. CASE HelloFails
  BY <1>1, <1>11 DEF HelloFails, replay, Window
<1>12. CASE Poll
  BY <1>1, <1>12 DEF Poll, replay, Window
<1>13. CASE GiveUp
  BY <1>1, <1>13 DEF GiveUp, replay, Window
<1>14. CASE Look
  BY <1>1, <1>14 DEF Look, replay, Window
<1>15. ASSUME NEW t \in Thread, Pin(t) PROVE Window'
  BY <1>1, <1>15 DEF Pin, replay, Window
<1>16. ASSUME NEW t \in Thread, Open(t) PROVE Window'
  BY <1>1, <1>16 DEF Open, replay, Window
<1>17. ASSUME NEW t \in Thread, Write(t) PROVE Window'
  BY <1>1, <1>17 DEF Write, replay, Window
<1>18. ASSUME NEW t \in Thread, WriteFails(t) PROVE Window'
  BY <1>1, <1>18 DEF WriteFails, Window
<1>19. CASE Transmit
  BY <1>1, <1>19 DEF Transmit, replay, Window
<1>20. CASE Check
  <2>1. CASE id \in seen
    BY <1>1, <1>20, <2>1 DEF Check, Window
  <2>2. CASE id \notin seen
    <3>0. PICK new : new = id
      OBVIOUS
    <3>1. PICK s \in Kept : seen' = s \cup {new}
      BY <1>20, <2>2, <3>0 DEF Check
    <3>2. /\ new \notin seen /\ got' = got \cup {new} /\ last' = new
          /\ (twice' <=> twice \/ new \in got)
      BY <1>20, <2>2, <3>0 DEF Check
    <3>3. QED
      BY <1>1, <3>1, <3>2, TrimmedWindow
  <2>3. QED
    BY <2>1, <2>2
<1>21. CASE Served
  BY <1>1, <1>21 DEF Served, replay, Window
<1>22. CASE Notice
  BY <1>1, <1>22 DEF Notice, replay, Window
<1>23. CASE Lost
  BY <1>1, <1>23 DEF Lost, replay, Window
<1>24. ASSUME NEW p \in Peer, NEW k \in Key, Pubkey(p, k) PROVE Window'
  BY <1>1, <1>24 DEF Pubkey, replay, Window
<1>25. ASSUME NEW p \in Peer, NEW k \in Key, NEW i \in Id, Msg(p, k, i) PROVE Window'
  BY <1>1, <1>25 DEF Msg, Window
<1>26. CASE UNCHANGED vars
  BY <1>1, <1>26 DEF vars, replay, Window
<1>27. QED
  BY <1>1, <1>3, <1>4, <1>5, <1>6, <1>7, <1>8, <1>9, <1>10, <1>11, <1>12, <1>13, <1>14, <1>15,
     <1>16, <1>17, <1>18, <1>19, <1>20, <1>21, <1>22, <1>23, <1>24, <1>25, <1>26 DEF Next,
     UiStep, RecvStep, Save, Thread

-----------------------------------------------------------------------------
Inv == Base /\ Trusted /\ Undisputed /\ Saved /\ Owner /\ Window

\* At first nothing is pinned, announced or remembered.
LEMMA InitInv == Init => Inv
<1>1. SUFFICES ASSUME Init PROVE Inv
  OBVIOUS
<1>2. Base
  BY <1>1, InitBase
<1>3. pc["ui"] = "idle" /\ pc["recv"] = "none"
  BY <1>1 DEF Init, Thread
<1>4. Trusted
  BY <1>1, <1>3 DEF Init, Trusted, SentUnderConfirmed, Vouched, Nothing, NoPin
<1>5. Undisputed /\ Saved
  BY <1>1, <1>3 DEF Init, Undisputed, Saved, FileHoldsPins
<1>6. Owner
  BY <1>1, <1>3 DEF Init, Owner
<1>7. Window
  BY <1>1, FS_EmptySet DEF Init, Window, Room
<1>8. QED
  BY <1>2, <1>4, <1>5, <1>6, <1>7 DEF Inv

\* Every layer is kept under Base, so all of them hold for ever.
LEMMA Invariance == Spec => []Inv
<1>1. Inv /\ [Next]_vars => Inv'
  BY BaseStep, TrustedStep, UndisputedStep, SavedStep, OwnerStep, WindowStep DEF Inv
<1>2. QED
  BY <1>1, InitInv, PTL DEF Spec

\* No message is encrypted for a key that the user has not confirmed.
THEOREM OnlyConfirmedKeys == Spec => []SentUnderConfirmed
<1>1. Inv => SentUnderConfirmed
  BY DEF Inv, Trusted
<1>2. QED
  BY <1>1, Invariance, PTL

\* When no thread is saving the file holds the pins, unless two saves mixed.
THEOREM PinsAreSaved == Spec => []FileHoldsPins
<1>1. Inv => FileHoldsPins
  BY DEF Inv, Saved
<1>2. QED
  BY <1>1, Invariance, PTL

\* For a window of any size: an envelope is never taken twice in a row, nor before
\* more than REPLAY_WINDOW others were, and as many ids are remembered as there is
\* room for.
THEOREM ReplaysAreOldOnes == Spec => []ReplaysAreOld
<1>1. ASSUME Inv PROVE ReplaysAreOld
  <2>1. Window
    BY <1>1 DEF Inv
  <2>2. IsFiniteSet(got) /\ Cardinality(got) \in Nat
    BY <2>1, FS_CardinalityType DEF Window
  <2>3. ASSUME twice, NEW i \in got PROVE Cardinality(got \ {i}) > REPLAY_WINDOW
    <3>1. Cardinality(got) > REPLAY_WINDOW + 1
      BY <2>1, <2>3 DEF Window
    <3>2. Cardinality(got \ {i}) = Cardinality(got) - 1
      BY <2>2, <2>3, FS_RemoveElement
    <3>3. QED
      BY <2>2, <3>1, <3>2
  <2>4. QED
    BY <2>1, <2>3 DEF Window, Room, ReplaysAreOld
<1>2. QED
  BY <1>1, Invariance, PTL

\* A crash while the keys are written never makes a user announce other keys.
THEOREM OneIdentity == Spec => []IdentityIsStable
<1>1. ASSUME Inv PROVE IdentityIsStable
  <2>1. announced = {} \/ announced = {keyfiles}
    BY <1>1 DEF Inv, Owner
  <2>2. Cardinality({}) = 0 /\ \A keys : Cardinality({keys}) = 1
    BY FS_EmptySet, FS_Singleton
  <2>3. Cardinality(announced) = 0 \/ Cardinality(announced) = 1
    BY <2>1, <2>2
  <2>4. QED
    BY <2>3 DEF IdentityIsStable
<1>2. QED
  BY <1>1, Invariance, PTL

\* Only a race of the two threads replaces the key of a pin.
THEOREM PinsStay == Spec => PinnedKeysStay
<1>1. ASSUME Inv, [Next]_vars, NEW p \in Peer \ raced, pins[p] # NoPin
      PROVE  Restart \/ pins'[p].key = pins[p].key
  <2>1. TypeOK /\ Whole /\ Undisputed
    BY <1>1 DEF Inv, Base
  <2>2. ASSUME NEW t \in Thread, Pin(t) PROVE pins'[p] = pins[p]
    BY <1>1, <2>1, <2>2 DEF Pin, Undisputed
  <2>3. CASE Confirm
    BY <2>1, <2>3 DEF Confirm, Undisputed
  <2>4. Restart \/ Confirm \/ (\E t \in Thread : Pin(t)) \/ pins' = pins
    BY <1>1 DEF Next, vars, pinning, Connect, Send, Refuse, UiStep, RecvStep, Save, Served,
       Notice, Lost, Pubkey, Msg, SaveX, SaveE, Hello, HelloFails, Poll, GiveUp, Look, Open,
       Write, WriteFails, Transmit, Check, Thread
  <2>5. QED
    BY <2>2, <2>3, <2>4
<1>2. Inv /\ [Next]_vars
        => [Restart \/ \A p \in Peer \ raced : pins[p] # NoPin => pins'[p].key = pins[p].key]_vars
  BY <1>1
<1>3. QED
  BY <1>2, Invariance, PTL DEF Spec, PinnedKeysStay
=============================================================================
