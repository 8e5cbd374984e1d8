------------------------------- MODULE Inbox -------------------------------
(***************************************************************************)
(* The receiving browser of frontend/app.js: handleIncoming and            *)
(* decryptMessage, the replay store in IndexedDB and its copy in memory,   *)
(* login, logout and reload, and the acknowledgement that lets the server  *)
(* forget a message.                                                       *)
(*                                                                         *)
(* One handler of Handler is one call of handleIncoming.  JavaScript runs  *)
(* it without interruption from one await to the next, and other calls in  *)
(* between; each action is one such stretch.  IndexedDB runs transactions  *)
(* on a store in the order they are created, so a read sees every put that *)
(* was issued before it, and a put survives a reload once it completed.    *)
(* The server is reduced to what Delivery shows of it: at registration and *)
(* while it is connected a session is written what is pending for its      *)
(* user, a message that meets the drain and the live path more than once.  *)
(***************************************************************************)
EXTENDS Naturals, FiniteSets

CONSTANTS
    Account,    \* accounts that log in on this browser
    MsgId,      \* messages
    Owner,      \* the recipient of each message
    Handler,    \* concurrent calls of handleIncoming
    MaxCopies,  \* bound: times a message is written to one session
    Mishaps,    \* what may go wrong until the browser settles, see Mishap
    Nobody, NoMsg

ASSUME InboxAssumption ==
    /\ Owner \in [MsgId -> Account]
    /\ MaxCopies \in Nat \ {0}
    /\ Mishaps \subseteq {"drop", "logout", "reload", "fail", "expire"}
    /\ Nobody \notin Account /\ NoMsg \notin MsgId

VARIABLES
    row,        \* server: "absent", "pending" or "delivered"
    due,        \* copies of a message on their way over the open session
    acking,     \* acknowledgements on their way over it
    account,    \* state.username, Nobody when logged out
    open,       \* isSocketOpen()
    known,      \* accounts whose state.peers has been loaded
    mem,        \* state.replay
    store,      \* the replay store, as its next reader sees it
    durable,    \* the part of it whose transactions have completed
    expired,    \* messages older than MAX_MESSAGE_AGE_MS
    pc, msg,    \* where each handler is suspended, and its message
    shown,      \* times a message was displayed since the page was loaded
    seen,       \* messages displayed before the page was loaded
    calm        \* TRUE once nothing goes wrong any more

server  == <<row, due, acking>>
session == <<account, open, known>>
replay  == <<mem, store, durable>>
task    == <<pc, msg>>
vars    == <<server, session, replay, expired, task, shown, seen, calm>>

\* Awaits: loadPeer (1029), verify and deriveBits (582-590), the decryption
\* (593-594), the second read of the replay store (597) and its put (600).
Stage == {"idle", "peer", "verify", "decrypt", "recheck", "put"}

Mishap(kind) == ~calm /\ kind \in Mishaps

Init ==
    /\ row = [i \in MsgId |-> "absent"]
    /\ due = [i \in MsgId |-> 0]
    /\ acking = {}
    /\ account = Nobody /\ open = FALSE /\ known = FALSE
    /\ mem = {} /\ store = {} /\ durable = {}
    /\ expired = {}
    /\ pc = [h \in Handler |-> "idle"]
    /\ msg = [h \in Handler |-> NoMsg]
    /\ shown = [i \in MsgId |-> 0]
    /\ seen = {}
    /\ calm = FALSE

-----------------------------------------------------------------------------
\* The server and the session.

Post(i) ==
    /\ row[i] = "absent" /\ ~calm
    /\ row' = [row EXCEPT ![i] = "pending"]
    /\ IF open /\ account = Owner[i]
       THEN \E n \in 1..MaxCopies : due' = [due EXCEPT ![i] = n]
       ELSE UNCHANGED due
    /\ UNCHANGED <<acking, session, replay, expired, task, shown, seen, calm>>

\* completeHandshake: the server registers the session and drains the queue.
Connect ==
    /\ account # Nobody /\ ~open
    /\ open' = TRUE
    /\ \E n \in [MsgId -> 1..MaxCopies] :
          due' = [i \in MsgId |-> IF row[i] = "pending" /\ Owner[i] = account THEN n[i] ELSE 0]
    /\ UNCHANGED <<row, acking, account, known, replay, expired, task, shown, seen, calm>>

\* An acknowledgement arrives; the server records it for the session's user.
TakeAck(i) ==
    /\ i \in acking
    /\ acking' = acking \ {i}
    /\ row' = [row EXCEPT ![i] = IF Owner[i] = account THEN "delivered" ELSE @]
    /\ UNCHANGED <<due, session, replay, expired, task, shown, seen, calm>>

\* What was under way over a session that closes is lost.
CloseSession ==
    /\ open' = FALSE
    /\ due' = [i \in MsgId |-> 0]
    /\ acking' = {}

Drop ==
    /\ Mishap("drop") /\ open
    /\ CloseSession
    /\ UNCHANGED <<row, account, known, replay, expired, task, shown, seen, calm>>

Expire(i) ==
    /\ Mishap("expire") /\ row[i] = "pending"
    /\ expired' = expired \cup {i}
    /\ UNCHANGED <<server, session, replay, task, shown, seen, calm>>

Settle ==
    /\ calm' = TRUE
    /\ UNCHANGED <<server, session, replay, expired, task, shown, seen>>

-----------------------------------------------------------------------------
\* The page.

Login(a) ==
    /\ account = Nobody
    /\ account' = a
    /\ UNCHANGED <<server, open, known, replay, expired, task, shown, seen, calm>>

\* logout(): calls of handleIncoming that are suspended stay so.
Logout ==
    /\ Mishap("logout") /\ account # Nobody
    /\ account' = Nobody /\ known' = FALSE /\ mem' = {}
    /\ CloseSession
    /\ UNCHANGED <<row, store, durable, expired, task, shown, seen, calm>>

\* The page is reloaded or the browser crashes: memory is gone, and a put that
\* has not completed may be.
Reload ==
    /\ Mishap("reload")
    /\ account' = Nobody /\ known' = FALSE /\ mem' = {}
    /\ CloseSession
    /\ pc' = [h \in Handler |-> "idle"]
    /\ msg' = [h \in Handler |-> NoMsg]
    /\ \E kept \in SUBSET (store \ durable) : store' = durable \cup kept /\ durable' = store'
    /\ seen' = seen \cup {i \in MsgId : shown[i] > 0}
    /\ shown' = [i \in MsgId |-> 0]
    /\ UNCHANGED <<row, expired, calm>>

-----------------------------------------------------------------------------
\* handleIncoming.

Suspend(h, stage, i) == pc' = [pc EXCEPT ![h] = stage] /\ msg' = [msg EXCEPT ![h] = i]

\* An exception of decryptMessage or loadPeer: caught, and nothing is acknowledged.
Rejected(h) == Suspend(h, "idle", NoMsg)

\* The checks of decryptMessage up to the first read of the replay store (565-578).
Admissible(i) == account = Owner[i] /\ i \notin expired /\ i \notin mem /\ i \notin store

\* Mutant: a repetition is acknowledged, since it has been processed already.
ArriveAcking(h, i) ==
    /\ pc[h] = "idle" /\ open /\ due[i] > 0
    /\ due' = [due EXCEPT ![i] = @ - 1]
    /\ \/ ~known /\ Suspend(h, "peer", i) /\ UNCHANGED acking
       \/ known /\ Admissible(i) /\ Suspend(h, "verify", i) /\ UNCHANGED acking
       \/ known /\ ~Admissible(i) /\ Rejected(h) /\ acking' = acking \cup {i}
    /\ UNCHANGED <<row, session, replay, expired, shown, seen, calm>>

\* Lines 1006-1029, and on to line 578 when the sender's keys are loaded.
Arrive(h, i) ==
    /\ pc[h] = "idle" /\ open /\ due[i] > 0
    /\ due' = [due EXCEPT ![i] = @ - 1]
    /\ \/ ~known /\ Suspend(h, "peer", i)
       \/ known /\ Admissible(i) /\ Suspend(h, "verify", i)
       \/ known /\ ~Admissible(i) /\ Rejected(h)
    /\ UNCHANGED <<row, acking, session, replay, expired, shown, seen, calm>>

\* loadPeer returns (1029), or the request or the pin check fails.
Load(h) ==
    /\ pc[h] = "peer"
    /\ \/ known' = TRUE /\ Admissible(msg[h]) /\ Suspend(h, "verify", msg[h])
       \/ known' = TRUE /\ ~Admissible(msg[h]) /\ Rejected(h)
       \/ (Mishap("fail") \/ account = Nobody) /\ Rejected(h) /\ UNCHANGED known
    /\ UNCHANGED <<server, account, open, replay, expired, shown, seen, calm>>

\* Lines 581-590: the signature holds, and the private key is used, which is
\* gone after a logout and another's after the next login.
Verify(h) ==
    /\ pc[h] = "verify"
    /\ \/ account = Owner[msg[h]] /\ Suspend(h, "decrypt", msg[h])
       \/ (account # Owner[msg[h]] \/ Mishap("fail")) /\ Rejected(h)
    /\ UNCHANGED <<server, session, replay, expired, shown, seen, calm>>

\* Lines 593-597: decrypted; the replay store is read a second time.
Decrypt(h) ==
    /\ pc[h] = "decrypt"
    /\ \/ msg[h] \notin mem \cup store /\ Suspend(h, "recheck", msg[h])
       \/ msg[h] \in mem \cup store /\ Rejected(h)
    /\ UNCHANGED <<server, session, replay, expired, shown, seen, calm>>

\* Line 597 returns nothing and line 600 issues the put.
Consume(h) ==
    /\ pc[h] = "recheck"
    /\ store' = store \cup {msg[h]}
    /\ Suspend(h, "put", msg[h])
    /\ UNCHANGED <<server, session, mem, durable, expired, shown, seen, calm>>

\* Mutant: a failed put takes the id away even if another call stored it.
ConsumeFailsBlindly(h) ==
    /\ Mishap("fail") /\ pc[h] = "put"
    /\ store' = store \ {msg[h]}
    /\ Rejected(h)
    /\ UNCHANGED <<server, session, mem, durable, expired, shown, seen, calm>>

\* Line 600 throws: the transaction aborted, unless another call wrote the same.
ConsumeFails(h) ==
    /\ Mishap("fail") /\ pc[h] = "put"
    /\ store' = IF \E g \in Handler \ {h} : pc[g] = "put" /\ msg[g] = msg[h]
                THEN store ELSE store \ ({msg[h]} \ durable)
    /\ Rejected(h)
    /\ UNCHANGED <<server, session, mem, durable, expired, shown, seen, calm>>

\* Mutants: go on when the put was accepted and not when it completed (183);
\* without the acknowledgement.
FinishEarly(h) ==
    /\ pc[h] = "put"
    /\ mem' = mem \cup {msg[h]}
    /\ shown' = [shown EXCEPT ![msg[h]] = @ + 1]
    /\ acking' = IF open THEN acking \cup {msg[h]} ELSE acking
    /\ Rejected(h)
    /\ UNCHANGED <<row, due, session, store, durable, expired, seen, calm>>

FinishSilently(h) ==
    /\ pc[h] = "put"
    /\ durable' = durable \cup {msg[h]}
    /\ mem' = mem \cup {msg[h]}
    /\ shown' = [shown EXCEPT ![msg[h]] = @ + 1]
    /\ Rejected(h)
    /\ UNCHANGED <<server, session, store, expired, seen, calm>>

\* The put completed: lines 601-602 and 1031-1045, on whatever session is open.
Finish(h) ==
    /\ pc[h] = "put"
    /\ durable' = durable \cup {msg[h]}
    /\ mem' = mem \cup {msg[h]}
    /\ shown' = [shown EXCEPT ![msg[h]] = @ + 1]
    /\ acking' = IF open THEN acking \cup {msg[h]} ELSE acking
    /\ Rejected(h)
    /\ UNCHANGED <<row, due, session, store, expired, seen, calm>>

Handle(h) == Load(h) \/ Verify(h) \/ Decrypt(h) \/ Consume(h) \/ ConsumeFails(h) \/ Finish(h)

Next ==
    \/ \E i \in MsgId : Post(i) \/ TakeAck(i) \/ Expire(i)
    \/ Connect \/ Drop \/ Settle \/ Logout \/ Reload
    \/ \E a \in Account : Login(a)
    \/ \E h \in Handler : Handle(h) \/ \E i \in MsgId : Arrive(h, i)

Spec == Init /\ [][Next]_vars

\* The event loop resumes every handler whose promise settled, a browser that
\* is logged in reconnects (985), and what travels over a session arrives.
Fairness ==
    /\ WF_vars(Settle) /\ WF_vars(Connect)
    /\ \A i \in MsgId : WF_vars(TakeAck(i))
    /\ \A i \in MsgId : WF_vars(\E h \in Handler : Arrive(h, i))
    /\ \A h \in Handler : WF_vars(Handle(h))

FairSpec == Spec /\ Fairness

-----------------------------------------------------------------------------
\* Every variable keeps its type.
TypeOK ==
    /\ row \in [MsgId -> {"absent", "pending", "delivered"}]
    /\ due \in [MsgId -> 0..MaxCopies]
    /\ acking \subseteq MsgId
    /\ account \in Account \cup {Nobody} /\ open \in BOOLEAN /\ known \in BOOLEAN
    /\ mem \subseteq MsgId /\ store \subseteq MsgId /\ durable \subseteq store
    /\ expired \subseteq MsgId
    /\ pc \in [Handler -> Stage] /\ msg \in [Handler -> MsgId \cup {NoMsg}]
    /\ shown \in [MsgId -> Nat] /\ seen \subseteq MsgId
    /\ calm \in BOOLEAN

\* "Confirm only after successful signature verification and decryption" (1042):
\* the server forgets no message that its recipient has not been shown, also
\* when the ack is written to a session that was opened later.
DeliveredWasShown ==
    \A i \in MsgId : row[i] = "delivered" => shown[i] > 0 \/ i \in seen

\* The replay store outlives the page: what was displayed before a reload is
\* never displayed again, whatever the server sends and whichever put was lost.
NoRepeatAfterReload == \A i \in MsgId : i \in seen => shown[i] = 0

\* The promise the receiving end keeps: each message as Mailbox sees it, where
\* "handed" is displayed to the recipient.  The sender, not modelled, is some
\* user who is not an account of this browser.
Displayed(i) == shown[i] > 0 \/ i \in seen
phase == [i \in MsgId |-> IF row[i] = "absent" THEN "absent"
                          ELSE IF row[i] = "delivered" THEN "confirmed"
                          ELSE IF Displayed(i) THEN "handed" ELSE "queued"]
letter == [i \in MsgId |-> IF row[i] = "absent" THEN NoMsg ELSE [from |-> Nobody, to |-> Owner[i]]]

Box == INSTANCE Mailbox WITH phase <- phase, letter <- letter, NoLetter <- NoMsg,
                             User <- Account \cup {Nobody}

\* Every behaviour of the browser, whatever is lost or interrupted, is one of the
\* mailbox: a message is displayed before it is confirmed, which happens once,
\* and the display is not forgotten by a logout, a reload or another account.
ImplementsMailbox == Box!Spec

\* Once message i is stored for good and no call is past its second check, no
\* call ever gets there again: repetitions need calls that overlap (597).
Closed(i) == i \in durable /\ \A h \in Handler : msg[h] = i => pc[h] \notin {"recheck", "put"}

ConsumedForGood == [][\A i \in MsgId : Closed(i) => Closed(i)']_vars

\* Nobody works on message i, and it has not been consumed.
Untouched(i) ==
    /\ row[i] = "pending" /\ i \notin store \cup mem \cup expired
    /\ \A h \in Handler : msg[h] # i

\* A failure before the replay id was stored is repaired by the next session
\* (1043): a message nobody has consumed is then displayed and acknowledged.
RetriesWork ==
    \A i \in MsgId :
        calm /\ ~open /\ account = Owner[i] /\ Untouched(i) ~> row[i] = "delivered"

\* INFORME 128 (F6): a message sent while the recipient is away is received.
EventuallyShown ==
    \A i \in MsgId :
        calm /\ account = Owner[i] /\ row[i] = "pending" /\ i \notin expired /\ ~open
            ~> shown[i] > 0 \/ i \in seen
=============================================================================
