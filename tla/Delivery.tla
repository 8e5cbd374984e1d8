------------------------------ MODULE Delivery ------------------------------
(***************************************************************************)
(* The message relay of app/main.py: the /ws endpoint, the process-local   *)
(* map _connections that routes a user to one WebSocket, and the messages  *)
(* table of app/db.py that outlives both.                                  *)
(*                                                                         *)
(* One session slot of Socket runs one websocket_endpoint coroutine.  The  *)
(* server is a single asyncio process whose database calls block, so a     *)
(* handler runs without interruption from one suspending `await' to the    *)
(* next; each action below is one such stretch.  The bodies under          *)
(* _connections_lock never suspend, hence the lock is never contended and  *)
(* taking it is not a step.  A write to a socket happens at once and then  *)
(* may suspend its caller until the transport has drained; that is where   *)
(* other handlers run.  Sends to a session's own socket that carry no      *)
(* state (errors, the "acknowledged" reply) only delay their own handler   *)
(* and are left out.                                                       *)
(***************************************************************************)
EXTENDS Naturals, Sequences

CONSTANTS
    User,       \* registered accounts
    Socket,     \* session slots; a slot is reused once nothing refers to it
    MsgId,      \* client-chosen message identifiers
    Address,    \* well-formed recipient names, registered or not
    Traffic,    \* what clients may send: records [msg, from, to]
    MaxInbox,   \* bound: received frames waiting for one handler
    Mishaps,    \* what may go wrong until sessions settle, see Mishap
    NoUser, NoSocket, NoMsg, NoRow

\* A row of the messages table.
Row == [sender : User, recipient : User, id : Nat, delivered : BOOLEAN]

ASSUME DeliveryAssumption ==
    /\ User \subseteq Address
    /\ Traffic \subseteq [msg : MsgId, from : User, to : Address]
    /\ MaxInbox \in Nat
    /\ Mishaps \subseteq {"crash", "loss", "connect", "audit", "reject", "tab"}
    /\ NoUser \notin User /\ NoSocket \notin Socket /\ NoMsg \notin MsgId
    /\ NoRow \notin Row

VARIABLES
    conn,       \* _connections: user -> routed socket
    row,        \* the messages table, by msg_id
    lastId,     \* its AUTOINCREMENT counter
    pc,         \* where each session's coroutine is suspended
    user,       \* the authenticated user of a session
    link,       \* "up", "dead" (client gone, server unaware) or "closed"
    inbox,      \* frames received and not yet handled
    sentOn,     \* messages written to a session's socket
    todo,       \* rest of the pending_messages snapshot of a drain
    job,        \* message a suspended handler is working on
    peer,       \* socket whose send a suspended handler awaits
    handed,     \* messages written to some session of their recipient
    told,       \* last delivery status written to the sender of a message
    lapsed,     \* rows committed whose handler failed before delivering
    calm        \* TRUE once connections and the server stay up

table == <<row, lastId>>
task  == <<user, link, inbox, todo>>
vars  == <<conn, row, lastId, pc, user, link, inbox, sentOn, todo, job, peer,
           handed, told, lapsed, calm>>

MessageFrame == [type : {"message"}, msg : MsgId, to : Address]
AckFrame     == [type : {"ack"}, msg : MsgId]

\* Suspension points: the auth frame (477), the ready frame (500), the close of
\* the session replaced (507), a drain's send (516), receive_text (519), the
\* send of _deliver (558) and of _notify_sender (560, 572).  "gone": returned;
\* "failed": raised before the try statement of line 512 was entered.
Serving    == {"closing", "drain", "loop", "deliver", "notify"}
ProgramCtr == Serving \cup {"gone", "auth", "ready", "failed"}
Status     == {"none", "sent", "queued", "delivered"}

\* The server crashes, a connection is lost, an audit insert raises when a user
\* connects or after another commit, an auth frame is late or invalid, a user
\* opens another tab.
Mishap(kind) == ~calm /\ kind \in Mishaps

Posted(i)    == row[i] # NoRow
Pending(i)   == Posted(i) /\ ~row[i].delivered
Delivered(i) == Posted(i) /\ row[i].delivered

\* Mutants: the WHERE clause forgets the recipient; nothing is ever found.
PendingForAnyone(u) == {i \in MsgId : Pending(i)}
PendingForNobody(u) == {}

\* pending_messages(u)
PendingFor(u) == {i \in MsgId : Pending(i) /\ row[i].recipient = u}

\* ORDER BY id
IsFirst(i, S) == \A j \in S : row[i].id <= row[j].id

\* Mutant: remove whatever route u has, not only the one to s.
CutAnyRoute(c, u, s) == [c EXCEPT ![u] = NoSocket]

\* _remove_connection(u, s) applied to the map c
Cut(c, u, s) == IF c[u] = s THEN [c EXCEPT ![u] = NoSocket] ELSE c

\* A send to t does not raise: t is a route, and the server has not seen it close.
Live(t) == t # NoSocket /\ link[t] # "closed"

\* A send that has been awaited: it may raise only if its socket closed.
Outcome(t) == IF link[t] = "closed" THEN BOOLEAN ELSE {TRUE}

Init ==
    /\ conn = [u \in User |-> NoSocket]
    /\ row = [i \in MsgId |-> NoRow]
    /\ lastId = 0
    /\ pc = [s \in Socket |-> "gone"]
    /\ user = [s \in Socket |-> NoUser]
    /\ link = [s \in Socket |-> "closed"]
    /\ inbox = [s \in Socket |-> <<>>]
    /\ sentOn = [s \in Socket |-> {}]
    /\ todo = [s \in Socket |-> {}]
    /\ job = [s \in Socket |-> NoMsg]
    /\ peer = [s \in Socket |-> NoSocket]
    /\ handed = {}
    /\ told = [i \in MsgId |-> "none"]
    /\ lapsed = {}
    /\ calm = FALSE

-----------------------------------------------------------------------------
\* The end of a coroutine: its frame and whatever it had received are dropped.
End(s, how) ==
    /\ pc' = [pc EXCEPT ![s] = how]
    /\ link' = [link EXCEPT ![s] = "closed"]
    /\ inbox' = [inbox EXCEPT ![s] = <<>>]
    /\ sentOn' = [sentOn EXCEPT ![s] = {}]
    /\ todo' = [todo EXCEPT ![s] = {}]
    /\ job' = [job EXCEPT ![s] = NoMsg]
    /\ peer' = [peer EXCEPT ![s] = NoSocket]
    /\ user' = [user EXCEPT ![s] = IF how = "failed" THEN user[s] ELSE NoUser]

\* The finally clause, lines 580-582.
Leave(s, c) == End(s, "gone") /\ conn' = Cut(c, user[s], s)

\* Wait in receive_text again, with the routing map c.
Loop(s, c) ==
    /\ conn' = c
    /\ pc' = [pc EXCEPT ![s] = "loop"]
    /\ job' = [job EXCEPT ![s] = NoMsg]
    /\ peer' = [peer EXCEPT ![s] = NoSocket]

\* Suspend at point p in a send to socket t about message i.
Await(s, p, t, i, c) ==
    /\ conn' = c
    /\ pc' = [pc EXCEPT ![s] = p]
    /\ job' = [job EXCEPT ![s] = i]
    /\ peer' = [peer EXCEPT ![s] = t]

\* What _deliver writes: message i on the socket t of its recipient.
Hand(t, i) ==
    /\ sentOn' = [sentOn EXCEPT ![t] = @ \cup {i}]
    /\ handed' = handed \cup {i}
    /\ lapsed' = lapsed \ {i}

\* Mutant: every sender is told "acknowledged", the word meant for recipients.
NotifyAcknowledged(s, u, i, status, c) ==
    \/ /\ Live(c[u])
       /\ told' = [told EXCEPT ![i] = "acknowledged"]
       /\ Await(s, "notify", c[u], i, c)
    \/ /\ ~Live(c[u])
       /\ told' = told
       /\ Loop(s, [c EXCEPT ![u] = NoSocket])

\* _notify_sender(u, i, status) on the map c, then the end of the iteration.
Notify(s, u, i, status, c) ==
    LET t == c[u] IN
    \/ /\ Live(t)
       /\ told' = [told EXCEPT ![i] = status]
       /\ Await(s, "notify", t, i, c)
    \/ /\ ~Live(t)
       /\ told' = told
       /\ Loop(s, [c EXCEPT ![u] = NoSocket])

\* The for loop of lines 515-517 over the messages S still to be delivered.
Drain(s, S, c) ==
    LET u == user[s]  t == c[u] IN
    \/ /\ S = {}
       /\ Loop(s, c)
       /\ todo' = [todo EXCEPT ![s] = {}]
       /\ UNCHANGED <<sentOn, handed, lapsed>>
    \/ /\ S # {} /\ ~Live(t)
       /\ Loop(s, [c EXCEPT ![u] = NoSocket])
       /\ todo' = [todo EXCEPT ![s] = {}]
       /\ UNCHANGED <<sentOn, handed, lapsed>>
    \/ /\ Live(t)
       /\ \E i \in S :
             /\ IsFirst(i, S)
             /\ Hand(t, i)
             /\ todo' = [todo EXCEPT ![s] = S \ {i}]
             /\ Await(s, "drain", t, NoMsg, c)

-----------------------------------------------------------------------------
\* The client side: browsers open, lose and use sessions.

Referenced(s) == (\E u \in User : conn[u] = s) \/ (\E x \in Socket : peer[x] = s)
Online(u)     == \E x \in Socket : user[x] = u /\ link[x] = "up"

\* A browser of u connects and presents u's token; accept() has been called.
Open(s, u) ==
    /\ pc[s] \in {"gone", "failed"} /\ ~Referenced(s)
    /\ Online(u) => Mishap("tab")
    /\ pc' = [pc EXCEPT ![s] = "auth"]
    /\ user' = [user EXCEPT ![s] = u]
    /\ link' = [link EXCEPT ![s] = "up"]
    /\ UNCHANGED <<conn, table, inbox, sentOn, todo, job, peer, handed, told,
                   lapsed, calm>>

\* The browser disappears without the server noticing yet.
LoseLink(s) ==
    /\ Mishap("loss") /\ link[s] = "up"
    /\ link' = [link EXCEPT ![s] = "dead"]
    /\ UNCHANGED <<conn, table, pc, user, inbox, sentOn, todo, job, peer,
                   handed, told, lapsed, calm>>

\* The transport reports the disconnection, or its keepalive times out.
NoticeLoss(s) ==
    /\ link[s] = "dead"
    /\ link' = [link EXCEPT ![s] = "closed"]
    /\ UNCHANGED <<conn, table, pc, user, inbox, sentOn, todo, job, peer,
                   handed, told, lapsed, calm>>

Receive(s, frame) ==
    /\ pc[s] \in Serving /\ link[s] = "up"
    /\ Len(inbox[s]) < MaxInbox
    /\ inbox' = [inbox EXCEPT ![s] = Append(@, frame)]
    /\ UNCHANGED <<conn, table, pc, user, link, sentOn, todo, job, peer,
                   handed, told, lapsed, calm>>

\* A client submits a message; it may repeat a msg_id, its own or another's.
SubmitMessage(s, m) ==
    /\ m.from = user[s]
    /\ calm => ~Posted(m.msg)
    /\ Receive(s, [type |-> "message", msg |-> m.msg, to |-> m.to])

\* A client may acknowledge a message it has been handed.  It writes the ack to
\* whatever session is open by then (app.js 1045), which may be another user's.
\* It need not: a page rejects a message that it took before (578, 597), and what
\* it could not decrypt, without an ack (1044).
SubmitAck(s, i) ==
    /\ i \in handed
    /\ calm => i \in sentOn[s] /\ Pending(i)
    /\ Receive(s, [type |-> "ack", msg |-> i])

Settle == /\ calm' = TRUE
          /\ UNCHANGED <<conn, table, pc, task, sentOn, job, peer, handed,
                         told, lapsed>>

-----------------------------------------------------------------------------
\* The server side: the coroutine of session s, from one suspension to the next.

\* Lines 476-495: a valid auth frame arrives in time; ready is written.
Authenticate(s) ==
    /\ pc[s] = "auth"
    /\ pc' = [pc EXCEPT ![s] = "ready"]
    /\ UNCHANGED <<conn, table, task, sentOn, job, peer, handed, told, lapsed,
                   calm>>

\* Lines 496-498, or a disconnection, which propagates: no valid frame came.
Reject(s) ==
    /\ pc[s] = "auth" /\ (link[s] = "up" => Mishap("reject"))
    /\ End(s, "gone")
    /\ UNCHANGED <<conn, table, handed, told, lapsed, calm>>

\* Line 500 raises: the session never gets a route.
ReadyFails(s) ==
    /\ pc[s] = "ready" /\ link[s] = "closed"
    /\ End(s, "gone")
    /\ UNCHANGED <<conn, table, handed, told, lapsed, calm>>

\* Lines 501-509.  With no session to replace nothing suspends before the drain.
Register(s) ==
    LET u == user[s]  old == conn[u]  c == [conn EXCEPT ![u] = s] IN
    /\ pc[s] = "ready"
    /\ \/ /\ old = NoSocket
          /\ Drain(s, PendingFor(u), c)
          /\ UNCHANGED link
       \/ /\ old # NoSocket
          /\ link' = [link EXCEPT ![old] = "closed"]
          /\ Await(s, "closing", old, NoMsg, c)
          /\ UNCHANGED <<sentOn, todo, handed, lapsed>>
    /\ UNCHANGED <<table, user, inbox, told, calm>>

\* Mutant: a session that replaced another leaves the drain to it.
StartNoDrain(s) ==
    /\ pc[s] = "closing"
    /\ Drain(s, {}, conn)
    /\ UNCHANGED <<table, user, link, inbox, told, calm>>

\* Lines 511-517, once old.close() has returned or raised.
StartDrain(s) ==
    /\ pc[s] = "closing"
    /\ Drain(s, PendingFor(user[s]), conn)
    /\ UNCHANGED <<table, user, link, inbox, told, calm>>

\* Line 511 raises (the database stays locked past its timeout).  The try
\* statement has not been entered, so no finally clause removes the route.
ConnectAuditFails(s) ==
    /\ Mishap("connect")
    /\ \/ pc[s] = "ready" /\ conn[user[s]] = NoSocket /\ conn' = [conn EXCEPT ![user[s]] = s]
       \/ pc[s] = "closing" /\ UNCHANGED conn
    /\ End(s, "failed")
    /\ UNCHANGED <<table, handed, told, lapsed, calm>>

\* Line 516 resumes: go on with the snapshot, or give it up and serve.
ResumeDrain(s) ==
    /\ pc[s] = "drain"
    /\ \E ok \in Outcome(peer[s]) :
          \/ ok /\ Drain(s, todo[s], conn)
          \/ /\ ~ok
             /\ Loop(s, Cut(conn, user[s], peer[s]))
             /\ todo' = [todo EXCEPT ![s] = {}]
             /\ UNCHANGED <<sentOn, handed, lapsed>>
    /\ UNCHANGED <<table, user, link, inbox, told, calm>>

\* The checks of a message frame from u, lines 536-545 and 550.
Acceptable(u, f) ==
    /\ f.to \in User \ {u}
    /\ Posted(f.msg) => row[f.msg].sender = u /\ row[f.msg].recipient = f.to

\* Mutant: INSERT OR REPLACE.
EnqueueReplacing(i, from, to) ==
    /\ lastId' = lastId + 1
    /\ row' = [row EXCEPT ![i] = [sender |-> from, recipient |-> to,
                                  id |-> lastId + 1, delivered |-> FALSE]]

\* enqueue_message: insert, or find the row the UNIQUE msg_id already has.
Enqueue(i, from, to) ==
    IF Posted(i) THEN UNCHANGED table
    ELSE /\ lastId' = lastId + 1
         /\ row' = [row EXCEPT ![i] = [sender |-> from, recipient |-> to,
                                       id |-> lastId + 1, delivered |-> FALSE]]

\* Lines 533-560 up to the first send that suspends.
HandleMessage(s) ==
    /\ pc[s] = "loop" /\ inbox[s] # <<>>
    /\ LET f == Head(inbox[s])  i == f.msg  u == user[s] IN
       /\ f.type = "message" /\ Acceptable(u, f)
       /\ inbox' = [inbox EXCEPT ![s] = Tail(@)]
       /\ Enqueue(i, u, f.to)
       /\ LET t == conn[f.to] IN
          \/ /\ Delivered(i)
             /\ Notify(s, u, i, "delivered", conn)
             /\ UNCHANGED <<sentOn, handed, lapsed>>
          \/ /\ ~Delivered(i) /\ Live(t)
             /\ Hand(t, i)
             /\ Await(s, "deliver", t, i, conn)
             /\ UNCHANGED told
          \/ /\ ~Delivered(i) /\ ~Live(t)
             /\ Notify(s, u, i, "queued", [conn EXCEPT ![f.to] = NoSocket])
             /\ UNCHANGED <<sentOn, handed, lapsed>>
    /\ UNCHANGED <<user, link, todo, calm>>

\* Line 554 raises after the row was committed: the handler ends (576-582).
EnqueueAuditFails(s) ==
    /\ Mishap("audit")
    /\ pc[s] = "loop" /\ inbox[s] # <<>>
    /\ LET f == Head(inbox[s]) IN
       /\ f.type = "message" /\ Acceptable(user[s], f) /\ ~Posted(f.msg)
       /\ Enqueue(f.msg, user[s], f.to)
       /\ lapsed' = lapsed \cup {f.msg}
    /\ Leave(s, conn)
    /\ UNCHANGED <<handed, told, calm>>

\* Mutant: a send that succeeds counts as delivery.
ResumeDelivered(s) ==
    /\ pc[s] = "deliver"
    /\ \E ok \in Outcome(peer[s]) :
          Notify(s, user[s], job[s], IF ok THEN "delivered" ELSE "queued",
                 IF ok THEN conn ELSE Cut(conn, row[job[s]].recipient, peer[s]))
    /\ UNCHANGED <<table, task, sentOn, handed, lapsed, calm>>

\* Lines 558-560 resume: the send of _deliver returned or raised.
ResumeDeliver(s) ==
    /\ pc[s] = "deliver"
    /\ \E ok \in Outcome(peer[s]) :
          Notify(s, user[s], job[s], IF ok THEN "sent" ELSE "queued",
                 IF ok THEN conn ELSE Cut(conn, row[job[s]].recipient, peer[s]))
    /\ UNCHANGED <<table, task, sentOn, handed, lapsed, calm>>

\* Lines 561-572: record the acknowledgement of the recipient, tell the sender.
HandleAck(s) ==
    /\ pc[s] = "loop" /\ inbox[s] # <<>>
    /\ LET f == Head(inbox[s])  i == f.msg IN
       /\ f.type = "ack" /\ Posted(i) /\ row[i].recipient = user[s]
       /\ row' = [row EXCEPT ![i].delivered = TRUE]
       /\ Notify(s, row[i].sender, i, "delivered", conn)
    /\ inbox' = [inbox EXCEPT ![s] = Tail(@)]
    /\ UNCHANGED <<lastId, user, link, todo, sentOn, handed, lapsed, calm>>

\* Line 571 raises after delivered_at was committed.
AckAuditFails(s) ==
    /\ Mishap("audit")
    /\ pc[s] = "loop" /\ inbox[s] # <<>>
    /\ LET f == Head(inbox[s]) IN
       /\ f.type = "ack" /\ Posted(f.msg) /\ row[f.msg].recipient = user[s]
       /\ row' = [row EXCEPT ![f.msg].delivered = TRUE]
    /\ Leave(s, conn)
    /\ UNCHANGED <<lastId, handed, told, lapsed, calm>>

\* _notify_sender resumes.  Its user is always the sender of the row.
ResumeNotify(s) ==
    /\ pc[s] = "notify"
    /\ \E ok \in Outcome(peer[s]) :
          Loop(s, IF ok THEN conn ELSE Cut(conn, row[job[s]].sender, peer[s]))
    /\ UNCHANGED <<table, task, sentOn, handed, told, lapsed, calm>>

\* Frames answered with an error: lines 537-545, 550-552 and 567-569.
RefuseFrame(s) ==
    /\ pc[s] = "loop" /\ inbox[s] # <<>>
    /\ LET f == Head(inbox[s]) IN
       IF f.type = "message" THEN ~Acceptable(user[s], f)
       ELSE ~Posted(f.msg) \/ row[f.msg].recipient # user[s]
    /\ inbox' = [inbox EXCEPT ![s] = Tail(@)]
    /\ UNCHANGED <<conn, table, pc, user, link, todo, sentOn, job, peer, handed,
                   told, lapsed, calm>>

\* receive_text raises on a closed session: lines 576-582.  Frames received
\* before the close may still have been handled, even by a replaced session.
Disconnect(s) ==
    /\ pc[s] = "loop" /\ link[s] = "closed"
    /\ Leave(s, conn)
    /\ UNCHANGED <<table, handed, told, lapsed, calm>>

\* The server process stops and starts again: only the database survives.
Crash ==
    /\ Mishap("crash")
    /\ conn' = [u \in User |-> NoSocket]
    /\ pc' = [s \in Socket |-> "gone"]
    /\ user' = [s \in Socket |-> NoUser]
    /\ link' = [s \in Socket |-> "closed"]
    /\ inbox' = [s \in Socket |-> <<>>]
    /\ sentOn' = [s \in Socket |-> {}]
    /\ todo' = [s \in Socket |-> {}]
    /\ job' = [s \in Socket |-> NoMsg]
    /\ peer' = [s \in Socket |-> NoSocket]
    /\ UNCHANGED <<table, handed, told, lapsed, calm>>

-----------------------------------------------------------------------------
\* What the coroutine of s does when the event loop schedules it.
Run(s) ==
    \/ Authenticate(s)  \/ Reject(s)        \/ ReadyFails(s)
    \/ Register(s)      \/ StartDrain(s)    \/ ResumeDrain(s)
    \/ HandleMessage(s) \/ ResumeDeliver(s) \/ ResumeNotify(s)
    \/ HandleAck(s)     \/ RefuseFrame(s)   \/ Disconnect(s)

\* One step of several fails: the audit insert raises after another commit.
Fail(s) == ConnectAuditFails(s) \/ EnqueueAuditFails(s) \/ AckAuditFails(s)

Client(s) ==
    \/ \E u \in User : Open(s, u)
    \/ LoseLink(s)
    \/ NoticeLoss(s)
    \/ \E m \in Traffic : SubmitMessage(s, m)
    \/ \E i \in MsgId : SubmitAck(s, i)

Next == Crash \/ Settle \/ \E s \in Socket : Run(s) \/ Fail(s) \/ Client(s)

Spec == Init /\ [][Next]_vars

\* The event loop runs every ready coroutine; a send to a peer that stops
\* reading ends when the keepalive closes it.  A browser without a session
\* reconnects (app.js 985).  What a page submits or acknowledges is up to it.
Fairness ==
    /\ WF_vars(Settle)
    /\ \A s \in Socket : WF_vars(Run(s)) /\ WF_vars(NoticeLoss(s))
    /\ \A u \in User : WF_vars(\E s \in Socket : Open(s, u))

FairSpec == Spec /\ Fairness

-----------------------------------------------------------------------------
\* Every variable keeps its type, and a coroutine has what its position needs.
TypeOK ==
    /\ conn \in [User -> Socket \cup {NoSocket}]
    /\ row \in [MsgId -> Row \cup {NoRow}]
    /\ lastId \in Nat
    /\ pc \in [Socket -> ProgramCtr]
    /\ user \in [Socket -> User \cup {NoUser}]
    /\ link \in [Socket -> {"up", "dead", "closed"}]
    /\ inbox \in [Socket -> Seq(MessageFrame \cup AckFrame)]
    /\ sentOn \in [Socket -> SUBSET MsgId]
    /\ todo \in [Socket -> SUBSET MsgId]
    /\ job \in [Socket -> MsgId \cup {NoMsg}]
    /\ peer \in [Socket -> Socket \cup {NoSocket}]
    /\ handed \in SUBSET MsgId
    /\ told \in [MsgId -> Status]
    /\ lapsed \in SUBSET MsgId
    /\ calm \in BOOLEAN

\* The route of a user leads to a session of that user whose handler will
\* remove it (580-582), or that was killed between registration and the try
\* statement: no cleanup of one session leaves or installs another's route.
RoutesAreOwned ==
    \A u \in User : conn[u] # NoSocket =>
        /\ user[conn[u]] = u
        /\ pc[conn[u]] \in Serving \cup {"failed"}

\* A registered session that the server has not closed is the route of its
\* user: neither the replaced session's finally clause nor a late failure of a
\* send to it evicts the newer one, so a connected user is always reachable.
OpenSessionsAreRouted ==
    \A s \in Socket : pc[s] \in Serving /\ link[s] # "closed" => conn[user[s]] = s

\* No lost wake-up between the live path (558) and the drain (515): what is
\* pending for a session in service has been written to it, is in the rest of
\* its snapshot, or lapsed when the audit of line 554 failed.
NothingForgotten ==
    \A s \in Socket : pc[s] \in Serving \ {"closing"} /\ conn[user[s]] = s /\ link[s] # "closed"
        => PendingFor(user[s]) \subseteq sentOn[s] \cup todo[s] \cup lapsed

\* A sender is told the truth: "delivered" only of an acknowledged row, "sent"
\* only of a message that was written to a session of its recipient.
ReceiptsAreTrue ==
    \A i \in MsgId :
        /\ told[i] = "delivered" => Delivered(i)
        /\ told[i] = "sent" => i \in handed

\* Only sessions of its recipient are ever handed a message, and none is
\* acknowledged that was not handed over before.
OnlyRecipientsRead ==
    /\ \A s \in Socket : \A i \in sentOn[s] : Posted(i) /\ row[i].recipient = user[s]
    /\ \A i \in MsgId : Delivered(i) => i \in handed

\* The rest of the inductive invariant.  A coroutine has what its position
\* needs, and the connection of one that has ended is closed.
SessionsAreWhole ==
    \A s \in Socket :
        /\ pc[s] # "gone" => user[s] \in User
        /\ pc[s] \in {"gone", "failed"} => link[s] = "closed"
        /\ pc[s] \in {"closing", "drain", "deliver", "notify"} => peer[s] \in Socket
        /\ pc[s] \in {"deliver", "notify"} => job[s] \in MsgId /\ Posted(job[s])
        /\ pc[s] = "deliver" => job[s] \in handed

\* A session that is not registered has been handed nothing; a snapshot holds
\* messages of its session's user, an ack in transit is for a message that was
\* handed over, and a handed message is a stored one.
FramesAreBacked ==
    /\ \A s \in Socket : pc[s] \notin Serving => sentOn[s] = {} /\ todo[s] = {}
    /\ \A s \in Socket : \A i \in todo[s] : Posted(i) /\ row[i].recipient = user[s]
    /\ \A s \in Socket : \A k \in 1..Len(inbox[s]) :
          inbox[s][k].type = "ack" => inbox[s][k].msg \in handed
    /\ \A i \in handed : Posted(i)

\* As long as its session is routed, a drain awaits a send to that session.
DrainsFollowRoutes ==
    \A s \in Socket : pc[s] = "drain" /\ conn[user[s]] = s => peer[s] = s

Inv ==
    /\ TypeOK /\ SessionsAreWhole
    /\ RoutesAreOwned /\ OpenSessionsAreRouted
    /\ FramesAreBacked /\ OnlyRecipientsRead
    /\ DrainsFollowRoutes /\ NothingForgotten
    /\ ReceiptsAreTrue

\* A repeated msg_id cannot overwrite a stored message (548), an acknowledged
\* message never becomes pending again, and only a session of its recipient
\* acknowledges it, also when it arrives on another user's session.
RowsAreStable ==
    [][\A i \in MsgId : Posted(i) =>
          /\ row'[i] = row[i] \/ row'[i] = [row[i] EXCEPT !.delivered = TRUE]
          /\ row'[i] # row[i] => \E s \in Socket : user[s] = row[i].recipient
                                                 /\ inbox'[s] # inbox[s]]_vars

\* Message i is written on the session its recipient has open.
Written(i) ==
    LET s == conn[row[i].recipient] IN s # NoSocket /\ link[s] = "up" /\ i \in sentOn[s]

\* Message i was stored under an audit insert that failed (554), and the session
\* its recipient has open took its snapshot (515) before: the next one has it.
Missed(i) ==
    LET s == conn[row[i].recipient] IN
    s # NoSocket /\ link[s] = "up" /\ pc[s] # "closing" /\ i \in lapsed \ todo[s]

\* At-least-once delivery as far as it is the relay's (README 16, main.py 257):
\* once connections and the server stay up, there comes a time from which on every
\* stored message, whatever befell its sessions before, is acknowledged or written
\* on the session its recipient has open, and no frame waits.  Its ack is the page's.
EventuallyHanded ==
    <>[](/\ \A i \in MsgId : Posted(i) => Delivered(i) \/ Written(i) \/ Missed(i)
         /\ \A s \in Socket : inbox[s] = <<>>)

\* The promise the relay keeps: each message of the table as Mailbox sees it.
phase == [i \in MsgId |-> IF ~Posted(i) THEN "absent"
                          ELSE IF row[i].delivered THEN "confirmed"
                          ELSE IF i \in handed THEN "handed" ELSE "queued"]
letter == [i \in MsgId |-> IF Posted(i) THEN [from |-> row[i].sender, to |-> row[i].recipient]
                           ELSE NoRow]

Box == INSTANCE Mailbox WITH phase <- phase, letter <- letter, NoLetter <- NoRow

\* Every behaviour of the relay, whatever fails, is one of the mailbox: a
\* message is stored once, handed before it is confirmed, confirmed once, and
\* its sender and recipient never change.
ImplementsMailbox == Box!Spec

\* The sender sees "sent" and then "delivered" (test_backend.py 181): after
\* "delivered" it is never told that the message is merely sent or queued.
StatusesAdvance ==
    [][\A i \in MsgId : told[i] = "delivered" => told'[i] = "delivered"]_vars
=============================================================================
