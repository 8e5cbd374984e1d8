--------------------------- MODULE DeliveryProofs ---------------------------
(***************************************************************************)
(* Proofs about Delivery, for any users, sessions, messages and traffic.   *)
(***************************************************************************)
EXTENDS Delivery, TLAPS

USE DeliveryAssumption

Base == TypeOK /\ SessionsAreWhole

\* No session is open and no message stored at first.
LEMMA InitBase == Init => Base
<1> SUFFICES ASSUME Init PROVE Base
  OBVIOUS
<1>1. TypeOK
  <2>1. <<>> \in Seq(MessageFrame \cup AckFrame)
    OBVIOUS
  <2>2. QED
    BY <2>1 DEF Init, TypeOK, ProgramCtr, Status
<1>2. SessionsAreWhole
  BY DEF Init, SessionsAreWhole, Serving
<1>3. QED
  BY <1>1, <1>2 DEF Base

\* Writing a status to a sender keeps the types of what it changes.
LEMMA NotifyTyped ==
  ASSUME Base, NEW s \in Socket, NEW u \in User, NEW i \in MsgId, NEW st \in Status,
         NEW c \in [User -> Socket \cup {NoSocket}],
         Notify(s, u, i, st, c)
  PROVE  /\ conn' \in [User -> Socket \cup {NoSocket}]
         /\ pc' \in [Socket -> ProgramCtr]
         /\ job' \in [Socket -> MsgId \cup {NoMsg}]
         /\ peer' \in [Socket -> Socket \cup {NoSocket}]
         /\ told' \in [MsgId -> Status]
         /\ pc'[s] \in {"notify", "loop"}
         /\ \A x \in Socket \ {s} : pc'[x] = pc[x] /\ job'[x] = job[x] /\ peer'[x] = peer[x]
         /\ pc'[s] = "notify" => peer'[s] \in Socket /\ job'[s] = i
<1>. DEFINE t == c[u]
<1>1. t \in Socket \cup {NoSocket}
  OBVIOUS
<1>2. CASE Live(t) /\ told' = [told EXCEPT ![i] = st] /\ Await(s, "notify", t, i, c)
  BY <1>1, <1>2 DEF Base, TypeOK, Await, Live, ProgramCtr, Serving
<1>3. CASE ~Live(t) /\ told' = told /\ Loop(s, [c EXCEPT ![u] = NoSocket])
  BY <1>3 DEF Base, TypeOK, Loop, ProgramCtr, Serving
<1>4. QED
  BY <1>2, <1>3 DEF Notify

\* Writing a snapshot to a session keeps the types of what it changes.
LEMMA DrainTyped ==
  ASSUME Base, NEW s \in Socket, user[s] \in User, NEW S \in SUBSET MsgId,
         NEW c \in [User -> Socket \cup {NoSocket}],
         Drain(s, S, c)
  PROVE  /\ conn' \in [User -> Socket \cup {NoSocket}]
         /\ pc' \in [Socket -> ProgramCtr]
         /\ job' \in [Socket -> MsgId \cup {NoMsg}]
         /\ peer' \in [Socket -> Socket \cup {NoSocket}]
         /\ todo' \in [Socket -> SUBSET MsgId]
         /\ sentOn' \in [Socket -> SUBSET MsgId]
         /\ handed' \in SUBSET MsgId /\ handed \subseteq handed'
         /\ lapsed' \in SUBSET MsgId
         /\ pc'[s] \in {"drain", "loop"}
         /\ pc'[s] = "drain" => peer'[s] \in Socket
         /\ \A x \in Socket \ {s} : /\ pc'[x] = pc[x] /\ job'[x] = job[x]
                                   /\ peer'[x] = peer[x] /\ todo'[x] = todo[x]
<1>. DEFINE t == c[user[s]]
<1>1. t \in Socket \cup {NoSocket}
  OBVIOUS
<1>2. CASE S = {} /\ Loop(s, c) /\ todo' = [todo EXCEPT ![s] = {}] /\ UNCHANGED <<sentOn, handed, lapsed>>
  BY <1>2 DEF Base, TypeOK, Loop, ProgramCtr, Serving
<1>3. CASE /\ S # {} /\ ~Live(t) /\ Loop(s, [c EXCEPT ![user[s]] = NoSocket])
           /\ todo' = [todo EXCEPT ![s] = {}] /\ UNCHANGED <<sentOn, handed, lapsed>>
  BY <1>3 DEF Base, TypeOK, Loop, ProgramCtr, Serving
<1>4. ASSUME Live(t), NEW i \in S, Hand(t, i), todo' = [todo EXCEPT ![s] = S \ {i}],
             Await(s, "drain", t, NoMsg, c)
      PROVE  /\ conn' \in [User -> Socket \cup {NoSocket}]
             /\ pc' \in [Socket -> ProgramCtr]
             /\ job' \in [Socket -> MsgId \cup {NoMsg}]
             /\ peer' \in [Socket -> Socket \cup {NoSocket}]
             /\ todo' \in [Socket -> SUBSET MsgId]
             /\ sentOn' \in [Socket -> SUBSET MsgId]
             /\ handed' \in SUBSET MsgId /\ handed \subseteq handed'
             /\ lapsed' \in SUBSET MsgId
             /\ pc'[s] = "drain"
             /\ peer'[s] \in Socket
             /\ \A x \in Socket \ {s} : /\ pc'[x] = pc[x] /\ job'[x] = job[x]
                                       /\ peer'[x] = peer[x] /\ todo'[x] = todo[x]
  BY <1>1, <1>4 DEF Base, TypeOK, Await, Hand, Live, ProgramCtr, Serving
<1>5. QED
  BY <1>2, <1>3, <1>4 DEF Drain

\* A session that ends gives its slot back whole.
LEMMA EndTyped ==
  ASSUME Base, NEW s \in Socket, NEW how \in {"gone", "failed"}, End(s, how), pc[s] # "gone",
         row' \in [MsgId -> Row \cup {NoRow}], \A i \in MsgId : Posted(i) => Posted(i)',
         handed \subseteq handed', conn' \in [User -> Socket \cup {NoSocket}],
         lastId' \in Nat, handed' \in SUBSET MsgId, told' \in [MsgId -> Status],
         lapsed' \in SUBSET MsgId, calm' \in BOOLEAN
  PROVE  Base'
<1>1. TypeOK'
  <2>1. <<>> \in Seq(MessageFrame \cup AckFrame)
    OBVIOUS
  <2>2. QED
    BY <2>1 DEF Base, TypeOK, End, ProgramCtr, Serving
<1>2. SessionsAreWhole'
  <2> SUFFICES ASSUME NEW x \in Socket
      PROVE  /\ pc'[x] # "gone" => user'[x] \in User
             /\ pc'[x] \in {"gone", "failed"} => link'[x] = "closed"
             /\ pc'[x] \in {"closing", "drain", "deliver", "notify"} => peer'[x] \in Socket
             /\ pc'[x] \in {"deliver", "notify"} => job'[x] \in MsgId /\ Posted(job[x])'
             /\ pc'[x] = "deliver" => job'[x] \in handed'
    BY DEF SessionsAreWhole
  <2>1. CASE x = s
    BY <2>1 DEF Base, TypeOK, SessionsAreWhole, End
  <2>2. CASE x # s
    BY <2>2 DEF Base, TypeOK, SessionsAreWhole, End
  <2>3. QED
    BY <2>1, <2>2
<1>3. QED
  BY <1>1, <1>2 DEF Base

\* A frame that arrives is one that clients send.
LEMMA ReceiveTyped ==
  ASSUME Base, NEW s \in Socket, NEW f \in MessageFrame \cup AckFrame, Receive(s, f)
  PROVE  Base'
<1>1. inbox' \in [Socket -> Seq(MessageFrame \cup AckFrame)]
  BY DEF Base, TypeOK, Receive
<1>2. TypeOK'
  BY <1>1 DEF Base, TypeOK, Receive, table
<1>3. SessionsAreWhole'
  BY DEF Base, SessionsAreWhole, Receive, table, Posted
<1>4. QED
  BY <1>2, <1>3 DEF Base

\* Taking a frame from the inbox of a session.
LEMMA FrameTaken ==
  ASSUME NEW T, NEW q \in Seq(T), q # <<>>
  PROVE  /\ Head(q) \in T /\ Tail(q) \in Seq(T) /\ Tail(q) # q
         /\ Len(q) \in Nat \ {0} /\ Len(Tail(q)) = Len(q) - 1
         /\ Head(q) = q[1]
         /\ \A k \in 1..Len(Tail(q)) : Tail(q)[k] = q[k+1]
<1>1. Len(q) \in Nat \ {0} /\ Head(q) = q[1]
  OBVIOUS
<1>2. Tail(q) \in Seq(T) /\ Len(Tail(q)) = Len(q) - 1
  OBVIOUS
<1>3. \A k \in 1..Len(Tail(q)) : Tail(q)[k] = q[k+1]
  BY <1>1
<1>4. Head(q) \in T
  BY <1>1
<1>5. Tail(q) # q
  <2>1. ASSUME Tail(q) = q PROVE FALSE
    <3>. DEFINE n == Len(q)  m == Len(Tail(q))
    <3>1. m = n
      BY <2>1, Zenon
    <3>2. n \in Nat /\ m = n - 1
      BY <1>1, <1>2
    <3>. HIDE DEF n, m
    <3>3. QED
      BY <3>1, <3>2
  <2>2. QED
    BY <2>1
<1>6. QED
  BY <1>1, <1>2, <1>3, <1>4, <1>5

\* enqueue_message stores a row once and leaves the others alone.
LEMMA EnqueueStores ==
  ASSUME TypeOK, NEW i \in MsgId, NEW f \in User, NEW t \in User, Enqueue(i, f, t)
  PROVE  /\ row' \in [MsgId -> Row \cup {NoRow}] /\ lastId' \in Nat
         /\ Posted(i)'
         /\ \A j \in MsgId : Posted(j) => row'[j] = row[j]
         /\ \A j \in MsgId \ {i} : row'[j] = row[j]
         /\ ~Posted(i) => row'[i].sender = f /\ row'[i].recipient = t /\ ~row'[i].delivered
<1>1. CASE Posted(i)
  BY <1>1 DEF Enqueue, table, TypeOK, Posted
<1>2. CASE ~Posted(i)
  <2>. DEFINE r == [sender |-> f, recipient |-> t, id |-> lastId + 1, delivered |-> FALSE]
  <2>1. r \in Row /\ lastId + 1 \in Nat
    BY DEF Row, TypeOK
  <2>2. row' = [row EXCEPT ![i] = r] /\ lastId' = lastId + 1
    BY <1>2 DEF Enqueue
  <2>3. r # NoRow
    BY <2>1
  <2>4. row'[i] = r /\ \A j \in MsgId \ {i} : row'[j] = row[j]
    BY <2>2 DEF TypeOK
  <2>. HIDE DEF r
  <2>5. row' \in [MsgId -> Row \cup {NoRow}]
    BY <2>1, <2>2 DEF TypeOK
  <2>6. Posted(i)'
    BY <2>3, <2>4 DEF Posted
  <2>7. \A j \in MsgId : Posted(j) => row'[j] = row[j]
    BY <1>2, <2>4
  <2>8. r.sender = f /\ r.recipient = t /\ ~r.delivered
    BY DEF r
  <2>9. QED
    BY <2>1, <2>2, <2>4, <2>5, <2>6, <2>7, <2>8
<1>3. QED
  BY <1>1, <1>2

\* Setting delivered_at of a stored row.
LEMMA MarkStores ==
  ASSUME TypeOK, NEW i \in MsgId, Posted(i), row' = [row EXCEPT ![i].delivered = TRUE]
  PROVE  /\ row' \in [MsgId -> Row \cup {NoRow}]
         /\ row'[i] = [row[i] EXCEPT !.delivered = TRUE]
         /\ row'[i].sender = row[i].sender /\ row'[i].recipient = row[i].recipient
         /\ row'[i].delivered
         /\ \A j \in MsgId : Posted(j) <=> Posted(j)'
         /\ \A j \in MsgId \ {i} : row'[j] = row[j]
<1>1. row[i] \in Row
  BY DEF TypeOK, Posted
<1>. DEFINE r == [row[i] EXCEPT !.delivered = TRUE]
<1>2. r \in Row /\ r.sender = row[i].sender /\ r.recipient = row[i].recipient /\ r.delivered
  BY <1>1 DEF Row
<1>3. row'[i] = r /\ \A j \in MsgId \ {i} : row'[j] = row[j]
  BY DEF TypeOK
<1>4. row' = [row EXCEPT ![i] = r]
  OBVIOUS
<1>. HIDE DEF r
<1>5. row' \in [MsgId -> Row \cup {NoRow}]
  BY <1>2, <1>4 DEF TypeOK
<1>6. \A j \in MsgId : Posted(j) <=> Posted(j)'
  BY <1>2, <1>3 DEF Posted
<1>7. row'[i] = [row[i] EXCEPT !.delivered = TRUE]
  BY <1>3 DEF r
<1>8. QED
  BY <1>2, <1>3, <1>5, <1>6, <1>7

\* A handler that writes a status stays whole, whether it is suspended or not.
LEMMA NotifyBase ==
  ASSUME Base, NEW s \in Socket, NEW u \in User, NEW i \in MsgId, NEW st \in Status,
         NEW c \in [User -> Socket \cup {NoSocket}],
         Notify(s, u, i, st, c), user[s] \in User, Posted(i)',
         row' \in [MsgId -> Row \cup {NoRow}], \A j \in MsgId : Posted(j) => Posted(j)',
         inbox' \in [Socket -> Seq(MessageFrame \cup AckFrame)], lastId' \in Nat,
         UNCHANGED <<user, link, todo, sentOn, handed, lapsed, calm>>
  PROVE  Base'
<1>1. TypeOK'
  BY NotifyTyped DEF Base, TypeOK
<1>2. SessionsAreWhole'
  <2> SUFFICES ASSUME NEW x \in Socket
      PROVE  /\ pc'[x] # "gone" => user'[x] \in User
             /\ pc'[x] \in {"gone", "failed"} => link'[x] = "closed"
             /\ pc'[x] \in {"closing", "drain", "deliver", "notify"} => peer'[x] \in Socket
             /\ pc'[x] \in {"deliver", "notify"} => job'[x] \in MsgId /\ Posted(job[x])'
             /\ pc'[x] = "deliver" => job'[x] \in handed'
    BY DEF SessionsAreWhole
  <2>1. CASE x = s
    <3>1. pc'[s] \in {"notify", "loop"} /\ (pc'[s] = "notify" => peer'[s] \in Socket /\ job'[s] = i)
      BY NotifyTyped
    <3>2. row'[i] # NoRow
      BY DEF Posted
    <3>3. QED
      BY <2>1, <3>1, <3>2 DEF Posted
  <2>2. CASE x # s
    BY <2>2, NotifyTyped, ZenonT(40) DEF Base, TypeOK, SessionsAreWhole
  <2>3. QED
    BY <2>1, <2>2
<1>3. QED
  BY <1>1, <1>2 DEF Base

\* Every step keeps the types, and suspended sessions whole.
LEMMA BaseStep == Base /\ [Next]_vars => Base'
<1> SUFFICES ASSUME Base, [Next]_vars PROVE Base'
  OBVIOUS
<1>1. CASE Crash
  <2>1. <<>> \in Seq(MessageFrame \cup AckFrame)
    OBVIOUS
  <2>2. TypeOK'
    BY <1>1, <2>1 DEF Base, TypeOK, Crash, table, ProgramCtr
  <2>3. SessionsAreWhole'
    BY <1>1 DEF Base, TypeOK, SessionsAreWhole, Crash, table
  <2>4. QED
    BY <2>2, <2>3 DEF Base
<1>2. CASE Settle
  BY <1>2 DEF Base, TypeOK, SessionsAreWhole, Settle, table, task, Posted
<1>3. ASSUME NEW s \in Socket, NEW u \in User, Open(s, u) PROVE Base'
  BY <1>3 DEF Base, TypeOK, SessionsAreWhole, Open, table, Posted, ProgramCtr
<1>4. ASSUME NEW s \in Socket, LoseLink(s) \/ NoticeLoss(s) PROVE Base'
  <2>1. CASE LoseLink(s)
    BY <2>1 DEF Base, TypeOK, SessionsAreWhole, LoseLink, table, Posted
  <2>2. CASE NoticeLoss(s)
    BY <2>2 DEF Base, TypeOK, SessionsAreWhole, NoticeLoss, table, Posted
  <2>3. QED
    BY <1>4, <2>1, <2>2
<1>5. ASSUME NEW s \in Socket, NEW m \in Traffic, SubmitMessage(s, m) PROVE Base'
  <2>1. [type |-> "message", msg |-> m.msg, to |-> m.to] \in MessageFrame
    BY DEF MessageFrame
  <2>2. QED
    BY <1>5, <2>1, ReceiveTyped DEF SubmitMessage
<1>6. ASSUME NEW s \in Socket, NEW i \in MsgId, SubmitAck(s, i) PROVE Base'
  <2>1. [type |-> "ack", msg |-> i] \in AckFrame
    BY DEF AckFrame
  <2>2. QED
    BY <1>6, <2>1, ReceiveTyped DEF SubmitAck
<1>7. ASSUME NEW s \in Socket, Authenticate(s) PROVE Base'
  BY <1>7 DEF Base, TypeOK, SessionsAreWhole, Authenticate, table, task, Posted, ProgramCtr
<1>8. ASSUME NEW s \in Socket, Reject(s) \/ ReadyFails(s) PROVE Base'
  BY <1>8, EndTyped DEF Base, TypeOK, Reject, ReadyFails, table, Posted
<1>9. ASSUME NEW s \in Socket, Register(s) PROVE Base'
  <2>. DEFINE u == user[s]  old == conn[u]  c == [conn EXCEPT ![u] = s]
  <2>1. /\ u \in User /\ c \in [User -> Socket \cup {NoSocket}] /\ PendingFor(u) \in SUBSET MsgId
        /\ old \in Socket \cup {NoSocket} /\ pc[s] = "ready"
    BY <1>9 DEF Register, Base, TypeOK, SessionsAreWhole, PendingFor
  <2>2. CASE old = NoSocket /\ Drain(s, PendingFor(u), c) /\ UNCHANGED link
    <3>1. UNCHANGED <<row, lastId, user, inbox, told, calm>>
      BY <1>9 DEF Register, table
    <3>2. TypeOK'
      BY <2>1, <2>2, <3>1, DrainTyped DEF Base, TypeOK
    <3>3. SessionsAreWhole'
      BY <2>1, <2>2, <3>1, DrainTyped, ZenonT(40) DEF Base, TypeOK, SessionsAreWhole, Posted
    <3>4. QED
      BY <3>2, <3>3 DEF Base
  <2>3. CASE /\ old # NoSocket /\ link' = [link EXCEPT ![old] = "closed"]
             /\ Await(s, "closing", old, NoMsg, c)
             /\ UNCHANGED <<sentOn, todo, handed, lapsed>>
    BY <1>9, <2>1, <2>3 DEF Register, Await, table, Base, TypeOK, SessionsAreWhole, Posted, ProgramCtr, Serving
  <2>4. QED
    BY <1>9, <2>2, <2>3 DEF Register
<1>10. ASSUME NEW s \in Socket, NEW S \in SUBSET MsgId, Drain(s, S, conn), pc[s] \in Serving,
              UNCHANGED <<row, lastId, user, link, inbox, told, calm>>
       PROVE Base'
  <2>1. user[s] \in User /\ conn \in [User -> Socket \cup {NoSocket}]
    BY <1>10 DEF Base, TypeOK, SessionsAreWhole, Serving
  <2>2. TypeOK'
    BY <1>10, <2>1, DrainTyped DEF Base, TypeOK
  <2>3. SessionsAreWhole'
    BY <1>10, <2>1, DrainTyped DEF Base, TypeOK, SessionsAreWhole, Posted, Serving
  <2>4. QED
    BY <2>2, <2>3 DEF Base
<1>11. ASSUME NEW s \in Socket, StartDrain(s) PROVE Base'
  <2>1. PendingFor(user[s]) \in SUBSET MsgId
    BY DEF PendingFor
  <2>2. QED
    BY <1>10, <1>11, <2>1 DEF StartDrain, table, Serving
<1>12. ASSUME NEW s \in Socket, ConnectAuditFails(s) PROVE Base'
  <2>1. conn' \in [User -> Socket \cup {NoSocket}]
    BY <1>12 DEF ConnectAuditFails, Base, TypeOK
  <2>2. QED
    BY <1>12, <2>1, EndTyped DEF ConnectAuditFails, Base, TypeOK, table, Posted
<1>13. ASSUME NEW s \in Socket, ResumeDrain(s) PROVE Base'
  <2>1. CASE Drain(s, todo[s], conn)
    BY <1>10, <1>13, <2>1 DEF ResumeDrain, table, Serving, Base, TypeOK
  <2>2. CASE /\ Loop(s, Cut(conn, user[s], peer[s])) /\ todo' = [todo EXCEPT ![s] = {}]
             /\ UNCHANGED <<sentOn, handed, lapsed>>
    BY <1>13, <2>2 DEF ResumeDrain, Loop, Cut, table, Base, TypeOK, SessionsAreWhole, Posted, ProgramCtr, Serving
  <2>3. QED
    BY <1>13, <2>1, <2>2 DEF ResumeDrain
<1>14. ASSUME NEW s \in Socket, pc[s] = "loop", inbox[s] # <<>>
       PROVE  /\ Head(inbox[s]) \in MessageFrame \cup AckFrame
              /\ [inbox EXCEPT ![s] = Tail(@)] \in [Socket -> Seq(MessageFrame \cup AckFrame)]
              /\ user[s] \in User
  <2>1. inbox[s] \in Seq(MessageFrame \cup AckFrame)
    BY DEF Base, TypeOK
  <2>2. Head(inbox[s]) \in MessageFrame \cup AckFrame /\ Tail(inbox[s]) \in Seq(MessageFrame \cup AckFrame)
    BY <1>14, <2>1, FrameTaken
  <2>3. QED
    BY <1>14, <2>2 DEF Base, TypeOK, SessionsAreWhole
<1>15. ASSUME NEW s \in Socket, HandleMessage(s) PROVE Base'
  <2>0. PICK f \in MessageFrame \cup AckFrame, u \in User : f = Head(inbox[s]) /\ u = user[s]
    BY <1>14, <1>15 DEF HandleMessage
  <2>. DEFINE i == f.msg  t == conn[f.to]  c == [conn EXCEPT ![f.to] = NoSocket]
  <2>1. /\ pc[s] = "loop" /\ inbox[s] # <<>> /\ f.type = "message" /\ Acceptable(u, f)
        /\ inbox' = [inbox EXCEPT ![s] = Tail(@)] /\ Enqueue(i, u, f.to)
        /\ UNCHANGED <<user, link, todo, calm>>
    BY <1>15, <2>0 DEF HandleMessage
  <2>2. f \in MessageFrame
    BY <2>1 DEF AckFrame
  <2>3. i \in MsgId /\ f.to \in User
    BY <2>1, <2>2 DEF MessageFrame, Acceptable
  <2>4. inbox' \in [Socket -> Seq(MessageFrame \cup AckFrame)]
    BY <1>14, <2>1
  <2>5. /\ row' \in [MsgId -> Row \cup {NoRow}] /\ lastId' \in Nat /\ Posted(i)'
        /\ \A j \in MsgId : Posted(j) => Posted(j)'
    <3>1. /\ row' \in [MsgId -> Row \cup {NoRow}] /\ lastId' \in Nat /\ Posted(i)'
          /\ \A j \in MsgId : Posted(j) => row'[j] = row[j]
      BY <2>1, <2>2, <2>3, EnqueueStores DEF Base
    <3>2. QED
      BY <3>1 DEF Posted
  <2>6. conn \in [User -> Socket \cup {NoSocket}] /\ c \in [User -> Socket \cup {NoSocket}]
    BY DEF Base, TypeOK
  <2>. HIDE DEF t, c
  <2>7. CASE Notify(s, u, i, "delivered", conn) /\ UNCHANGED <<sentOn, handed, lapsed>>
    <3>1. "delivered" \in Status
      BY DEF Status
    <3>2. QED
      BY <2>0, <2>1, <2>2, <2>3, <2>4, <2>5, <2>6, <2>7, <3>1, NotifyBase
  <2>8. CASE Notify(s, u, i, "queued", c) /\ UNCHANGED <<sentOn, handed, lapsed>>
    <3>1. "queued" \in Status
      BY DEF Status
    <3>2. QED
      BY <2>0, <2>1, <2>2, <2>3, <2>4, <2>5, <2>6, <2>8, <3>1, NotifyBase
  <2>9. CASE Live(t) /\ Hand(t, i) /\ Await(s, "deliver", t, i, conn) /\ UNCHANGED told
    <3>1. t \in Socket
      BY <2>3, <2>9 DEF Base, TypeOK, Live, t
    <3>2. TypeOK'
      BY <2>1, <2>3, <2>4, <2>5, <2>9, <3>1 DEF Base, TypeOK, Hand, Await, ProgramCtr, Serving
    <3>3. SessionsAreWhole'
      <4> SUFFICES ASSUME NEW x \in Socket
          PROVE  /\ pc'[x] # "gone" => user'[x] \in User
                 /\ pc'[x] \in {"gone", "failed"} => link'[x] = "closed"
                 /\ pc'[x] \in {"closing", "drain", "deliver", "notify"} => peer'[x] \in Socket
                 /\ pc'[x] \in {"deliver", "notify"} => job'[x] \in MsgId /\ Posted(job[x])'
                 /\ pc'[x] = "deliver" => job'[x] \in handed'
        BY DEF SessionsAreWhole
      <4>1. CASE x = s
        BY <4>1, <2>0, <2>1, <2>2, <2>3, <2>5, <2>9, <3>1 DEF Base, TypeOK, SessionsAreWhole, Hand, Await, Posted
      <4>2. CASE x # s
        BY <4>2, <2>0, <2>1, <2>2, <2>3, <2>5, <2>9, <3>1 DEF Base, TypeOK, SessionsAreWhole, Hand, Await, Posted
      <4>3. QED
        BY <4>1, <4>2
    <3>4. QED
      BY <3>2, <3>3 DEF Base
  <2>10. QED
    BY <1>15, <2>0, <2>7, <2>8, <2>9 DEF HandleMessage, t, c
<1>16. ASSUME NEW s \in Socket, EnqueueAuditFails(s) PROVE Base'
  <2>. DEFINE f == Head(inbox[s])
  <2>1. f \in MessageFrame /\ user[s] \in User
    BY <1>14, <1>16 DEF EnqueueAuditFails, AckFrame
  <2>2. f.msg \in MsgId /\ f.to \in User
    BY <1>16, <2>1 DEF EnqueueAuditFails, MessageFrame, Acceptable
  <2>3. /\ row' \in [MsgId -> Row \cup {NoRow}] /\ lastId' \in Nat
        /\ \A j \in MsgId : Posted(j) => Posted(j)'
    BY <1>16, <2>1, <2>2, EnqueueStores DEF Base, Posted, EnqueueAuditFails
  <2>4. conn' \in [User -> Socket \cup {NoSocket}]
    BY <1>16 DEF EnqueueAuditFails, Leave, Cut, Base, TypeOK
  <2>5. QED
    BY <1>16, <2>2, <2>3, <2>4, EndTyped DEF EnqueueAuditFails, Leave, Base, TypeOK
<1>17. ASSUME NEW s \in Socket, ResumeDeliver(s) PROVE Base'
  <2>. DEFINE i == job[s]
  <2>1. user[s] \in User /\ i \in MsgId /\ Posted(i)
    BY <1>17 DEF ResumeDeliver, Base, SessionsAreWhole
  <2>2. conn \in [User -> Socket \cup {NoSocket}]
        /\ Cut(conn, row[i].recipient, peer[s]) \in [User -> Socket \cup {NoSocket}]
    BY DEF Base, TypeOK, Cut
  <2>3. "sent" \in Status /\ "queued" \in Status
    BY DEF Status
  <2>4. UNCHANGED <<row, lastId, user, link, inbox, todo, sentOn, handed, lapsed, calm>>
    BY <1>17 DEF ResumeDeliver, table, task
  <2>5. CASE Notify(s, user[s], i, "sent", conn)
    BY <2>1, <2>2, <2>3, <2>4, <2>5, NotifyBase DEF Base, TypeOK, Posted
  <2>6. CASE Notify(s, user[s], i, "queued", Cut(conn, row[i].recipient, peer[s]))
    BY <2>1, <2>2, <2>3, <2>4, <2>6, NotifyBase DEF Base, TypeOK, Posted
  <2>7. QED
    BY <1>17, <2>5, <2>6 DEF ResumeDeliver
<1>18. ASSUME NEW s \in Socket, HandleAck(s) PROVE Base'
  <2>. DEFINE f == Head(inbox[s])  i == f.msg
  <2>1. /\ pc[s] = "loop" /\ inbox[s] # <<>> /\ f.type = "ack" /\ Posted(i)
        /\ row' = [row EXCEPT ![i].delivered = TRUE]
        /\ Notify(s, row[i].sender, i, "delivered", conn)
        /\ inbox' = [inbox EXCEPT ![s] = Tail(@)]
        /\ UNCHANGED <<lastId, user, link, todo, sentOn, handed, lapsed, calm>>
    BY <1>18 DEF HandleAck
  <2>2. f \in AckFrame /\ user[s] \in User
    BY <1>14, <2>1 DEF MessageFrame
  <2>3. i \in MsgId
    BY <2>2 DEF AckFrame
  <2>4. row[i].sender \in User
    BY <2>1, <2>3 DEF Base, TypeOK, Posted, Row
  <2>5. /\ row' \in [MsgId -> Row \cup {NoRow}]
        /\ \A j \in MsgId : Posted(j) <=> Posted(j)'
    BY <2>1, <2>3, MarkStores DEF Base
  <2>6. inbox' \in [Socket -> Seq(MessageFrame \cup AckFrame)]
    BY <1>14, <2>1
  <2>7. "delivered" \in Status
    BY DEF Status
  <2>8. conn \in [User -> Socket \cup {NoSocket}] /\ lastId \in Nat
    BY DEF Base, TypeOK
  <2>9. QED
    BY <2>1, <2>2, <2>3, <2>4, <2>5, <2>6, <2>7, <2>8, NotifyBase
<1>19. ASSUME NEW s \in Socket, AckAuditFails(s) PROVE Base'
  <2>. DEFINE f == Head(inbox[s])
  <2>1. f \in AckFrame
    BY <1>14, <1>19 DEF AckAuditFails, MessageFrame
  <2>2. f.msg \in MsgId
    BY <2>1 DEF AckFrame
  <2>3. /\ row' \in [MsgId -> Row \cup {NoRow}]
        /\ \A j \in MsgId : Posted(j) => Posted(j)'
    BY <1>19, <2>2, MarkStores DEF Base, AckAuditFails
  <2>4. conn' \in [User -> Socket \cup {NoSocket}]
    BY <1>19 DEF AckAuditFails, Leave, Cut, Base, TypeOK
  <2>5. QED
    BY <1>19, <2>3, <2>4, EndTyped DEF AckAuditFails, Leave, Base, TypeOK
<1>20. ASSUME NEW s \in Socket, ResumeNotify(s) PROVE Base'
  <2>1. CASE Loop(s, conn)
    BY <1>20, <2>1 DEF ResumeNotify, Loop, table, task, Base, TypeOK, SessionsAreWhole, Posted, ProgramCtr, Serving
  <2>2. CASE Loop(s, Cut(conn, row[job[s]].sender, peer[s]))
    BY <1>20, <2>2 DEF ResumeNotify, Loop, Cut, table, task, Base, TypeOK, SessionsAreWhole, Posted, ProgramCtr, Serving
  <2>3. QED
    BY <1>20, <2>1, <2>2 DEF ResumeNotify
<1>21. ASSUME NEW s \in Socket, RefuseFrame(s) PROVE Base'
  <2>1. inbox' \in [Socket -> Seq(MessageFrame \cup AckFrame)]
    BY <1>14, <1>21 DEF RefuseFrame
  <2>2. QED
    BY <1>21, <2>1 DEF RefuseFrame, table, Base, TypeOK, SessionsAreWhole, Posted
<1>22. ASSUME NEW s \in Socket, Disconnect(s) PROVE Base'
  <2>1. conn' \in [User -> Socket \cup {NoSocket}]
    BY <1>22 DEF Disconnect, Leave, Cut, Base, TypeOK
  <2>2. QED
    BY <1>22, <2>1, EndTyped DEF Disconnect, Leave, table, Base, TypeOK, Posted
<1>23. CASE UNCHANGED vars
  BY <1>23 DEF vars, Base, TypeOK, SessionsAreWhole, Posted
<1>24. QED
  BY <1>1, <1>2, <1>3, <1>4, <1>5, <1>6, <1>7, <1>8, <1>9, <1>11, <1>12, <1>13, <1>15,
     <1>16, <1>17, <1>18, <1>19, <1>20, <1>21, <1>22, <1>23
     DEF Next, Run, Fail, Client

\* Every variable of Delivery keeps its type, so every coroutine has what it goes on
\* with after an await (main.py 440-582).
THEOREM TypeCorrect == Spec => []TypeOK
<1>1. Init => Base
  BY InitBase
<1>2. Base /\ [Next]_vars => Base'
  BY BaseStep
<1>3. Base => TypeOK
  BY DEF Base
<1>4. QED
  BY <1>1, <1>2, <1>3, PTL DEF Spec

-----------------------------------------------------------------------------
Routes == RoutesAreOwned /\ OpenSessionsAreRouted

\* Forgetting a route whose socket has closed disturbs nobody.
Pruned(c, d) == \A u \in User : d[u] = c[u] \/ (d[u] = NoSocket /\ ~Live(c[u]))

\* A status that cannot be written removes at most the route it was meant for.
LEMMA NotifyPrunes ==
  ASSUME Base, NEW s \in Socket, NEW u \in User, NEW i, NEW st,
         NEW c \in [User -> Socket \cup {NoSocket}], Notify(s, u, i, st, c)
  PROVE  /\ Pruned(c, conn') /\ pc'[s] \in Serving
         /\ \A x \in Socket \ {s} : pc'[x] = pc[x]
  BY DEF Base, TypeOK, Notify, Pruned, Loop, Await, Serving

\* So does a pending message that cannot be written.
LEMMA DrainPrunes ==
  ASSUME Base, NEW s \in Socket, user[s] \in User, NEW S \in SUBSET MsgId,
         NEW c \in [User -> Socket \cup {NoSocket}], Drain(s, S, c)
  PROVE  /\ Pruned(c, conn') /\ pc'[s] \in Serving
         /\ \A x \in Socket \ {s} : pc'[x] = pc[x]
  BY DEF Base, TypeOK, Drain, Pruned, Loop, Await, Serving

\* A route is removed only if it still leads to the session that failed.
LEMMA CutPrunes ==
  ASSUME Base, NEW u \in User, NEW t \in Socket, link[t] = "closed"
  PROVE  Pruned(conn, Cut(conn, u, t)) /\ Cut(conn, u, t) \in [User -> Socket \cup {NoSocket}]
  BY DEF Base, TypeOK, Cut, Pruned, Live

\* Forgetting closed routes one after the other is forgetting closed routes.
LEMMA PrunedTwice ==
  ASSUME NEW c, NEW d, NEW e, Pruned(c, d), Pruned(d, e)
  PROVE  Pruned(c, e)
  BY DEF Pruned

\* A step that only forgets closed routes keeps routes owned and open sessions routed.
LEMMA PruningKeepsRoutes ==
  ASSUME Base, Routes, NEW s \in Socket, pc[s] \in Serving, pc'[s] \in Serving,
         \A x \in Socket \ {s} : pc'[x] = pc[x],
         Pruned(conn, conn'), UNCHANGED <<user, link>>
  PROVE  Routes'
<1>1. RoutesAreOwned'
  <2> SUFFICES ASSUME NEW v \in User, conn'[v] # NoSocket
      PROVE user'[conn'[v]] = v /\ pc'[conn'[v]] \in Serving \cup {"failed"}
    BY DEF RoutesAreOwned
  <2>1. conn'[v] = conn[v] /\ conn[v] \in Socket
    BY DEF Pruned, Base, TypeOK
  <2>2. user[conn[v]] = v /\ pc[conn[v]] \in Serving \cup {"failed"}
    BY <2>1 DEF Routes, RoutesAreOwned
  <2>3. QED
    BY <2>1, <2>2
<1>2. OpenSessionsAreRouted'
  <2> SUFFICES ASSUME NEW x \in Socket, pc'[x] \in Serving, link'[x] # "closed"
      PROVE conn'[user'[x]] = x
    BY DEF OpenSessionsAreRouted
  <2>1. pc[x] \in Serving /\ link[x] # "closed" /\ user'[x] = user[x]
    OBVIOUS
  <2>2. conn[user[x]] = x /\ user[x] \in User
    BY <2>1 DEF Routes, OpenSessionsAreRouted, Base, SessionsAreWhole, Serving
  <2>3. Live(conn[user[x]])
    BY <2>1, <2>2 DEF Live
  <2>4. QED
    BY <2>1, <2>2, <2>3 DEF Pruned
<1>3. QED
  BY <1>1, <1>2 DEF Routes

\* The coroutine of s ends and takes its own route, and only that, with it.
LEMMA LeavingKeepsRoutes ==
  ASSUME Base, Routes, NEW s \in Socket, Leave(s, conn), pc[s] # "gone"
  PROVE  Routes'
<1>1. RoutesAreOwned'
  BY DEF Routes, RoutesAreOwned, Base, TypeOK, SessionsAreWhole, Leave, End, Cut, Serving
<1>2. OpenSessionsAreRouted'
  BY DEF Routes, OpenSessionsAreRouted, Base, TypeOK, SessionsAreWhole, Leave, End, Cut, Serving
<1>3. QED
  BY <1>1, <1>2 DEF Routes

\* Every step keeps routes owned and open sessions routed.
LEMMA RoutesStep == Base /\ Routes /\ [Next]_vars => Routes'
<1> SUFFICES ASSUME Base, Routes, [Next]_vars PROVE Routes'
  OBVIOUS
<1>0. Base'
  BY BaseStep
<1>1. CASE Crash
  BY <1>1 DEF Crash, Routes, RoutesAreOwned, OpenSessionsAreRouted, Base, TypeOK, Serving
<1>2. CASE Settle
  BY <1>2 DEF Settle, task, Routes, RoutesAreOwned, OpenSessionsAreRouted
<1>3. ASSUME NEW s \in Socket, NEW u \in User, Open(s, u) PROVE Routes'
  BY <1>3 DEF Open, Referenced, Base, TypeOK, Routes, RoutesAreOwned, OpenSessionsAreRouted, Serving
<1>4. ASSUME NEW s \in Socket, LoseLink(s) \/ NoticeLoss(s) PROVE Routes'
  BY <1>4 DEF LoseLink, NoticeLoss, Base, TypeOK, Routes, RoutesAreOwned, OpenSessionsAreRouted
<1>5. ASSUME NEW s \in Socket, NEW f, Receive(s, f) PROVE Routes'
  BY <1>5 DEF Receive, Routes, RoutesAreOwned, OpenSessionsAreRouted
<1>6. ASSUME NEW s \in Socket, Authenticate(s) PROVE Routes'
  BY <1>6 DEF Authenticate, task, Base, TypeOK, Routes, RoutesAreOwned, OpenSessionsAreRouted, Serving
<1>7. ASSUME NEW s \in Socket, Reject(s) \/ ReadyFails(s) PROVE Routes'
  <2>0. /\ pc[s] \notin Serving \cup {"failed"} /\ conn' = conn
        /\ \A x \in Socket \ {s} : pc'[x] = pc[x] /\ user'[x] = user[x]
    BY <1>7 DEF Reject, ReadyFails, End, Base, TypeOK, Serving
  <2>1. RoutesAreOwned'
    <3> SUFFICES ASSUME NEW v \in User, conn[v] # NoSocket
        PROVE user'[conn[v]] = v /\ pc'[conn[v]] \in Serving \cup {"failed"}
      BY <2>0 DEF RoutesAreOwned
    <3>1. conn[v] \in Socket
      BY DEF Base, TypeOK
    <3>2. user[conn[v]] = v /\ pc[conn[v]] \in Serving \cup {"failed"}
      BY DEF Routes, RoutesAreOwned
    <3>3. QED
      BY <2>0, <3>1, <3>2
  <2>2. OpenSessionsAreRouted'
    <3>1. pc'[s] = "gone" /\ \A x \in Socket \ {s} : link'[x] = link[x]
      BY <1>7 DEF Reject, ReadyFails, End, Base, TypeOK
    <3>2. QED
      BY <2>0, <3>1 DEF Routes, OpenSessionsAreRouted, Serving
  <2>3. QED
    BY <2>1, <2>2 DEF Routes
<1>8. ASSUME NEW s \in Socket, Register(s) PROVE Routes'
  <2>. DEFINE u == user[s]  old == conn[u]  c == [conn EXCEPT ![u] = s]
  <2>1. /\ u \in User /\ c \in [User -> Socket \cup {NoSocket}] /\ PendingFor(u) \in SUBSET MsgId
        /\ old \in Socket \cup {NoSocket} /\ pc[s] = "ready" /\ UNCHANGED user
    BY <1>8 DEF Register, Base, TypeOK, SessionsAreWhole, PendingFor
  <2>2. CASE old = NoSocket /\ Drain(s, PendingFor(u), c) /\ UNCHANGED link
    <3>1. Pruned(c, conn') /\ pc'[s] \in Serving /\ \A x \in Socket \ {s} : pc'[x] = pc[x]
      BY <2>1, <2>2, DrainPrunes
    <3>2. RoutesAreOwned'
      <4> SUFFICES ASSUME NEW v \in User, conn'[v] # NoSocket
          PROVE user'[conn'[v]] = v /\ pc'[conn'[v]] \in Serving \cup {"failed"}
        BY DEF RoutesAreOwned
      <4>1. conn'[v] = c[v]
        BY <3>1 DEF Pruned
      <4>2. CASE v = u
        BY <2>1, <3>1, <4>1, <4>2 DEF Base, TypeOK
      <4>3. CASE v # u
        <5>1. conn'[v] = conn[v] /\ conn[v] \in Socket
          BY <4>1, <4>3 DEF Base, TypeOK
        <5>2. user[conn[v]] = v /\ pc[conn[v]] \in Serving \cup {"failed"}
          BY <5>1 DEF Routes, RoutesAreOwned
        <5>3. QED
          BY <2>1, <3>1, <5>1, <5>2
      <4>4. QED
        BY <4>2, <4>3
    <3>3. OpenSessionsAreRouted'
      <4> SUFFICES ASSUME NEW x \in Socket, pc'[x] \in Serving, link'[x] # "closed"
          PROVE conn'[user'[x]] = x
        BY DEF OpenSessionsAreRouted
      <4>1. CASE x = s
        <5>1. Live(c[u])
          BY <2>1, <2>2, <4>1 DEF Live, Base, TypeOK
        <5>2. QED
          BY <2>1, <3>1, <4>1, <5>1 DEF Pruned, Base, TypeOK
      <4>2. CASE x # s
        <5>1. conn[user[x]] = x /\ user[x] \in User /\ link[x] # "closed"
          BY <2>2, <3>1, <4>2 DEF Routes, OpenSessionsAreRouted, Base, SessionsAreWhole, Serving
        <5>2. c[user[x]] = x
          BY <2>1, <2>2, <5>1 DEF Base, TypeOK
        <5>3. Live(c[user[x]])
          BY <5>1, <5>2 DEF Live
        <5>4. QED
          BY <2>1, <3>1, <5>1, <5>2, <5>3 DEF Pruned
      <4>3. QED
        BY <4>1, <4>2
    <3>4. QED
      BY <3>2, <3>3 DEF Routes
  <2>3. CASE /\ old # NoSocket /\ link' = [link EXCEPT ![old] = "closed"]
             /\ Await(s, "closing", old, NoMsg, c)
    <3>1. RoutesAreOwned'
      BY <2>1, <2>3 DEF Await, Routes, RoutesAreOwned, Base, TypeOK, Serving
    <3>2. OpenSessionsAreRouted'
      BY <2>1, <2>3 DEF Await, Routes, OpenSessionsAreRouted, Base, TypeOK, SessionsAreWhole, Serving
    <3>3. QED
      BY <3>1, <3>2 DEF Routes
  <2>4. QED
    BY <1>8, <2>2, <2>3 DEF Register
<1>9. ASSUME NEW s \in Socket, StartDrain(s) PROVE Routes'
  <2>1. PendingFor(user[s]) \in SUBSET MsgId /\ user[s] \in User /\ conn \in [User -> Socket \cup {NoSocket}]
    BY <1>9 DEF PendingFor, StartDrain, Base, TypeOK, SessionsAreWhole
  <2>2. QED
    BY <1>9, <2>1, DrainPrunes, PruningKeepsRoutes DEF StartDrain, Serving
<1>10. ASSUME NEW s \in Socket, ConnectAuditFails(s) PROVE Routes'
  <2>1. user[s] \in User
    BY <1>10 DEF ConnectAuditFails, Base, SessionsAreWhole
  <2>2. RoutesAreOwned'
    BY <1>10, <2>1 DEF ConnectAuditFails, End, Routes, RoutesAreOwned, Base, TypeOK, SessionsAreWhole, Serving
  <2>3. OpenSessionsAreRouted'
    BY <1>10, <2>1 DEF ConnectAuditFails, End, Routes, OpenSessionsAreRouted, Base, TypeOK, SessionsAreWhole, Serving
  <2>4. QED
    BY <2>2, <2>3 DEF Routes
<1>11. ASSUME NEW s \in Socket, ResumeDrain(s) PROVE Routes'
  <2>1. /\ todo[s] \in SUBSET MsgId /\ user[s] \in User /\ conn \in [User -> Socket \cup {NoSocket}]
        /\ peer[s] \in Socket /\ pc[s] \in Serving /\ UNCHANGED <<user, link>>
    BY <1>11 DEF ResumeDrain, Base, TypeOK, SessionsAreWhole, Serving
  <2>2. CASE Drain(s, todo[s], conn)
    BY <2>1, <2>2, DrainPrunes, PruningKeepsRoutes
  <2>3. CASE link[peer[s]] = "closed" /\ Loop(s, Cut(conn, user[s], peer[s]))
    <3>1. Pruned(conn, conn')
      BY <2>1, <2>3, CutPrunes DEF Loop
    <3>2. pc'[s] \in Serving /\ \A x \in Socket \ {s} : pc'[x] = pc[x]
      BY <2>3 DEF Loop, Serving, Base, TypeOK
    <3>3. QED
      BY <2>1, <3>1, <3>2, PruningKeepsRoutes
  <2>4. QED
    BY <1>11, <2>2, <2>3 DEF ResumeDrain, Outcome
<1>12. ASSUME NEW s \in Socket, HandleMessage(s) PROVE Routes'
  <2>. DEFINE f == Head(inbox[s])  t == conn[f.to]
  <2>1. /\ f.to \in User /\ user[s] \in User /\ pc[s] = "loop" /\ UNCHANGED <<user, link>>
        /\ conn \in [User -> Socket \cup {NoSocket}]
    BY <1>12 DEF HandleMessage, Acceptable, Base, TypeOK, SessionsAreWhole
  <2>2. CASE Notify(s, user[s], f.msg, "delivered", conn)
    BY <2>1, <2>2, NotifyPrunes, PruningKeepsRoutes DEF Serving
  <2>3. CASE Await(s, "deliver", t, f.msg, conn)
    <3>1. Pruned(conn, conn') /\ pc'[s] \in Serving /\ \A x \in Socket \ {s} : pc'[x] = pc[x]
      BY <2>3 DEF Await, Pruned, Serving, Base, TypeOK
    <3>2. QED
      BY <2>1, <3>1, PruningKeepsRoutes DEF Serving
  <2>4. CASE ~Live(t) /\ Notify(s, user[s], f.msg, "queued", [conn EXCEPT ![f.to] = NoSocket])
    <3>. DEFINE c == [conn EXCEPT ![f.to] = NoSocket]
    <3>1. Pruned(conn, c) /\ c \in [User -> Socket \cup {NoSocket}]
      BY <2>1, <2>4 DEF Pruned
    <3>2. Pruned(c, conn') /\ pc'[s] \in Serving /\ \A x \in Socket \ {s} : pc'[x] = pc[x]
      BY <2>1, <2>4, <3>1, NotifyPrunes
    <3>. HIDE DEF c
    <3>3. Pruned(conn, conn')
      BY <3>1, <3>2, PrunedTwice
    <3>4. QED
      BY <2>1, <3>2, <3>3, PruningKeepsRoutes DEF Serving
  <2>5. QED
    BY <1>12, <2>2, <2>3, <2>4 DEF HandleMessage
<1>13. ASSUME NEW s \in Socket, EnqueueAuditFails(s) \/ AckAuditFails(s) \/ Disconnect(s) PROVE Routes'
  BY <1>13, LeavingKeepsRoutes DEF EnqueueAuditFails, AckAuditFails, Disconnect
<1>14. ASSUME NEW s \in Socket, ResumeDeliver(s) PROVE Routes'
  <2>. DEFINE i == job[s]  c == Cut(conn, row[i].recipient, peer[s])
  <2>1. /\ user[s] \in User /\ peer[s] \in Socket /\ row[i].recipient \in User /\ pc[s] \in Serving
        /\ conn \in [User -> Socket \cup {NoSocket}] /\ UNCHANGED <<user, link>>
    BY <1>14 DEF ResumeDeliver, task, Base, TypeOK, SessionsAreWhole, Posted, Row, Serving
  <2>2. CASE Notify(s, user[s], i, "sent", conn)
    BY <2>1, <2>2, NotifyPrunes, PruningKeepsRoutes
  <2>3. CASE link[peer[s]] = "closed" /\ Notify(s, user[s], i, "queued", c)
    <3>1. Pruned(conn, c) /\ c \in [User -> Socket \cup {NoSocket}]
      BY <2>1, <2>3, CutPrunes
    <3>2. Pruned(c, conn') /\ pc'[s] \in Serving /\ \A x \in Socket \ {s} : pc'[x] = pc[x]
      BY <2>1, <2>3, <3>1, NotifyPrunes
    <3>. HIDE DEF c
    <3>3. Pruned(conn, conn')
      BY <3>1, <3>2, PrunedTwice
    <3>4. QED
      BY <2>1, <3>2, <3>3, PruningKeepsRoutes
  <2>4. QED
    BY <1>14, <2>2, <2>3 DEF ResumeDeliver, Outcome
<1>15. ASSUME NEW s \in Socket, HandleAck(s) PROVE Routes'
  <2>. DEFINE f == Head(inbox[s])
  <2>1. inbox[s] \in Seq(MessageFrame \cup AckFrame) /\ inbox[s] # <<>>
    BY <1>15 DEF HandleAck, Base, TypeOK
  <2>2. f \in MessageFrame \cup AckFrame
    BY <2>1, FrameTaken
  <2>3. row[f.msg].sender \in User
    BY <1>15, <2>2 DEF HandleAck, MessageFrame, AckFrame, Posted, Base, TypeOK, Row
  <2>4. conn \in [User -> Socket \cup {NoSocket}] /\ pc[s] \in Serving /\ UNCHANGED <<user, link>>
    BY <1>15 DEF HandleAck, Base, TypeOK, Serving
  <2>5. Notify(s, row[f.msg].sender, f.msg, "delivered", conn)
    BY <1>15 DEF HandleAck
  <2>6. QED
    BY <2>3, <2>4, <2>5, NotifyPrunes, PruningKeepsRoutes
<1>16. ASSUME NEW s \in Socket, ResumeNotify(s) PROVE Routes'
  <2>. DEFINE u == row[job[s]].sender
  <2>1. /\ u \in User /\ peer[s] \in Socket /\ pc[s] \in Serving /\ UNCHANGED <<user, link>>
    BY <1>16 DEF ResumeNotify, task, Base, TypeOK, SessionsAreWhole, Posted, Row, Serving
  <2>2. CASE Loop(s, conn)
    <3>1. Pruned(conn, conn') /\ pc'[s] \in Serving /\ \A x \in Socket \ {s} : pc'[x] = pc[x]
      BY <2>2 DEF Loop, Pruned, Serving, Base, TypeOK
    <3>2. QED
      BY <2>1, <3>1, PruningKeepsRoutes
  <2>3. CASE link[peer[s]] = "closed" /\ Loop(s, Cut(conn, u, peer[s]))
    <3>1. Pruned(conn, conn')
      BY <2>1, <2>3, CutPrunes DEF Loop
    <3>2. pc'[s] \in Serving /\ \A x \in Socket \ {s} : pc'[x] = pc[x]
      BY <2>3 DEF Loop, Serving, Base, TypeOK
    <3>3. QED
      BY <2>1, <3>1, <3>2, PruningKeepsRoutes
  <2>4. QED
    BY <1>16, <2>2, <2>3 DEF ResumeNotify, Outcome
<1>17. ASSUME NEW s \in Socket, RefuseFrame(s) PROVE Routes'
  BY <1>17 DEF RefuseFrame, Routes, RoutesAreOwned, OpenSessionsAreRouted
<1>18. CASE UNCHANGED vars
  BY <1>18 DEF vars, Routes, RoutesAreOwned, OpenSessionsAreRouted
<1>19. QED
  BY <1>1, <1>2, <1>3, <1>4, <1>5, <1>6, <1>7, <1>8, <1>9, <1>10, <1>11, <1>12, <1>13,
     <1>14, <1>15, <1>16, <1>17, <1>18
     DEF Next, Run, Fail, Client, SubmitMessage, SubmitAck

-----------------------------------------------------------------------------
Contents == FramesAreBacked /\ OnlyRecipientsRead

\* Stored messages stay, with their sender and recipient.
RowsKept == \A j \in MsgId : Posted(j) => /\ Posted(j)'
                                        /\ row'[j].recipient = row[j].recipient
                                        /\ row'[j].sender = row[j].sender

\* What is acknowledged was handed over, and so was what is being acknowledged.
AcksBacked ==
    /\ \A i \in MsgId : Delivered(i) => i \in handed
    /\ \A x \in Socket : \A k \in 1..Len(inbox[x]) :
          inbox[x][k].type = "ack" => inbox[x][k].msg \in handed

\* A step that changes neither snapshots nor what was handed over keeps both backed.
LEMMA QuietContents ==
  ASSUME Base, Contents, RowsKept, AcksBacked', UNCHANGED <<user, todo, sentOn, handed>>,
         \A x \in Socket : pc[x] \in Serving => pc'[x] \in Serving
  PROVE  Contents'
<1>1. FramesAreBacked'
  BY DEF Contents, FramesAreBacked, RowsKept, AcksBacked, Base, TypeOK
<1>2. OnlyRecipientsRead'
  BY DEF Contents, OnlyRecipientsRead, RowsKept, AcksBacked, Base, TypeOK
<1>3. QED
  BY <1>1, <1>2 DEF Contents

\* A session that ends forgets its frames and its snapshot.
LEMMA EndContents ==
  ASSUME Base, Contents, RowsKept, NEW s \in Socket, NEW how, End(s, how), UNCHANGED handed,
         \A i \in MsgId : Delivered(i)' => i \in handed
  PROVE  Contents'
<1>1. \A x \in Socket \ {s} : /\ pc'[x] = pc[x] /\ user'[x] = user[x] /\ inbox'[x] = inbox[x]
                             /\ sentOn'[x] = sentOn[x] /\ todo'[x] = todo[x]
  BY DEF End, Base, TypeOK
<1>2. inbox'[s] = <<>> /\ sentOn'[s] = {} /\ todo'[s] = {}
  BY DEF End, Base, TypeOK
<1>3. FramesAreBacked'
  <2>1. \A x \in Socket : pc'[x] \notin Serving => sentOn'[x] = {} /\ todo'[x] = {}
    BY <1>1, <1>2 DEF Contents, FramesAreBacked
  <2>2. \A x \in Socket : \A i \in todo'[x] : Posted(i)' /\ row'[i].recipient = user'[x]
    BY <1>1, <1>2, ZenonT(40) DEF Contents, FramesAreBacked, RowsKept, Base, TypeOK
  <2>3. \A x \in Socket : \A k \in 1..Len(inbox'[x]) :
           inbox'[x][k].type = "ack" => inbox'[x][k].msg \in handed'
    BY <1>1, <1>2 DEF Contents, FramesAreBacked
  <2>4. \A i \in handed' : Posted(i)'
    BY DEF Contents, FramesAreBacked, RowsKept, Base, TypeOK
  <2>5. QED
    BY <2>1, <2>2, <2>3, <2>4 DEF FramesAreBacked, Posted
<1>4. OnlyRecipientsRead'
  <2>1. \A x \in Socket : \A i \in sentOn'[x] : Posted(i)' /\ row'[i].recipient = user'[x]
    BY <1>1, <1>2, ZenonT(40) DEF Contents, OnlyRecipientsRead, RowsKept, Base, TypeOK
  <2>2. QED
    BY <2>1 DEF OnlyRecipientsRead, Posted, Delivered
<1>5. QED
  BY <1>3, <1>4 DEF Contents

\* Writing message i to the session t of its recipient.
LEMMA HandContents ==
  ASSUME Base, Contents, RowsKept, NEW t \in Socket, NEW i \in MsgId, Hand(t, i),
         Posted(i)', row'[i].recipient = user[t], pc'[t] \in Serving, UNCHANGED user,
         \A x \in Socket : pc[x] \in Serving => pc'[x] \in Serving,
         \A x \in Socket : pc'[x] \notin Serving => todo'[x] = todo[x],
         \A x \in Socket : \A j \in todo'[x] : j \in MsgId /\ Posted(j) /\ row[j].recipient = user[x],
         AcksBacked'
  PROVE  Contents'
<1>1. /\ handed' = handed \cup {i} /\ sentOn'[t] = sentOn[t] \cup {i}
      /\ \A x \in Socket \ {t} : sentOn'[x] = sentOn[x]
  BY DEF Hand, Base, TypeOK
<1>2. FramesAreBacked'
  <2>1. \A x \in Socket : pc'[x] \notin Serving => sentOn'[x] = {} /\ todo'[x] = {}
    BY <1>1 DEF Contents, FramesAreBacked
  <2>2. \A x \in Socket : \A j \in todo'[x] : Posted(j)' /\ row'[j].recipient = user'[x]
    BY DEF RowsKept
  <2>3. \A j \in handed' : Posted(j)'
    BY <1>1 DEF Contents, FramesAreBacked, RowsKept, Base, TypeOK
  <2>4. QED
    BY <2>1, <2>2, <2>3 DEF FramesAreBacked, AcksBacked, Posted
<1>3. OnlyRecipientsRead'
  <2>1. ASSUME NEW x \in Socket, NEW j \in sentOn'[x] PROVE Posted(j)' /\ row'[j].recipient = user'[x]
    <3>1. CASE j \in sentOn[x]
      BY <3>1 DEF Contents, OnlyRecipientsRead, RowsKept, Base, TypeOK
    <3>2. CASE j \notin sentOn[x]
      BY <1>1, <2>1, <3>2
    <3>3. QED
      BY <3>1, <3>2
  <2>2. QED
    BY <2>1 DEF OnlyRecipientsRead, AcksBacked, Posted, Delivered
<1>4. QED
  BY <1>2, <1>3 DEF Contents

\* What a drain hands over is stored and addressed to the session's user.
LEMMA DrainContents ==
  ASSUME Base, Contents, NEW s \in Socket, user[s] \in User, NEW S \in SUBSET MsgId,
         \A i \in S : Posted(i) /\ row[i].recipient = user[s],
         NEW c \in [User -> Socket \cup {NoSocket}], Drain(s, S, c),
         Live(c[user[s]]) => /\ user[c[user[s]]] = user[s]
                             /\ c[user[s]] = s \/ pc[c[user[s]]] \in Serving,
         UNCHANGED <<row, user, inbox>>
  PROVE  Contents'
<1>. DEFINE t == c[user[s]]
<1>0. RowsKept
  BY DEF RowsKept, Posted
<1>1. /\ pc'[s] \in Serving /\ \A x \in Socket : pc[x] \in Serving => pc'[x] \in Serving
  BY DrainTyped DEF Serving
<1>2. CASE UNCHANGED <<sentOn, handed>> /\ todo' = [todo EXCEPT ![s] = {}]
  <2>1. FramesAreBacked'
    BY <1>1, <1>2 DEF Contents, FramesAreBacked, Base, TypeOK, Posted
  <2>2. OnlyRecipientsRead'
    BY <1>2 DEF Contents, OnlyRecipientsRead, Delivered, Posted
  <2>3. QED
    BY <2>1, <2>2 DEF Contents
<1>3. ASSUME Live(t), NEW i \in S, Hand(t, i), todo' = [todo EXCEPT ![s] = S \ {i}]
      PROVE Contents'
  <2>1. t \in Socket /\ user[t] = user[s] /\ pc'[t] \in Serving
    BY <1>1, <1>3 DEF Live
  <2>2. todo'[s] = S \ {i} /\ \A x \in Socket \ {s} : todo'[x] = todo[x]
    BY <1>3 DEF Base, TypeOK
  <2>3. \A x \in Socket : \A j \in todo'[x] : j \in MsgId /\ Posted(j) /\ row[j].recipient = user[x]
    BY <2>2 DEF Contents, FramesAreBacked, Base, TypeOK
  <2>4. AcksBacked'
    BY <1>3 DEF Hand, AcksBacked, Contents, FramesAreBacked, OnlyRecipientsRead, Delivered, Posted
  <2>5. Posted(i)' /\ row'[i].recipient = user[t]
    BY <1>3, <2>1 DEF Posted
  <2>. HIDE DEF t
  <2>6. \A x \in Socket : pc'[x] \notin Serving => todo'[x] = todo[x]
    BY <1>1, <2>2
  <2>7. QED
    BY <1>0, <1>1, <1>3, <2>1, <2>3, <2>4, <2>5, <2>6, HandContents
<1>4. QED
  BY <1>2, <1>3 DEF Drain

\* Frames may leave an inbox, never change in it.
LEMMA TakingKeepsAcks ==
  ASSUME Base, Contents, NEW s \in Socket, inbox[s] # <<>>,
         inbox' = [inbox EXCEPT ![s] = Tail(@)], handed \subseteq handed'
  PROVE  \A x \in Socket : \A k \in 1..Len(inbox'[x]) :
            inbox'[x][k].type = "ack" => inbox'[x][k].msg \in handed'
<1> SUFFICES ASSUME NEW x \in Socket, NEW k \in 1..Len(inbox'[x]), inbox'[x][k].type = "ack"
    PROVE  inbox'[x][k].msg \in handed'
  OBVIOUS
<1>1. CASE x # s
  BY <1>1 DEF Contents, FramesAreBacked, Base, TypeOK
<1>2. CASE x = s
  <2>1. inbox[s] \in Seq(MessageFrame \cup AckFrame) /\ inbox'[s] = Tail(inbox[s])
    BY DEF Base, TypeOK
  <2>2. /\ Len(inbox[s]) \in Nat /\ Len(Tail(inbox[s])) = Len(inbox[s]) - 1
        /\ \A j \in 1..Len(Tail(inbox[s])) : Tail(inbox[s])[j] = inbox[s][j+1]
    BY <2>1, FrameTaken
  <2>3. k + 1 \in 1..Len(inbox[s]) /\ inbox'[s][k] = inbox[s][k+1]
    <3>. DEFINE q == inbox[s]  r == Tail(inbox[s])
    <3>1. k \in 1..Len(r) /\ inbox'[s][k] = r[k]
      BY <1>2, <2>1
    <3>2. Len(q) \in Nat /\ Len(r) = Len(q) - 1 /\ \A j \in 1..Len(r) : r[j] = q[j+1]
      BY <2>2
    <3>3. inbox'[s][k] = q[k+1]
      BY <3>1, <3>2
    <3>. HIDE DEF q
    <3>4. ASSUME NEW m \in Nat, m = Len(q) - 1, k \in 1..m PROVE k + 1 \in 1..Len(q)
      BY <3>2, <3>4
    <3>5. k + 1 \in 1..Len(q)
      <4>1. Len(r) \in Nat
        BY <2>1, FrameTaken DEF q
      <4>2. QED
        BY <3>1, <3>2, <3>4, <4>1
    <3>6. QED
      BY <3>3, <3>5 DEF q
  <2>4. QED
    BY <1>2, <2>3 DEF Contents, FramesAreBacked
<1>3. QED
  BY <1>1, <1>2

\* The route of a user leads to a session that may be handed messages.
LEMMA LiveRoutes ==
  ASSUME Base, Routes, NEW u \in User, Live(conn[u])
  PROVE  conn[u] \in Socket /\ user[conn[u]] = u /\ pc[conn[u]] \in Serving
  BY DEF Base, TypeOK, SessionsAreWhole, Routes, RoutesAreOwned, Live, Serving

\* Every step keeps frames backed and messages with their recipients.
LEMMA ContentsStep == Base /\ Routes /\ Contents /\ [Next]_vars => Contents'
<1> SUFFICES ASSUME Base, Routes, Contents, [Next]_vars PROVE Contents'
  OBVIOUS
<1>a. ASSUME UNCHANGED row PROVE RowsKept
  BY <1>a DEF RowsKept, Posted
<1>b. ASSUME UNCHANGED <<row, handed>> PROVE \A i \in MsgId : Delivered(i)' => i \in handed'
  BY <1>b DEF Contents, OnlyRecipientsRead, Delivered, Posted
<1>c. ASSUME UNCHANGED <<row, handed, inbox>> PROVE AcksBacked'
  BY <1>b, <1>c DEF Contents, FramesAreBacked, AcksBacked
<1>1. CASE Crash
  <2>1. FramesAreBacked'
    BY <1>1 DEF Crash, table, Contents, FramesAreBacked, Posted
  <2>2. OnlyRecipientsRead'
    BY <1>1 DEF Crash, table, Contents, OnlyRecipientsRead, Posted, Delivered
  <2>3. QED
    BY <2>1, <2>2 DEF Contents
<1>2. CASE Settle
  BY <1>2, <1>a, <1>c, QuietContents DEF Settle, table, task
<1>3. ASSUME NEW s \in Socket, NEW u \in User, Open(s, u) PROVE Contents'
  <2>1. /\ sentOn[s] = {} /\ todo[s] = {} /\ UNCHANGED <<row, handed, inbox, sentOn, todo>>
        /\ \A x \in Socket \ {s} : pc'[x] = pc[x] /\ user'[x] = user[x]
    BY <1>3 DEF Open, table, Contents, FramesAreBacked, Base, TypeOK, Serving
  <2>2. FramesAreBacked'
    BY <2>1 DEF Contents, FramesAreBacked, Posted
  <2>3. OnlyRecipientsRead'
    BY <2>1 DEF Contents, OnlyRecipientsRead, Posted, Delivered
  <2>4. QED
    BY <2>2, <2>3 DEF Contents
<1>4. ASSUME NEW s \in Socket, LoseLink(s) \/ NoticeLoss(s) PROVE Contents'
  BY <1>4, <1>a, <1>c, QuietContents DEF LoseLink, NoticeLoss, table
<1>5. ASSUME NEW s \in Socket, NEW f \in MessageFrame \cup AckFrame, Receive(s, f),
             f.type = "ack" => f.msg \in handed
      PROVE Contents'
  <2>1. inbox[s] \in Seq(MessageFrame \cup AckFrame) /\ inbox'[s] = Append(inbox[s], f)
        /\ \A x \in Socket \ {s} : inbox'[x] = inbox[x]
    BY <1>5 DEF Receive, Base, TypeOK
  <2>2. /\ Len(inbox'[s]) = Len(inbox[s]) + 1 /\ Len(inbox[s]) \in Nat
        /\ \A k \in 1..Len(inbox[s]) : inbox'[s][k] = inbox[s][k]
        /\ inbox'[s][Len(inbox[s]) + 1] = f
    BY <2>1
  <2>3. UNCHANGED <<row, user, todo, sentOn, handed, pc>>
    BY <1>5 DEF Receive, table
  <2>4. \A x \in Socket : \A k \in 1..Len(inbox'[x]) :
           inbox'[x][k].type = "ack" => inbox'[x][k].msg \in handed'
    BY <1>5, <2>1, <2>2, <2>3, SMTT(30) DEF Contents, FramesAreBacked
  <2>5. AcksBacked'
    BY <1>b, <2>3, <2>4 DEF AcksBacked
  <2>6. QED
    BY <1>a, <2>3, <2>5, QuietContents
<1>6. ASSUME NEW s \in Socket, NEW m \in Traffic, SubmitMessage(s, m) PROVE Contents'
  <2>1. [type |-> "message", msg |-> m.msg, to |-> m.to] \in MessageFrame
    BY DEF MessageFrame
  <2>2. QED
    BY <1>5, <1>6, <2>1 DEF SubmitMessage
<1>7. ASSUME NEW s \in Socket, NEW i \in MsgId, SubmitAck(s, i) PROVE Contents'
  <2>1. [type |-> "ack", msg |-> i] \in AckFrame
    BY DEF AckFrame
  <2>2. QED
    BY <1>5, <1>7, <2>1 DEF SubmitAck
<1>8. ASSUME NEW s \in Socket, Authenticate(s) PROVE Contents'
  <2>1. UNCHANGED <<row, handed, inbox, user, todo, sentOn>>
        /\ \A x \in Socket : pc[x] \in Serving => pc'[x] \in Serving
    BY <1>8 DEF Authenticate, table, task, Base, TypeOK, Serving
  <2>2. QED
    BY <1>a, <1>c, <2>1, QuietContents
<1>9. ASSUME NEW s \in Socket, NEW how, End(s, how), UNCHANGED <<row, handed>> PROVE Contents'
  BY <1>9, <1>a, <1>b, EndContents
<1>10. ASSUME NEW s \in Socket, Reject(s) \/ ReadyFails(s) \/ ConnectAuditFails(s) \/ Disconnect(s)
       PROVE Contents'
  BY <1>9, <1>10 DEF Reject, ReadyFails, ConnectAuditFails, Disconnect, Leave, table
<1>11. ASSUME NEW s \in Socket, Register(s) PROVE Contents'
  <2>. DEFINE u == user[s]  old == conn[u]  c == [conn EXCEPT ![u] = s]
  <2>1. /\ u \in User /\ c \in [User -> Socket \cup {NoSocket}] /\ c[u] = s
        /\ PendingFor(u) \in SUBSET MsgId /\ UNCHANGED <<row, user, inbox>>
        /\ \A i \in PendingFor(u) : Posted(i) /\ row[i].recipient = u
    BY <1>11 DEF Register, table, Base, TypeOK, SessionsAreWhole, PendingFor, Pending
  <2>2. CASE Drain(s, PendingFor(u), c)
    BY <2>1, <2>2, DrainContents
  <2>3. CASE Await(s, "closing", old, NoMsg, c) /\ UNCHANGED <<sentOn, todo, handed, lapsed>>
    <3>1. \A x \in Socket : pc[x] \in Serving => pc'[x] \in Serving
      BY <2>3 DEF Await, Base, TypeOK, Serving
    <3>2. QED
      BY <1>a, <1>c, <2>1, <2>3, <3>1, QuietContents
  <2>4. QED
    BY <1>11, <2>2, <2>3 DEF Register
<1>12. ASSUME NEW s \in Socket, StartDrain(s) PROVE Contents'
  <2>1. /\ user[s] \in User /\ conn \in [User -> Socket \cup {NoSocket}]
        /\ PendingFor(user[s]) \in SUBSET MsgId /\ UNCHANGED <<row, user, inbox>>
        /\ \A i \in PendingFor(user[s]) : Posted(i) /\ row[i].recipient = user[s]
    BY <1>12 DEF StartDrain, table, Base, TypeOK, SessionsAreWhole, PendingFor, Pending
  <2>2. Drain(s, PendingFor(user[s]), conn)
    BY <1>12 DEF StartDrain
  <2>3. QED
    BY <2>1, <2>2, LiveRoutes, DrainContents
<1>13. ASSUME NEW s \in Socket, ResumeDrain(s) PROVE Contents'
  <2>1. /\ user[s] \in User /\ conn \in [User -> Socket \cup {NoSocket}]
        /\ todo[s] \in SUBSET MsgId /\ UNCHANGED <<row, user, inbox>>
        /\ \A i \in todo[s] : Posted(i) /\ row[i].recipient = user[s]
    BY <1>13 DEF ResumeDrain, table, Base, TypeOK, SessionsAreWhole, Contents, FramesAreBacked
  <2>2. CASE Drain(s, todo[s], conn)
    BY <2>1, <2>2, LiveRoutes, DrainContents
  <2>3. CASE /\ Loop(s, Cut(conn, user[s], peer[s])) /\ todo' = [todo EXCEPT ![s] = {}]
             /\ UNCHANGED <<sentOn, handed>>
    <3>1. FramesAreBacked'
      BY <1>13, <2>1, <2>3 DEF Loop, Contents, FramesAreBacked, Base, TypeOK, Posted, Serving
    <3>2. OnlyRecipientsRead'
      BY <2>1, <2>3 DEF Contents, OnlyRecipientsRead, Delivered, Posted
    <3>3. QED
      BY <3>1, <3>2 DEF Contents
  <2>4. QED
    BY <1>13, <2>2, <2>3 DEF ResumeDrain
<1>14. ASSUME NEW s \in Socket, inbox[s] # <<>>
       PROVE Head(inbox[s]) \in MessageFrame \cup AckFrame
             /\ (Head(inbox[s]).type = "ack" => Head(inbox[s]).msg \in handed)
  <2>1. inbox[s] \in Seq(MessageFrame \cup AckFrame)
    BY DEF Base, TypeOK
  <2>2. /\ Head(inbox[s]) \in MessageFrame \cup AckFrame /\ Len(inbox[s]) \in Nat \ {0}
        /\ Head(inbox[s]) = inbox[s][1]
    BY <1>14, <2>1, FrameTaken
  <2>3. QED
    BY <2>2 DEF Contents, FramesAreBacked
<1>15. ASSUME NEW s \in Socket, HandleMessage(s) PROVE Contents'
  <2>0. PICK f \in MessageFrame \cup AckFrame, u \in User : f = Head(inbox[s]) /\ u = user[s]
    BY <1>14, <1>15 DEF HandleMessage, Base, SessionsAreWhole
  <2>. DEFINE i == f.msg  t == conn[f.to]  c == [conn EXCEPT ![f.to] = NoSocket]
  <2>1. /\ pc[s] = "loop" /\ inbox[s] # <<>> /\ f.type = "message" /\ Acceptable(u, f)
        /\ inbox' = [inbox EXCEPT ![s] = Tail(@)] /\ Enqueue(i, u, f.to)
        /\ UNCHANGED <<user, link, todo, calm>>
    BY <1>15, <2>0 DEF HandleMessage
  <2>2. i \in MsgId /\ f.to \in User
    BY <2>1 DEF Acceptable, MessageFrame, AckFrame
  <2>3. /\ Posted(i)' /\ \A j \in MsgId : Posted(j) => row'[j] = row[j]
        /\ \A j \in MsgId \ {i} : row'[j] = row[j]
        /\ ~Posted(i) => row'[i].sender = u /\ row'[i].recipient = f.to /\ ~row'[i].delivered
    BY <2>0, <2>1, <2>2, EnqueueStores DEF Base
  <2>4. RowsKept /\ row'[i].recipient = f.to /\ \A j \in MsgId : Delivered(j)' => Delivered(j)
    BY <2>1, <2>2, <2>3 DEF RowsKept, Acceptable, Posted, Delivered
  <2>5. ASSUME handed \subseteq handed' PROVE AcksBacked'
    <3>1. \A x \in Socket : \A k \in 1..Len(inbox'[x]) :
             inbox'[x][k].type = "ack" => inbox'[x][k].msg \in handed'
      BY <2>1, <2>5, TakingKeepsAcks
    <3>2. \A j \in MsgId : Delivered(j)' => j \in handed'
      BY <2>4, <2>5 DEF Contents, OnlyRecipientsRead
    <3>3. QED
      BY <3>1, <3>2 DEF AcksBacked
  <2>6. conn \in [User -> Socket \cup {NoSocket}] /\ c \in [User -> Socket \cup {NoSocket}]
    BY DEF Base, TypeOK
  <2>7. ASSUME NEW st, NEW d \in [User -> Socket \cup {NoSocket}], Notify(s, u, i, st, d),
               UNCHANGED <<sentOn, handed>>
        PROVE Contents'
    <3>1. \A x \in Socket : pc[x] \in Serving => pc'[x] \in Serving
      BY <2>2, <2>7, NotifyPrunes
    <3>2. QED
      BY <2>1, <2>4, <2>5, <2>7, <3>1, QuietContents
  <2>8. CASE Live(t) /\ Hand(t, i) /\ Await(s, "deliver", t, i, conn)
    <3>1. t \in Socket /\ user[t] = f.to /\ pc[t] \in Serving
      BY <2>2, <2>8, LiveRoutes
    <3>2. \A x \in Socket : pc[x] \in Serving => pc'[x] \in Serving
      BY <2>8 DEF Await, Base, TypeOK, Serving
    <3>3. \A x \in Socket : \A j \in todo'[x] : j \in MsgId /\ Posted(j) /\ row[j].recipient = user[x]
      BY <2>1 DEF Contents, FramesAreBacked, Base, TypeOK
    <3>4. AcksBacked'
      BY <2>5, <2>8 DEF Hand
    <3>. HIDE DEF t
    <3>5. QED
      BY <2>1, <2>2, <2>3, <2>4, <2>8, <3>1, <3>2, <3>3, <3>4, HandContents
  <2>9. QED
    BY <1>15, <2>0, <2>6, <2>7, <2>8 DEF HandleMessage
<1>16. ASSUME NEW s \in Socket, EnqueueAuditFails(s) PROVE Contents'
  <2>0. PICK f \in MessageFrame \cup AckFrame, u \in User : f = Head(inbox[s]) /\ u = user[s]
    BY <1>14, <1>16 DEF EnqueueAuditFails, Base, SessionsAreWhole
  <2>1. f.msg \in MsgId /\ f.to \in User /\ Enqueue(f.msg, u, f.to) /\ End(s, "gone") /\ UNCHANGED handed
    BY <1>16, <2>0 DEF EnqueueAuditFails, Leave, Acceptable, MessageFrame, AckFrame
  <2>2. /\ \A j \in MsgId : Posted(j) => row'[j] = row[j]
        /\ \A j \in MsgId \ {f.msg} : row'[j] = row[j]
        /\ ~Posted(f.msg) => ~row'[f.msg].delivered
    BY <2>1, EnqueueStores DEF Base
  <2>3. RowsKept /\ \A j \in MsgId : Delivered(j)' => Delivered(j)
    BY <2>1, <2>2 DEF RowsKept, Posted, Delivered
  <2>4. \A j \in MsgId : Delivered(j)' => j \in handed
    BY <2>3 DEF Contents, OnlyRecipientsRead
  <2>5. QED
    BY <2>1, <2>3, <2>4, EndContents
<1>17. ASSUME NEW s \in Socket, ResumeDeliver(s) \/ ResumeNotify(s) PROVE Contents'
  <2>1. UNCHANGED <<row, handed, inbox, user, todo, sentOn>>
    BY <1>17 DEF ResumeDeliver, ResumeNotify, table, task
  <2>2. \A x \in Socket : pc[x] \in Serving => pc'[x] \in Serving
    BY <1>17 DEF ResumeDeliver, ResumeNotify, Notify, Loop, Await, Base, TypeOK, Serving
  <2>3. QED
    BY <1>a, <1>c, <2>1, <2>2, QuietContents
<1>18. ASSUME NEW s \in Socket, NEW i \in handed, Posted(i), row' = [row EXCEPT ![i].delivered = TRUE],
              UNCHANGED handed
       PROVE RowsKept /\ \A j \in MsgId : Delivered(j)' => j \in handed'
  <2>1. i \in MsgId
    BY DEF Base, TypeOK
  <2>2. /\ row'[i].sender = row[i].sender /\ row'[i].recipient = row[i].recipient
        /\ \A j \in MsgId : Posted(j) <=> Posted(j)'
        /\ \A j \in MsgId \ {i} : row'[j] = row[j]
    BY <1>18, <2>1, MarkStores DEF Base
  <2>3. QED
    BY <1>18, <2>1, <2>2 DEF RowsKept, Contents, OnlyRecipientsRead, Delivered
<1>19. ASSUME NEW s \in Socket, HandleAck(s) PROVE Contents'
  <2>0. PICK i \in handed, u \in User : i = Head(inbox[s]).msg /\ u = row[i].sender
    <3>1. Head(inbox[s]).msg \in handed
      BY <1>14, <1>19 DEF HandleAck
    <3>2. row[Head(inbox[s]).msg].sender \in User
      BY <1>19, <3>1 DEF HandleAck, Posted, Base, TypeOK, Row
    <3>3. QED
      BY <3>1, <3>2
  <2>1. /\ inbox[s] # <<>> /\ Posted(i) /\ row' = [row EXCEPT ![i].delivered = TRUE]
        /\ Notify(s, u, i, "delivered", conn) /\ inbox' = [inbox EXCEPT ![s] = Tail(@)]
        /\ UNCHANGED <<user, todo, sentOn, handed>> /\ pc[s] \in Serving
    BY <1>19, <2>0 DEF HandleAck, Serving
  <2>2. RowsKept /\ \A j \in MsgId : Delivered(j)' => j \in handed'
    BY <1>18, <2>1
  <2>3. AcksBacked'
    BY <2>1, <2>2, TakingKeepsAcks DEF AcksBacked
  <2>4. \A x \in Socket : pc[x] \in Serving => pc'[x] \in Serving
    BY <2>1, NotifyPrunes DEF Base, TypeOK
  <2>5. QED
    BY <2>1, <2>2, <2>3, <2>4, QuietContents
<1>20. ASSUME NEW s \in Socket, AckAuditFails(s) PROVE Contents'
  <2>0. PICK i \in handed : i = Head(inbox[s]).msg
    BY <1>14, <1>20 DEF AckAuditFails
  <2>1. Posted(i) /\ row' = [row EXCEPT ![i].delivered = TRUE] /\ UNCHANGED handed /\ End(s, "gone")
    BY <1>20, <2>0 DEF AckAuditFails, Leave
  <2>2. RowsKept /\ \A j \in MsgId : Delivered(j)' => j \in handed'
    BY <1>18, <2>1
  <2>3. QED
    BY <2>1, <2>2, EndContents
<1>21. ASSUME NEW s \in Socket, RefuseFrame(s) PROVE Contents'
  <2>1. /\ inbox[s] # <<>> /\ inbox' = [inbox EXCEPT ![s] = Tail(@)]
        /\ UNCHANGED <<row, user, todo, sentOn, handed, pc>>
    BY <1>21 DEF RefuseFrame, table
  <2>2. AcksBacked'
    BY <1>b, <2>1, TakingKeepsAcks DEF AcksBacked
  <2>3. QED
    BY <1>a, <2>1, <2>2, QuietContents
<1>22. CASE UNCHANGED vars
  BY <1>22, <1>a, <1>c, QuietContents DEF vars
<1>23. QED
  BY <1>1, <1>2, <1>3, <1>4, <1>6, <1>7, <1>8, <1>10, <1>11, <1>12, <1>13, <1>15, <1>16,
     <1>17, <1>19, <1>20, <1>21, <1>22
     DEF Next, Run, Fail, Client

-----------------------------------------------------------------------------
Wakeups == DrainsFollowRoutes /\ NothingForgotten

\* Sessions past their snapshot, and those of them that the route leads to.
Drained  == Serving \ {"closing"}
Reachable(x) == pc[x] \in Drained /\ conn[user[x]] = x /\ link[x] # "closed"

\* What Wakeups says, one message and one session at a time.
Remembered(x, j) == j \in sentOn[x] \/ j \in todo[x] \/ j \in lapsed

\* The same without sets: what is pending for a reachable session is remembered.
LEMMA WakeupsPointwise ==
  Wakeups <=> /\ \A x \in Socket : pc[x] = "drain" /\ conn[user[x]] = x => peer[x] = x
              /\ \A x \in Socket, j \in MsgId :
                    Reachable(x) /\ Pending(j) /\ row[j].recipient = user[x] => Remembered(x, j)
  BY DEF Wakeups, DrainsFollowRoutes, NothingForgotten, PendingFor, Reachable, Remembered, Drained

\* The same of the next state, in the form the steps are proved in.
LEMMA WakeupsPointwiseNext ==
  ASSUME \A x \in Socket : pc'[x] = "drain" /\ conn'[user'[x]] = x => peer'[x] = x,
         \A x \in Socket, j \in MsgId :
            Reachable(x)' /\ Pending(j)' /\ row'[j].recipient = user'[x] => Remembered(x, j)'
  PROVE  Wakeups'
  BY DEF Wakeups, DrainsFollowRoutes, NothingForgotten, PendingFor, Reachable, Remembered, Drained

\* A step that starts no drain and gives no session a new route keeps every
\* wake-up if each message it adds has lapsed or is for a user without a route.
LEMMA QuietWakeups ==
  ASSUME Base, Wakeups,
         \A x \in Socket : pc'[x] \in Drained =>
            /\ pc[x] \in Drained /\ user'[x] = user[x]
            /\ conn'[user[x]] = x => conn[user[x]] = x
            /\ link'[x] # "closed" => link[x] # "closed"
            /\ sentOn[x] \subseteq sentOn'[x] /\ todo[x] \subseteq todo'[x]
            /\ pc'[x] = "drain" => pc[x] = "drain" /\ peer'[x] = peer[x],
         lapsed \subseteq lapsed',
         \A j \in MsgId : Pending(j)' =>
            \/ Pending(j) /\ row'[j].recipient = row[j].recipient
            \/ j \in lapsed'
            \/ conn'[row'[j].recipient] = NoSocket
  PROVE  Wakeups'
<1>1. \A x \in Socket : pc'[x] = "drain" /\ conn'[user'[x]] = x => peer'[x] = x
  BY WakeupsPointwise DEF Drained, Serving
<1>2. ASSUME NEW x \in Socket, NEW j \in MsgId,
             Reachable(x)', Pending(j)', row'[j].recipient = user'[x]
      PROVE  Remembered(x, j)'
  <2>1. Reachable(x) /\ user'[x] = user[x] /\ conn'[user[x]] = x
    BY <1>2 DEF Reachable
  <2>2. CASE Pending(j) /\ row'[j].recipient = row[j].recipient
    <3>1. Remembered(x, j)
      BY <1>2, <2>1, <2>2, WakeupsPointwise
    <3>2. QED
      BY <1>2, <3>1 DEF Remembered, Reachable
  <2>3. CASE j \in lapsed'
    BY <2>3 DEF Remembered
  <2>4. QED
    BY <1>2, <2>1, <2>2, <2>3
<1>3. QED
  BY <1>1, <1>2, WakeupsPointwiseNext

\* The drain of s over what is pending for its user forgets nothing.
LEMMA DrainWakeups ==
  ASSUME Base, Wakeups, NEW s \in Socket, user[s] \in User, NEW S \in SUBSET MsgId,
         NEW c \in [User -> Socket \cup {NoSocket}], Drain(s, S, c),
         \A i \in S : row[i].recipient = user[s],
         \A j \in MsgId : c[user[s]] = s /\ link[s] # "closed" /\ Pending(j) /\ row[j].recipient = user[s]
            => j \in S \/ j \in sentOn[s] \/ j \in lapsed,
         \A x \in Socket \ {s} : pc[x] \in Serving /\ c[user[x]] = x => conn[user[x]] = x,
         UNCHANGED <<row, user, link>>
  PROVE  Wakeups'
<1>. DEFINE t == c[user[s]]
<1>0. /\ \A x \in Socket \ {s} : pc'[x] = pc[x] /\ peer'[x] = peer[x] /\ todo'[x] = todo[x]
      /\ pc'[s] \in {"drain", "loop"} /\ Pruned(c, conn')
  BY DrainTyped, DrainPrunes
<1>1. ASSUME NEW x \in Socket \ {s}, pc'[x] \in Drained, conn'[user'[x]] = x
      PROVE  conn[user[x]] = x /\ c[user[x]] = x /\ pc[x] \in Drained
  <2>1. pc[x] \in Drained /\ user'[x] = user[x] /\ user[x] \in User
    BY <1>0, <1>1 DEF Base, SessionsAreWhole, Drained, Serving
  <2>2. c[user[x]] = x
    BY <1>0, <1>1, <2>1 DEF Pruned
  <2>3. QED
    BY <2>1, <2>2 DEF Drained
<1>2. \A j \in MsgId : Pending(j)' <=> Pending(j)
  BY DEF Pending, Posted
<1>3. ASSUME UNCHANGED <<sentOn, lapsed>>, S = {} \/ conn'[user[s]] = NoSocket, pc'[s] = "loop"
      PROVE  Wakeups'
  <2>1. \A x \in Socket : pc'[x] = "drain" /\ conn'[user'[x]] = x => peer'[x] = x
    BY <1>0, <1>1, <1>3, WakeupsPointwise DEF Drained, Serving
  <2>2. ASSUME NEW x \in Socket, NEW j \in MsgId,
               Reachable(x)', Pending(j)', row'[j].recipient = user'[x]
        PROVE  Remembered(x, j)'
    <3>1. CASE x = s
      <4>1. S = {} /\ link[s] # "closed" /\ conn'[user[s]] = s
        BY <1>3, <2>2, <3>1 DEF Reachable
      <4>2. c[user[s]] = s
        BY <1>0, <4>1 DEF Pruned
      <4>3. QED
        BY <1>2, <1>3, <2>2, <3>1, <4>1, <4>2 DEF Remembered
    <3>2. CASE x # s
      <4>1. Reachable(x)
        BY <1>1, <2>2, <3>2 DEF Reachable
      <4>2. Remembered(x, j)
        BY <1>2, <2>2, <4>1, WakeupsPointwise
      <4>3. QED
        BY <1>0, <1>3, <3>2, <4>2 DEF Remembered
    <3>3. QED
      BY <3>1, <3>2
  <2>3. QED
    BY <2>1, <2>2, WakeupsPointwiseNext
<1>4. ASSUME Live(t), NEW i \in S, Hand(t, i), todo' = [todo EXCEPT ![s] = S \ {i}],
             Await(s, "drain", t, NoMsg, c)
      PROVE  Wakeups'
  <2>0. /\ t \in Socket /\ conn' = c /\ peer'[s] = t /\ todo'[s] = S \ {i} /\ lapsed' = lapsed \ {i}
        /\ i \in sentOn'[t] /\ \A x \in Socket : sentOn[x] \subseteq sentOn'[x]
    BY <1>4 DEF Live, Await, Hand, Base, TypeOK
  <2>1. \A x \in Socket : pc'[x] = "drain" /\ conn'[user'[x]] = x => peer'[x] = x
    BY <1>0, <1>1, <2>0, WakeupsPointwise DEF Drained, Serving
  <2>2. ASSUME NEW x \in Socket, NEW j \in MsgId,
               Reachable(x)', Pending(j)', row'[j].recipient = user'[x]
        PROVE  Remembered(x, j)'
    <3>1. CASE j = i
      <4>1. user[x] = user[s]
        BY <2>2, <3>1
      <4>2. x = t
        BY <2>0, <2>2, <4>1 DEF Reachable
      <4>3. QED
        BY <2>0, <3>1, <4>2 DEF Remembered
    <3>2. CASE j # i /\ x = s
      <4>1. c[user[s]] = s /\ link[s] # "closed"
        BY <2>0, <2>2, <3>2 DEF Reachable
      <4>2. j \in S \/ j \in sentOn[s] \/ j \in lapsed
        BY <1>2, <2>2, <3>2, <4>1
      <4>3. QED
        BY <2>0, <3>2, <4>2 DEF Remembered
    <3>3. CASE j # i /\ x # s
      <4>1. Reachable(x)
        BY <1>1, <2>2, <3>3 DEF Reachable
      <4>2. Remembered(x, j)
        BY <1>2, <2>2, <4>1, WakeupsPointwise
      <4>3. QED
        BY <1>0, <2>0, <3>3, <4>2 DEF Remembered
    <3>4. QED
      BY <3>1, <3>2, <3>3
  <2>3. QED
    BY <2>1, <2>2, WakeupsPointwiseNext
<1>5. CASE S = {} /\ Loop(s, c) /\ UNCHANGED <<sentOn, handed, lapsed>>
  BY <1>3, <1>5 DEF Loop, Base, TypeOK
<1>6. CASE ~Live(t) /\ Loop(s, [c EXCEPT ![user[s]] = NoSocket]) /\ UNCHANGED <<sentOn, handed, lapsed>>
  BY <1>3, <1>6 DEF Loop, Base, TypeOK
<1>7. QED
  BY <1>4, <1>5, <1>6 DEF Drain

\* No step forgets what is pending for a reachable session.
LEMMA WakeupsStep == Base /\ Routes /\ Contents /\ Wakeups /\ [Next]_vars => Wakeups'
<1> SUFFICES ASSUME Base, Routes, Contents, Wakeups, [Next]_vars PROVE Wakeups'
  OBVIOUS
<1>a. ASSUME UNCHANGED row
      PROVE \A j \in MsgId : Pending(j)' => Pending(j) /\ row'[j].recipient = row[j].recipient
  BY <1>a DEF Pending, Posted
<1>1. CASE Crash
  BY <1>1, <1>a, QuietWakeups DEF Crash, table, Drained, Serving
<1>2. CASE Settle
  BY <1>2, <1>a, QuietWakeups DEF Settle, table, task
<1>3. ASSUME NEW s \in Socket, NEW u \in User, Open(s, u) PROVE Wakeups'
  <2>1. pc'[s] = "auth" /\ UNCHANGED <<row, conn, sentOn, todo, peer, lapsed>>
        /\ \A x \in Socket \ {s} : pc'[x] = pc[x] /\ user'[x] = user[x] /\ link'[x] = link[x]
    BY <1>3 DEF Open, table, Base, TypeOK
  <2>2. QED
    BY <1>a, <2>1, QuietWakeups DEF Drained, Serving
<1>4. ASSUME NEW s \in Socket, LoseLink(s) \/ NoticeLoss(s) PROVE Wakeups'
  <2>1. UNCHANGED <<row, conn, pc, user, sentOn, todo, peer, lapsed>>
        /\ \A x \in Socket : link'[x] # "closed" => link[x] # "closed"
    BY <1>4 DEF LoseLink, NoticeLoss, table, Base, TypeOK
  <2>2. QED
    BY <1>a, <2>1, QuietWakeups
<1>5. ASSUME NEW s \in Socket, NEW f, Receive(s, f) PROVE Wakeups'
  BY <1>5, <1>a, QuietWakeups DEF Receive, table
<1>6. ASSUME NEW s \in Socket, Authenticate(s) PROVE Wakeups'
  <2>1. pc'[s] = "ready" /\ UNCHANGED <<row, conn, user, link, sentOn, todo, peer, lapsed>>
        /\ \A x \in Socket \ {s} : pc'[x] = pc[x]
    BY <1>6 DEF Authenticate, table, task, Base, TypeOK
  <2>2. QED
    BY <1>a, <2>1, QuietWakeups DEF Drained, Serving
<1>7. ASSUME NEW s \in Socket, NEW how \in {"gone", "failed"}, End(s, how),
             \A x \in Socket \ {s} : pc[x] \in Drained => (conn'[user[x]] = x => conn[user[x]] = x),
             lapsed \subseteq lapsed',
             \A j \in MsgId : Pending(j)' =>
                (Pending(j) /\ row'[j].recipient = row[j].recipient) \/ j \in lapsed'
      PROVE Wakeups'
  <2>1. \A x \in Socket \ {s} : /\ pc'[x] = pc[x] /\ user'[x] = user[x] /\ link'[x] = link[x]
                               /\ sentOn'[x] = sentOn[x] /\ todo'[x] = todo[x] /\ peer'[x] = peer[x]
    BY <1>7 DEF End, Base, TypeOK
  <2>2. pc'[s] \notin Drained
    BY <1>7 DEF End, Base, TypeOK, Drained, Serving
  <2>3. QED
    BY <1>7, <2>1, <2>2, QuietWakeups
<1>8. ASSUME NEW s \in Socket, Reject(s) \/ ReadyFails(s) PROVE Wakeups'
  BY <1>8, <1>7, <1>a DEF Reject, ReadyFails, table
<1>9. ASSUME NEW s \in Socket, Disconnect(s) PROVE Wakeups'
  <2>1. \A x \in Socket \ {s} : conn'[user[x]] = x => conn[user[x]] = x
    BY <1>9 DEF Disconnect, Leave, Cut, Base, TypeOK, SessionsAreWhole
  <2>2. End(s, "gone") /\ UNCHANGED <<row, lapsed>>
    BY <1>9 DEF Disconnect, Leave, table
  <2>3. QED
    BY <1>7, <1>a, <2>1, <2>2
<1>10. ASSUME NEW s \in Socket, ConnectAuditFails(s) PROVE Wakeups'
  <2>1. \A x \in Socket \ {s} : pc[x] \in Drained => (conn'[user[x]] = x => conn[user[x]] = x)
    BY <1>10 DEF ConnectAuditFails, Base, TypeOK, SessionsAreWhole, Drained, Serving
  <2>2. End(s, "failed") /\ UNCHANGED <<row, lapsed>>
    BY <1>10 DEF ConnectAuditFails, table
  <2>3. QED
    BY <1>7, <1>a, <2>1, <2>2
<1>11. ASSUME NEW u PROVE PendingFor(u) \in SUBSET MsgId /\ \A i \in PendingFor(u) : row[i].recipient = u
  BY DEF PendingFor
<1>12. ASSUME NEW s \in Socket, Register(s) PROVE Wakeups'
  <2>. DEFINE u == user[s]  old == conn[u]  c == [conn EXCEPT ![u] = s]
  <2>1. /\ u \in User /\ c \in [User -> Socket \cup {NoSocket}] /\ pc[s] = "ready"
        /\ UNCHANGED <<row, user>>
        /\ \A x \in Socket \ {s} : pc[x] \in Serving /\ c[user[x]] = x => conn[user[x]] = x
    BY <1>12 DEF Register, table, Base, TypeOK, SessionsAreWhole, Serving
  <2>2. CASE Drain(s, PendingFor(u), c) /\ UNCHANGED link
    <3>1. PICK v \in User, d \in [User -> Socket \cup {NoSocket}] : v = u /\ d = c
      BY <2>1
    <3>2. /\ Drain(s, PendingFor(v), d) /\ UNCHANGED <<row, user, link>>
          /\ PendingFor(v) \in SUBSET MsgId
          /\ \A i \in PendingFor(v) : row[i].recipient = user[s]
      BY <1>11, <2>1, <2>2, <3>1
    <3>3. \A j \in MsgId : d[user[s]] = s /\ link[s] # "closed" /\ Pending(j) /\ row[j].recipient = user[s]
            => j \in PendingFor(v) \/ j \in sentOn[s] \/ j \in lapsed
      BY <3>1 DEF PendingFor
    <3>4. \A x \in Socket \ {s} : pc[x] \in Serving /\ d[user[x]] = x => conn[user[x]] = x
      BY <2>1, <3>1
    <3>5. user[s] \in User
      BY <2>1
    <3>. HIDE DEF u, c
    <3>6. QED
      BY <3>2, <3>3, <3>4, <3>5, DrainWakeups
  <2>3. CASE /\ old # NoSocket /\ link' = [link EXCEPT ![old] = "closed"]
             /\ Await(s, "closing", old, NoMsg, c) /\ UNCHANGED <<sentOn, todo, handed, lapsed>>
    <3>1. /\ pc'[s] = "closing" /\ conn' = c
          /\ \A x \in Socket \ {s} : pc'[x] = pc[x] /\ peer'[x] = peer[x]
          /\ \A x \in Socket : link'[x] # "closed" => link[x] # "closed"
      BY <2>3 DEF Await, Base, TypeOK
    <3>2. QED
      BY <1>a, <2>1, <2>3, <3>1, QuietWakeups DEF Drained
  <2>4. QED
    BY <1>12, <2>2, <2>3 DEF Register
<1>13. ASSUME NEW s \in Socket, StartDrain(s) PROVE Wakeups'
  <2>1. /\ user[s] \in User /\ conn \in [User -> Socket \cup {NoSocket}]
        /\ UNCHANGED <<row, user, link>> /\ Drain(s, PendingFor(user[s]), conn)
    BY <1>13 DEF StartDrain, table, Base, TypeOK, SessionsAreWhole
  <2>2. \A j \in MsgId : Pending(j) /\ row[j].recipient = user[s] => j \in PendingFor(user[s])
    BY DEF PendingFor
  <2>3. QED
    BY <1>11, <2>1, <2>2, DrainWakeups
<1>14. ASSUME NEW s \in Socket, ResumeDrain(s) PROVE Wakeups'
  <2>1. /\ user[s] \in User /\ conn \in [User -> Socket \cup {NoSocket}] /\ todo[s] \in SUBSET MsgId
        /\ UNCHANGED <<row, user, link>> /\ pc[s] = "drain" /\ peer[s] \in Socket
        /\ \A i \in todo[s] : row[i].recipient = user[s]
    BY <1>14 DEF ResumeDrain, table, Base, TypeOK, SessionsAreWhole, Contents, FramesAreBacked
  <2>2. CASE Drain(s, todo[s], conn)
    <3>1. \A j \in MsgId : conn[user[s]] = s /\ link[s] # "closed" /\ Pending(j) /\ row[j].recipient = user[s]
            => j \in todo[s] \/ j \in sentOn[s] \/ j \in lapsed
      BY <2>1, WakeupsPointwise DEF Reachable, Remembered, Drained, Serving
    <3>2. QED
      BY <2>1, <2>2, <3>1, DrainWakeups
  <2>3. CASE /\ link[peer[s]] = "closed"
             /\ Loop(s, Cut(conn, user[s], peer[s])) /\ todo' = [todo EXCEPT ![s] = {}]
             /\ UNCHANGED <<sentOn, handed, lapsed>>
    <3>1. /\ pc'[s] = "loop" /\ conn' = Cut(conn, user[s], peer[s])
          /\ \A x \in Socket \ {s} : pc'[x] = pc[x] /\ peer'[x] = peer[x] /\ todo'[x] = todo[x]
      BY <2>3 DEF Loop, Base, TypeOK
    <3>2. \A v \in User : conn'[v] = conn[v] \/ conn'[v] = NoSocket
      BY <3>1 DEF Cut, Base, TypeOK
    <3>3. \A x \in Socket : pc'[x] = "drain" /\ conn'[user'[x]] = x => peer'[x] = x
      BY <2>1, <3>1, <3>2, WakeupsPointwise DEF Base, SessionsAreWhole
    <3>4. ASSUME NEW x \in Socket, NEW j \in MsgId,
                 Reachable(x)', Pending(j)', row'[j].recipient = user'[x]
          PROVE  Remembered(x, j)'
      <4>1. pc[x] \in Drained /\ user[x] \in User /\ user'[x] = user[x]
        BY <2>1, <3>1, <3>4 DEF Reachable, Drained, Serving, Base, SessionsAreWhole
      <4>2. Reachable(x)
        BY <2>1, <3>2, <3>4, <4>1 DEF Reachable
      <4>3. x # s
        <5>1. SUFFICES ASSUME x = s PROVE FALSE
          OBVIOUS
        <5>2. peer[s] = s
          BY <2>1, <4>2, <5>1, WakeupsPointwise DEF Reachable
        <5>3. QED
          BY <2>3, <4>2, <5>1, <5>2 DEF Reachable
      <4>4. Remembered(x, j)
        BY <1>a, <2>1, <3>4, <4>1, <4>2, WakeupsPointwise
      <4>5. QED
        BY <2>3, <3>1, <4>3, <4>4 DEF Remembered
    <3>5. QED
      BY <3>3, <3>4, WakeupsPointwiseNext
  <2>4. QED
    BY <1>14, <2>2, <2>3 DEF ResumeDrain, Outcome
<1>15. ASSUME NEW s \in Socket, NEW u \in User, NEW i, NEW st, Notify(s, u, i, st, conn),
              pc[s] \in Drained, UNCHANGED <<user, link, sentOn, todo, lapsed>>,
              \A j \in MsgId : Pending(j)' => Pending(j) /\ row'[j].recipient = row[j].recipient
       PROVE Wakeups'
  <2>1. /\ pc'[s] \in {"notify", "loop"} /\ Pruned(conn, conn')
        /\ \A x \in Socket \ {s} : pc'[x] = pc[x] /\ peer'[x] = peer[x]
    BY <1>15 DEF Notify, Loop, Await, Pruned, Base, TypeOK
  <2>2. \A x \in Socket : pc'[x] \in Drained => (conn'[user[x]] = x => conn[user[x]] = x)
    BY <1>15, <2>1 DEF Pruned, Base, SessionsAreWhole, Drained, Serving
  <2>3. QED
    BY <1>15, <2>1, <2>2, QuietWakeups
<1>16. ASSUME NEW s \in Socket, inbox[s] # <<>> PROVE Head(inbox[s]) \in MessageFrame \cup AckFrame
  <2>1. inbox[s] \in Seq(MessageFrame \cup AckFrame)
    BY DEF Base, TypeOK
  <2>2. QED
    BY <1>16, <2>1, FrameTaken
<1>17. ASSUME NEW s \in Socket, HandleMessage(s) PROVE Wakeups'
  <2>0. PICK f \in MessageFrame \cup AckFrame, u \in User : f = Head(inbox[s]) /\ u = user[s]
    BY <1>16, <1>17 DEF HandleMessage, Base, SessionsAreWhole
  <2>. DEFINE i == f.msg  t == conn[f.to]  c == [conn EXCEPT ![f.to] = NoSocket]
  <2>1. /\ pc[s] = "loop" /\ f.type = "message" /\ Acceptable(u, f)
        /\ Enqueue(i, u, f.to) /\ UNCHANGED <<user, link, todo, calm>> /\ pc[s] \in Drained
    BY <1>17, <2>0 DEF HandleMessage, Drained, Serving
  <2>2. i \in MsgId /\ f.to \in User
    BY <2>1 DEF Acceptable, MessageFrame, AckFrame
  <2>3. /\ \A j \in MsgId : Posted(j) => row'[j] = row[j]
        /\ \A j \in MsgId \ {i} : row'[j] = row[j]
        /\ ~Posted(i) => row'[i].sender = u /\ row'[i].recipient = f.to /\ ~row'[i].delivered
    BY <2>0, <2>1, <2>2, EnqueueStores DEF Base
  <2>4. /\ \A j \in MsgId \ {i} : Pending(j)' => Pending(j) /\ row'[j].recipient = row[j].recipient
        /\ Posted(i) => (Pending(i)' => Pending(i) /\ row'[i].recipient = row[i].recipient)
        /\ row'[i].recipient = f.to
    BY <2>1, <2>2, <2>3 DEF Acceptable, Posted, Pending
  <2>5. CASE Delivered(i) /\ Notify(s, u, i, "delivered", conn) /\ UNCHANGED <<sentOn, lapsed>>
    BY <1>15, <2>0, <2>1, <2>2, <2>4, <2>5 DEF Delivered
  <2>6. CASE ~Live(t) /\ Notify(s, u, i, "queued", c) /\ UNCHANGED <<sentOn, lapsed>>
    <3>1. /\ pc'[s] \in {"notify", "loop"} /\ conn'[f.to] = NoSocket
          /\ \A v \in User : conn'[v] = conn[v] \/ conn'[v] = NoSocket
          /\ \A x \in Socket \ {s} : pc'[x] = pc[x] /\ peer'[x] = peer[x]
      BY <2>2, <2>6 DEF Notify, Loop, Await, Base, TypeOK
    <3>2. \A x \in Socket : pc'[x] \in Drained => (conn'[user[x]] = x => conn[user[x]] = x)
      BY <2>1, <3>1 DEF Base, SessionsAreWhole, Drained, Serving
    <3>3. \A j \in MsgId : Pending(j)' => \/ Pending(j) /\ row'[j].recipient = row[j].recipient
                                       \/ conn'[row'[j].recipient] = NoSocket
      BY <2>4, <3>1
    <3>4. QED
      BY <2>1, <2>6, <3>1, <3>2, <3>3, QuietWakeups
  <2>7. CASE Live(t) /\ Hand(t, i) /\ Await(s, "deliver", t, i, conn)
    <3>1. /\ t \in Socket /\ conn' = conn /\ pc'[s] = "deliver" /\ lapsed' = lapsed \ {i}
          /\ i \in sentOn'[t] /\ \A x \in Socket : sentOn[x] \subseteq sentOn'[x]
          /\ \A x \in Socket \ {s} : pc'[x] = pc[x] /\ peer'[x] = peer[x]
      BY <2>2, <2>7 DEF Live, Hand, Await, Base, TypeOK
    <3>2. \A x \in Socket : pc'[x] = "drain" /\ conn'[user'[x]] = x => peer'[x] = x
      BY <2>1, <3>1, WakeupsPointwise
    <3>3. ASSUME NEW x \in Socket, NEW j \in MsgId,
                 Reachable(x)', Pending(j)', row'[j].recipient = user'[x]
          PROVE  Remembered(x, j)'
      <4>1. Reachable(x)
        BY <2>1, <3>1, <3>3 DEF Reachable
      <4>2. CASE j = i
        <5>1. x = t
          BY <2>1, <2>4, <3>3, <4>1, <4>2 DEF Reachable
        <5>2. QED
          BY <3>1, <4>2, <5>1 DEF Remembered
      <4>3. CASE j # i
        <5>1. Remembered(x, j)
          BY <2>1, <2>4, <3>3, <4>1, <4>3, WakeupsPointwise
        <5>2. QED
          BY <2>1, <3>1, <4>3, <5>1 DEF Remembered
      <4>4. QED
        BY <4>2, <4>3
    <3>4. QED
      BY <3>2, <3>3, WakeupsPointwiseNext
  <2>8. QED
    BY <1>17, <2>0, <2>5, <2>6, <2>7 DEF HandleMessage
<1>18. ASSUME NEW s \in Socket, EnqueueAuditFails(s) PROVE Wakeups'
  <2>0. PICK f \in MessageFrame \cup AckFrame, u \in User : f = Head(inbox[s]) /\ u = user[s]
    BY <1>16, <1>18 DEF EnqueueAuditFails, Base, SessionsAreWhole
  <2>1. /\ f.msg \in MsgId /\ f.to \in User /\ Enqueue(f.msg, u, f.to) /\ End(s, "gone")
        /\ lapsed' = lapsed \cup {f.msg}
    BY <1>18, <2>0 DEF EnqueueAuditFails, Leave, Acceptable, MessageFrame, AckFrame
  <2>2. \A j \in MsgId \ {f.msg} : row'[j] = row[j]
    BY <2>1, EnqueueStores DEF Base
  <2>3. \A x \in Socket \ {s} : conn'[user[x]] = x => conn[user[x]] = x
    BY <1>18 DEF EnqueueAuditFails, Leave, Cut, Base, TypeOK, SessionsAreWhole
  <2>4. \A j \in MsgId : Pending(j)' => (Pending(j) /\ row'[j].recipient = row[j].recipient) \/ j \in lapsed'
    BY <2>1, <2>2 DEF Pending, Posted
  <2>5. QED
    BY <1>7, <2>1, <2>3, <2>4
<1>19. ASSUME NEW s \in Socket, ResumeDeliver(s) PROVE Wakeups'
  <2>0. PICK st, c : /\ Notify(s, user[s], job[s], st, c)
                     /\ c = conn \/ c = Cut(conn, row[job[s]].recipient, peer[s])
    BY <1>19 DEF ResumeDeliver
  <2>a. /\ c \in [User -> Socket \cup {NoSocket}]
        /\ \A v \in User : c[v] = conn[v] \/ c[v] = NoSocket
    BY <2>0 DEF Cut, Base, TypeOK
  <2>1. /\ pc[s] = "deliver" /\ pc'[s] \in {"notify", "loop"}
        /\ UNCHANGED <<row, user, link, sentOn, todo, lapsed>>
        /\ \A v \in User : conn'[v] = conn[v] \/ conn'[v] = NoSocket
        /\ \A x \in Socket \ {s} : pc'[x] = pc[x] /\ peer'[x] = peer[x]
    <3>1. /\ pc[s] = "deliver" /\ UNCHANGED <<row, user, link, sentOn, todo, lapsed>>
      BY <1>19 DEF ResumeDeliver, table, task
    <3>2. CASE \E k : Await(s, "notify", k, job[s], c)
      BY <2>a, <3>1, <3>2 DEF Await, Base, TypeOK
    <3>3. CASE Loop(s, [c EXCEPT ![user[s]] = NoSocket])
      BY <2>a, <3>1, <3>3 DEF Loop, Base, TypeOK
    <3>4. QED
      BY <2>0, <3>2, <3>3 DEF Notify
  <2>2. \A x \in Socket : pc'[x] \in Drained => (conn'[user[x]] = x => conn[user[x]] = x)
    BY <2>1 DEF Base, SessionsAreWhole, Drained, Serving
  <2>3. QED
    BY <1>a, <2>1, <2>2, QuietWakeups DEF Drained, Serving
<1>20. ASSUME NEW s \in Socket, ResumeNotify(s) PROVE Wakeups'
  <2>1. /\ pc[s] = "notify" /\ pc'[s] = "loop"
        /\ UNCHANGED <<row, user, link, sentOn, todo, lapsed>>
        /\ \A v \in User : conn'[v] = conn[v] \/ conn'[v] = NoSocket
        /\ \A x \in Socket \ {s} : pc'[x] = pc[x] /\ peer'[x] = peer[x]
    BY <1>20 DEF ResumeNotify, Loop, Cut, table, task, Base, TypeOK, SessionsAreWhole
  <2>2. \A x \in Socket : pc'[x] \in Drained => (conn'[user[x]] = x => conn[user[x]] = x)
    BY <2>1 DEF Base, SessionsAreWhole, Drained, Serving
  <2>3. QED
    BY <1>a, <2>1, <2>2, QuietWakeups DEF Drained, Serving
<1>21. ASSUME NEW s \in Socket, NEW i \in MsgId, Posted(i), row' = [row EXCEPT ![i].delivered = TRUE]
       PROVE \A j \in MsgId : Pending(j)' => Pending(j) /\ row'[j].recipient = row[j].recipient
  <2>1. row'[i].delivered /\ \A j \in MsgId \ {i} : row'[j] = row[j]
    BY <1>21, MarkStores DEF Base
  <2>2. QED
    BY <2>1 DEF Pending, Posted
<1>22. ASSUME NEW s \in Socket, HandleAck(s) PROVE Wakeups'
  <2>0. PICK f \in MessageFrame \cup AckFrame : f = Head(inbox[s])
    BY <1>16, <1>22 DEF HandleAck
  <2>1. /\ f.msg \in MsgId /\ Posted(f.msg) /\ row' = [row EXCEPT ![f.msg].delivered = TRUE]
        /\ Notify(s, row[f.msg].sender, f.msg, "delivered", conn) /\ pc[s] \in Drained
        /\ UNCHANGED <<user, link, sentOn, todo, lapsed>>
    BY <1>22, <2>0 DEF HandleAck, MessageFrame, AckFrame, Drained, Serving
  <2>2. row[f.msg].sender \in User
    BY <2>1 DEF Posted, Base, TypeOK, Row
  <2>3. QED
    BY <1>15, <1>21, <2>1, <2>2
<1>23. ASSUME NEW s \in Socket, AckAuditFails(s) PROVE Wakeups'
  <2>0. PICK f \in MessageFrame \cup AckFrame : f = Head(inbox[s])
    BY <1>16, <1>23 DEF AckAuditFails
  <2>1. /\ f.msg \in MsgId /\ Posted(f.msg) /\ row' = [row EXCEPT ![f.msg].delivered = TRUE]
        /\ End(s, "gone") /\ UNCHANGED lapsed
    BY <1>23, <2>0 DEF AckAuditFails, Leave, MessageFrame, AckFrame
  <2>2. \A x \in Socket \ {s} : conn'[user[x]] = x => conn[user[x]] = x
    BY <1>23 DEF AckAuditFails, Leave, Cut, Base, TypeOK, SessionsAreWhole
  <2>3. QED
    BY <1>7, <1>21, <2>1, <2>2
<1>24. ASSUME NEW s \in Socket, RefuseFrame(s) PROVE Wakeups'
  BY <1>24, <1>a, QuietWakeups DEF RefuseFrame, table
<1>25. CASE UNCHANGED vars
  BY <1>25, <1>a, QuietWakeups DEF vars
<1>26. QED
  BY <1>1, <1>2, <1>3, <1>4, <1>5, <1>6, <1>8, <1>9, <1>10, <1>12, <1>13, <1>14, <1>17,
     <1>18, <1>19, <1>20, <1>22, <1>23, <1>24, <1>25
     DEF Next, Run, Fail, Client, SubmitMessage, SubmitAck

-----------------------------------------------------------------------------
\* What every step does to the messages, and the theorems that follow from it
\* and from the layers above.

\* The effects a step can have on the stored messages and who was handed them.
Quiet == UNCHANGED <<row, handed>>

Stores(i) ==
    /\ ~Posted(i) /\ Posted(i)'
    /\ row'[i].sender \in User /\ row'[i].recipient \in User
    /\ row'[i].sender # row'[i].recipient /\ ~row'[i].delivered
    /\ \A j \in MsgId \ {i} : row'[j] = row[j]
    /\ handed' = handed \/ handed' = handed \cup {i}

Hands(i) == Posted(i) /\ UNCHANGED row /\ handed' = handed \cup {i}

Marks(i) ==
    /\ Posted(i) /\ i \in handed /\ UNCHANGED handed
    /\ row' = [row EXCEPT ![i].delivered = TRUE]
    /\ \E s \in Socket : user[s] = row[i].recipient /\ inbox'[s] # inbox[s]

Effect == Quiet \/ \E i \in MsgId : Stores(i) \/ Hands(i) \/ Marks(i)

\* The status a step tells a sender, if any, is one it can answer for.
Tells ==
    \/ UNCHANGED told
    \/ \E i \in MsgId, st \in Status :
          /\ told' = [told EXCEPT ![i] = st]
          /\ st = "delivered" => Delivered(i)'
          /\ st = "sent" => i \in handed'

\* A drain hands over at most one message before it awaits.
LEMMA DrainEffect ==
  ASSUME Base, NEW s \in Socket, NEW S \in SUBSET MsgId, NEW c, Drain(s, S, c),
         \A i \in S : Posted(i), UNCHANGED row
  PROVE  Effect
<1>1. UNCHANGED handed \/ \E i \in S : handed' = handed \cup {i}
  BY DEF Drain, Hand
<1>2. QED
  BY <1>1 DEF Effect, Quiet, Hands

\* A status that a handler writes is the one it computed.
LEMMA NotifyTells ==
  ASSUME NEW s, NEW u, NEW i \in MsgId, NEW st \in Status, NEW c, Notify(s, u, i, st, c),
         st = "delivered" => Delivered(i)', st = "sent" => i \in handed'
  PROVE  Tells
  BY DEF Notify, Tells

\* A message frame adds at most one row, which is not addressed to its sender.
LEMMA EnqueueEffect ==
  ASSUME Base, NEW i \in MsgId, NEW u \in User, NEW t \in User, u # t, Enqueue(i, u, t),
         handed' = handed \/ handed' = handed \cup {i}
  PROVE  Effect /\ (Delivered(i) => Delivered(i)')
<1>1. /\ Posted(i)' /\ \A j \in MsgId : Posted(j) => row'[j] = row[j]
      /\ \A j \in MsgId \ {i} : row'[j] = row[j]
      /\ ~Posted(i) => row'[i].sender = u /\ row'[i].recipient = t /\ ~row'[i].delivered
  BY EnqueueStores DEF Base
<1>2. CASE Posted(i)
  <2>1. UNCHANGED row
    BY <1>2 DEF Enqueue, table
  <2>2. QED
    BY <1>2, <2>1 DEF Effect, Quiet, Hands, Delivered, Posted
<1>3. CASE ~Posted(i)
  BY <1>1, <1>3 DEF Effect, Stores, Delivered
<1>4. QED
  BY <1>2, <1>3

\* Every step has one of these effects, and tells a sender only what holds.
LEMMA StepEffect == Base /\ Contents /\ [Next]_vars => Effect /\ Tells
<1> SUFFICES ASSUME Base, Contents, [Next]_vars PROVE Effect /\ Tells
  OBVIOUS
<1>0. ASSUME UNCHANGED <<row, handed, told>> PROVE Effect /\ Tells
  BY <1>0 DEF Effect, Quiet, Tells
<1>1. ASSUME NEW s \in Socket, NEW u \in User, Open(s, u) PROVE Effect /\ Tells
  BY <1>0, <1>1 DEF Open, table
<1>2. ASSUME NEW s \in Socket, NEW f, Receive(s, f) PROVE Effect /\ Tells
  BY <1>0, <1>2 DEF Receive, table
<1>3. ASSUME NEW s \in Socket,
             \/ LoseLink(s) \/ NoticeLoss(s) \/ Authenticate(s) \/ Reject(s) \/ ReadyFails(s)
             \/ ConnectAuditFails(s) \/ ResumeNotify(s) \/ RefuseFrame(s) \/ Disconnect(s)
      PROVE Effect /\ Tells
  BY <1>0, <1>3 DEF LoseLink, NoticeLoss, Authenticate, Reject, ReadyFails, ConnectAuditFails,
                    ResumeNotify, RefuseFrame, Disconnect, table
<1>4. CASE Crash \/ Settle \/ UNCHANGED vars
  BY <1>0, <1>4 DEF Crash, Settle, vars, table
<1>5. \A u \in User : PendingFor(u) \in SUBSET MsgId /\ \A i \in PendingFor(u) : Posted(i)
  BY DEF PendingFor, Pending
<1>6. ASSUME NEW s \in Socket, Register(s) PROVE Effect /\ Tells
  <2>1. user[s] \in User /\ UNCHANGED <<row, told>>
    BY <1>6 DEF Register, table, Base, SessionsAreWhole
  <2>2. CASE UNCHANGED handed
    BY <1>0, <2>1, <2>2
  <2>3. ASSUME NEW c, Drain(s, PendingFor(user[s]), c) PROVE Effect /\ Tells
    BY <1>5, <2>1, <2>3, DrainEffect DEF Tells
  <2>4. QED
    BY <1>6, <2>2, <2>3 DEF Register
<1>7. ASSUME NEW s \in Socket, StartDrain(s) PROVE Effect /\ Tells
  <2>1. user[s] \in User /\ UNCHANGED <<row, told>> /\ Drain(s, PendingFor(user[s]), conn)
    BY <1>7 DEF StartDrain, table, Base, SessionsAreWhole
  <2>2. QED
    BY <1>5, <2>1, DrainEffect DEF Tells
<1>8. ASSUME NEW s \in Socket, ResumeDrain(s) PROVE Effect /\ Tells
  <2>1. UNCHANGED <<row, told>> /\ todo[s] \in SUBSET MsgId /\ \A i \in todo[s] : Posted(i)
    BY <1>8 DEF ResumeDrain, table, Base, TypeOK, Contents, FramesAreBacked
  <2>2. UNCHANGED handed \/ Drain(s, todo[s], conn)
    BY <1>8 DEF ResumeDrain
  <2>3. QED
    BY <1>0, <2>1, <2>2, DrainEffect DEF Tells
<1>9. ASSUME NEW s \in Socket, inbox[s] # <<>>
      PROVE  /\ Head(inbox[s]) \in MessageFrame \cup AckFrame
             /\ Head(inbox[s]).type = "ack" => Head(inbox[s]).msg \in handed
             /\ Tail(inbox[s]) # inbox[s]
  <2>1. inbox[s] \in Seq(MessageFrame \cup AckFrame)
    BY DEF Base, TypeOK
  <2>2. /\ Head(inbox[s]) \in MessageFrame \cup AckFrame /\ Tail(inbox[s]) # inbox[s]
        /\ Head(inbox[s]) = inbox[s][1] /\ Len(inbox[s]) \in Nat \ {0}
    BY <1>9, <2>1, FrameTaken
  <2>3. 1 \in 1..Len(inbox[s])
    BY <2>2
  <2>4. inbox[s][1].type = "ack" => inbox[s][1].msg \in handed
    BY <2>3 DEF Contents, FramesAreBacked
  <2>5. QED
    BY <2>2, <2>4
<1>10. ASSUME NEW s \in Socket, HandleMessage(s) PROVE Effect /\ Tells
  <2>0. PICK f \in MessageFrame \cup AckFrame, u \in User : f = Head(inbox[s]) /\ u = user[s]
    BY <1>9, <1>10 DEF HandleMessage, Base, SessionsAreWhole
  <2>1. PICK i \in MsgId : i = f.msg
    BY DEF MessageFrame, AckFrame
  <2>2. /\ f.to \in User /\ u # f.to /\ Enqueue(i, u, f.to)
        /\ handed' = handed \/ handed' = handed \cup {i}
    BY <1>10, <2>0, <2>1 DEF HandleMessage, Acceptable, Hand
  <2>3. Effect /\ (Delivered(i) => Delivered(i)')
    BY <2>2, EnqueueEffect
  <2>4. UNCHANGED told \/ \E c : \/ Delivered(i) /\ Notify(s, u, i, "delivered", c)
                                \/ Notify(s, u, i, "queued", c)
    BY <1>10, <2>0, <2>1 DEF HandleMessage
  <2>5. Tells
    BY <2>3, <2>4, NotifyTells DEF Status, Tells
  <2>6. QED
    BY <2>3, <2>5
<1>11. ASSUME NEW s \in Socket, EnqueueAuditFails(s) PROVE Effect /\ Tells
  <2>0. PICK f \in MessageFrame \cup AckFrame, u \in User : f = Head(inbox[s]) /\ u = user[s]
    BY <1>9, <1>11 DEF EnqueueAuditFails, Base, SessionsAreWhole
  <2>1. f.msg \in MsgId /\ f.to \in User /\ u # f.to /\ Enqueue(f.msg, u, f.to) /\ UNCHANGED <<handed, told>>
    BY <1>11, <2>0 DEF EnqueueAuditFails, Acceptable, MessageFrame, AckFrame
  <2>2. QED
    BY <2>1, EnqueueEffect DEF Tells
<1>12. ASSUME NEW s \in Socket, ResumeDeliver(s) PROVE Effect /\ Tells
  <2>1. UNCHANGED <<row, handed>> /\ job[s] \in MsgId /\ job[s] \in handed
    BY <1>12 DEF ResumeDeliver, table, Base, SessionsAreWhole
  <2>a. PICK c, st : Notify(s, user[s], job[s], st, c) /\ st \in {"sent", "queued"}
    BY <1>12 DEF ResumeDeliver
  <2>2. Tells
    BY <2>1, <2>a, NotifyTells DEF Status
  <2>3. QED
    BY <2>1, <2>2 DEF Effect, Quiet
<1>13. ASSUME NEW s \in Socket, HandleAck(s) PROVE Effect /\ Tells
  <2>0. PICK i \in handed : i = Head(inbox[s]).msg
    BY <1>9, <1>13 DEF HandleAck
  <2>1. /\ i \in MsgId /\ Posted(i) /\ row[i].recipient = user[s] /\ UNCHANGED handed
        /\ row' = [row EXCEPT ![i].delivered = TRUE]
        /\ Notify(s, row[i].sender, i, "delivered", conn)
        /\ inbox' = [inbox EXCEPT ![s] = Tail(@)]
    BY <1>13, <2>0 DEF HandleAck, Base, TypeOK
  <2>2. Delivered(i)'
    BY <2>1, MarkStores DEF Delivered, Base
  <2>3. inbox'[s] # inbox[s]
    BY <1>9, <1>13, <2>1 DEF HandleAck, Base, TypeOK
  <2>4. Tells
    BY <2>1, <2>2, NotifyTells DEF Status
  <2>5. QED
    BY <2>0, <2>1, <2>3, <2>4 DEF Effect, Marks
<1>14. ASSUME NEW s \in Socket, AckAuditFails(s) PROVE Effect /\ Tells
  <2>0. PICK i \in handed : i = Head(inbox[s]).msg
    BY <1>9, <1>14 DEF AckAuditFails
  <2>1. /\ i \in MsgId /\ Posted(i) /\ row[i].recipient = user[s] /\ UNCHANGED <<handed, told>>
        /\ row' = [row EXCEPT ![i].delivered = TRUE] /\ inbox'[s] # inbox[s]
    BY <1>14, <2>0 DEF AckAuditFails, Leave, End, Base, TypeOK
  <2>2. QED
    BY <2>0, <2>1 DEF Effect, Marks, Tells
<1>15. QED
  BY <1>1, <1>2, <1>3, <1>4, <1>6, <1>7, <1>8, <1>10, <1>11, <1>12, <1>13, <1>14
     DEF Next, Run, Fail, Client, SubmitMessage, SubmitAck

\* No effect takes a message or an acknowledgement back.
LEMMA EffectKeepsMessages ==
  ASSUME Base, Effect
  PROVE  handed \subseteq handed' /\ \A i \in MsgId : Delivered(i) => Delivered(i)'
<1>1. ASSUME NEW i \in MsgId, Stores(i) PROVE \A j \in MsgId : Delivered(j) => Delivered(j)'
  BY <1>1 DEF Stores, Delivered, Posted
<1>2. ASSUME NEW i \in MsgId, Marks(i) PROVE \A j \in MsgId : Delivered(j) => Delivered(j)'
  <2>1. /\ row'[i].delivered /\ Posted(i)'
        /\ \A j \in MsgId \ {i} : row'[j] = row[j]
    BY <1>2, MarkStores DEF Marks, Base
  <2>2. QED
    BY <2>1 DEF Delivered, Posted
<1>3. ASSUME UNCHANGED row PROVE \A j \in MsgId : Delivered(j) => Delivered(j)'
  BY <1>3 DEF Delivered, Posted
<1>4. QED
  BY <1>1, <1>2, <1>3 DEF Effect, Quiet, Hands, Stores, Marks

\* No step makes a receipt untrue that was true when it was written.
LEMMA ReceiptsStep == Base /\ Contents /\ ReceiptsAreTrue /\ [Next]_vars => ReceiptsAreTrue'
<1> SUFFICES ASSUME Base, Contents, ReceiptsAreTrue, [Next]_vars, NEW j \in MsgId
    PROVE (told'[j] = "delivered" => Delivered(j)') /\ (told'[j] = "sent" => j \in handed')
  BY DEF ReceiptsAreTrue
<1>1. handed \subseteq handed' /\ (Delivered(j) => Delivered(j)')
  BY StepEffect, EffectKeepsMessages
<1>2. (told[j] = "delivered" => Delivered(j)) /\ (told[j] = "sent" => j \in handed)
  BY DEF ReceiptsAreTrue
<1>3. CASE told'[j] = told[j]
  BY <1>1, <1>2, <1>3
<1>4. ASSUME NEW st \in Status, told' = [told EXCEPT ![j] = st],
             st = "delivered" => Delivered(j)', st = "sent" => j \in handed'
      PROVE  (told'[j] = "delivered" => Delivered(j)') /\ (told'[j] = "sent" => j \in handed')
  <2>1. told'[j] = st
    BY <1>4 DEF Base, TypeOK
  <2>2. QED
    BY <1>4, <2>1
<1>5. UNCHANGED told \/ \E i \in MsgId, st \in Status :
          /\ told' = [told EXCEPT ![i] = st]
          /\ st = "delivered" => Delivered(i)'
          /\ st = "sent" => i \in handed'
  BY StepEffect DEF Tells
<1>6. QED
  BY <1>3, <1>4, <1>5 DEF Base, TypeOK

-----------------------------------------------------------------------------
InvByLayers == Base /\ Routes /\ Contents /\ Wakeups /\ ReceiptsAreTrue

\* The layers hold at first.
LEMMA InitInv == Init => InvByLayers
<1> SUFFICES ASSUME Init PROVE InvByLayers
  OBVIOUS
<1>1. Base
  BY InitBase
<1>2. Routes
  BY DEF Init, Routes, RoutesAreOwned, OpenSessionsAreRouted, Serving
<1>3. Contents
  <2>1. /\ \A s \in Socket : inbox[s] = <<>> /\ sentOn[s] = {} /\ todo[s] = {}
        /\ \A i \in MsgId : ~Posted(i)
        /\ handed = {}
    BY DEF Init, Posted
  <2>2. \A s \in Socket : Len(inbox[s]) = 0
    BY <2>1
  <2>3. QED
    BY <2>1, <2>2 DEF Contents, FramesAreBacked, OnlyRecipientsRead, Delivered
<1>4. Wakeups
  BY DEF Init, Wakeups, DrainsFollowRoutes, NothingForgotten, Serving
<1>5. ReceiptsAreTrue
  BY DEF Init, ReceiptsAreTrue
<1>6. QED
  BY <1>1, <1>2, <1>3, <1>4, <1>5 DEF InvByLayers

\* Every step keeps all layers.
LEMMA InvStep == InvByLayers /\ [Next]_vars => InvByLayers'
  BY BaseStep, RoutesStep, ContentsStep, WakeupsStep, ReceiptsStep DEF InvByLayers

\* The layers together are the invariant that the run of sessions checks.
LEMMA LayersAreInv == InvByLayers <=> Inv
  BY DEF InvByLayers, Inv, Base, Routes, Contents, Wakeups

\* For any number of users, sessions and messages, and whatever fails (crashes,
\* lost links, failing audits, second tabs): routes belong to open sessions,
\* open sessions are routed, nothing pending is forgotten, only recipients are
\* handed messages, and senders are told the truth.
THEOREM Safety == Spec => []Inv
<1>1. Init => InvByLayers
  BY InitInv
<1>2. InvByLayers /\ [Next]_vars => InvByLayers'
  BY InvStep
<1>3. InvByLayers => Inv
  BY LayersAreInv
<1>4. QED
  BY <1>1, <1>2, <1>3, PTL DEF Spec

\* A session in service that the server has not closed is its user's route.
THEOREM SessionsStayRouted == Spec => []OpenSessionsAreRouted
<1>1. Inv => OpenSessionsAreRouted
  BY DEF Inv
<1>2. QED
  BY <1>1, Safety, PTL

\* Live delivery and the drain at connection never lose a message between them.
THEOREM NoLostWakeup == Spec => []NothingForgotten
<1>1. Inv => NothingForgotten
  BY DEF Inv
<1>2. QED
  BY <1>1, Safety, PTL

\* Nobody but its recipient is handed a message, or acknowledges it unseen.
THEOREM Confinement == Spec => []OnlyRecipientsRead
<1>1. Inv => OnlyRecipientsRead
  BY DEF Inv
<1>2. QED
  BY <1>1, Safety, PTL

\* A sender is only told of its message what is true of it.
THEOREM Honesty == Spec => []ReceiptsAreTrue
<1>1. Inv => ReceiptsAreTrue
  BY DEF Inv
<1>2. QED
  BY <1>1, Safety, PTL

\* A route leads to a session of its user whose handler will remove it.
THEOREM RoutesHaveOwners == Spec => []RoutesAreOwned
<1>1. Inv => RoutesAreOwned
  BY DEF Inv
<1>2. QED
  BY <1>1, Safety, PTL

\* A stored message changes only by being acknowledged, by its recipient.
THEOREM Stability == Spec => RowsAreStable
<1> DEFINE Stable == \A i \in MsgId : Posted(i) =>
          /\ row'[i] = row[i] \/ row'[i] = [row[i] EXCEPT !.delivered = TRUE]
          /\ row'[i] # row[i] => \E s \in Socket : user[s] = row[i].recipient
                                                 /\ inbox'[s] # inbox[s]
<1>1. ASSUME InvByLayers, [Next]_vars PROVE Stable
  <2> SUFFICES ASSUME NEW j \in MsgId, Posted(j)
      PROVE /\ row'[j] = row[j] \/ row'[j] = [row[j] EXCEPT !.delivered = TRUE]
            /\ row'[j] # row[j] => \E s \in Socket : user[s] = row[j].recipient
                                                   /\ inbox'[s] # inbox[s]
    OBVIOUS
  <2>1. Base /\ Effect
    BY <1>1, StepEffect DEF InvByLayers
  <2>2. CASE row'[j] = row[j]
    BY <2>2
  <2>3. ASSUME NEW i \in MsgId, Marks(i), row'[j] # row[j]
        PROVE  i = j /\ row'[j] = [row[j] EXCEPT !.delivered = TRUE]
    BY <2>1, <2>3, MarkStores DEF Marks, Base
  <2>4. QED
    BY <2>1, <2>2, <2>3 DEF Effect, Quiet, Hands, Stores, Marks
<1>2. Spec => []InvByLayers
  BY InitInv, InvStep, PTL DEF Spec
<1>3. QED
  BY <1>1, <1>2, PTL DEF Spec, RowsAreStable

-----------------------------------------------------------------------------
\* Every step of the relay is one of the mailbox, or none.
LEMMA StepImplements == ASSUME Base, Contents, Effect PROVE [Box!Next]_<<phase, letter>>
<1>0. /\ \A j \in MsgId : Posted(j) => row[j] \in Row
      /\ \A j \in MsgId : Delivered(j) => j \in handed
      /\ \A j \in handed : Posted(j)
  BY DEF Base, TypeOK, Posted, Contents, OnlyRecipientsRead, FramesAreBacked
<1>2. CASE Quiet
  BY <1>2 DEF Quiet, phase, letter, Posted
<1>3. ASSUME NEW i \in MsgId, Hands(i) PROVE [Box!Next]_<<phase, letter>>
  <2>1. CASE i \in handed
    <3>1. UNCHANGED <<row, handed>>
      BY <1>3, <2>1 DEF Hands
    <3>2. QED
      BY <3>1 DEF phase, letter, Posted
  <2>2. CASE i \notin handed
    <3>1. UNCHANGED row /\ handed' = handed \cup {i} /\ Posted(i) /\ ~row[i].delivered
      BY <1>0, <1>3, <2>2 DEF Hands, Delivered
    <3>2. phase[i] = "queued" /\ phase' = [phase EXCEPT ![i] = "handed"]
      BY <2>2, <3>1 DEF phase, Posted
    <3>3. UNCHANGED letter
      BY <3>1 DEF letter, Posted
    <3>4. QED
      BY <3>2, <3>3 DEF Box!Next, Box!Hand
  <2>3. QED
    BY <2>1, <2>2
<1>4. ASSUME NEW i \in MsgId, Stores(i) PROVE [Box!Next]_<<phase, letter>>
  <2>. DEFINE p == IF i \in handed' THEN "handed" ELSE "queued"
              l == [from |-> row'[i].sender, to |-> row'[i].recipient]
  <2>1. phase[i] = "absent"
    BY <1>4 DEF Stores, phase
  <2>2. phase' = [phase EXCEPT ![i] = p]
    BY <1>4 DEF Stores, phase, Posted
  <2>3. letter' = [letter EXCEPT ![i] = l]
    BY <1>4 DEF Stores, letter, Posted
  <2>4. l \in Box!Letter /\ l.from # l.to
    BY <1>4 DEF Stores, Box!Letter
  <2>5. QED
    BY <2>1, <2>2, <2>3, <2>4 DEF Box!Next, Box!Post
<1>5. ASSUME NEW i \in MsgId, Marks(i) PROVE [Box!Next]_<<phase, letter>>
  <2>1. /\ row'[i].delivered /\ row'[i].sender = row[i].sender
        /\ row'[i].recipient = row[i].recipient
        /\ \A j \in MsgId : Posted(j) <=> Posted(j)'
        /\ \A j \in MsgId \ {i} : row'[j] = row[j]
        /\ Posted(i) /\ i \in handed /\ UNCHANGED handed
    BY <1>5, MarkStores DEF Marks, Base
  <2>2. letter' = letter
    BY <2>1 DEF letter
  <2>3. CASE row[i].delivered
    <3>1. phase' = phase
      BY <2>1, <2>3 DEF phase
    <3>2. QED
      BY <2>2, <3>1
  <2>4. CASE ~row[i].delivered
    <3>1. phase[i] = "handed" /\ phase' = [phase EXCEPT ![i] = "confirmed"]
      BY <2>1, <2>4 DEF phase
    <3>2. QED
      BY <2>2, <3>1 DEF Box!Next, Box!Confirm
  <2>5. QED
    BY <2>3, <2>4
<1>6. QED
  BY <1>2, <1>3, <1>4, <1>5 DEF Effect

\* The relay implements the mailbox: whatever sessions, crashes and failing
\* audits do, a message is stored once, handed before it is confirmed, and
\* never changed, lost or unconfirmed.
THEOREM Refinement == Spec => ImplementsMailbox
<1>1. Init => Box!Init
  BY DEF Init, Box!Init, phase, letter, Posted
<1>2. InvByLayers /\ [Next]_vars => [Box!Next]_<<phase, letter>>
  BY StepEffect, StepImplements DEF InvByLayers
<1>3. QED
  BY <1>1, <1>2, InitInv, InvStep, PTL DEF Spec, ImplementsMailbox, Box!Spec
=============================================================================
