---------------------------- MODULE InboxProofs ----------------------------
(***************************************************************************)
(* Proofs about Inbox: what is acknowledged was displayed, what was        *)
(* displayed before a reload is not displayed again, and a consumed        *)
(* message stays consumed, for any number of messages, accounts and calls, *)
(* and whichever puts are lost; and receiving implements Mailbox.          *)
(***************************************************************************)
EXTENDS Inbox, TLAPS

\* Every call that has read a message still has it, and one that waits for its
\* put has put it in the store, where the next reader sees it.
CallsAreWhole ==
    \A h \in Handler :
        /\ pc[h] # "idle" => msg[h] \in MsgId
        /\ pc[h] = "put" => msg[h] \in store

\* An acknowledgement is under way only for what was displayed.
AcksAreShown ==
    /\ \A i \in acking : shown[i] > 0 \/ i \in seen
    /\ DeliveredWasShown

\* What was displayed is stored for good, and no call that passed the second
\* check carries what was displayed before the last reload.
ShownIsDurable ==
    /\ \A i \in MsgId : shown[i] > 0 => i \in durable
    /\ seen \subseteq durable
    /\ \A h \in Handler : pc[h] \in {"recheck", "put"} => msg[h] \notin seen
    /\ NoRepeatAfterReload

Inv == TypeOK /\ CallsAreWhole /\ AcksAreShown /\ ShownIsDurable

-----------------------------------------------------------------------------
\* A session that closes has no copies under way.
LEMMA NoCopies == [i \in MsgId |-> 0] \in [MsgId -> 0..MaxCopies]
<1>1. 0 \in 0..MaxCopies
  BY InboxAssumption
<1>2. QED
  BY <1>1

\* Nothing is stored, displayed or under way at first.
LEMMA InitInv == Init => Inv
<1> SUFFICES ASSUME Init PROVE Inv
  OBVIOUS
<1>1. TypeOK
  BY NoCopies DEF Init, TypeOK, Stage
<1>2. CallsAreWhole /\ AcksAreShown /\ ShownIsDurable
  BY DEF Init, CallsAreWhole, AcksAreShown, ShownIsDurable, DeliveredWasShown, NoRepeatAfterReload
<1>3. QED
  BY <1>1, <1>2 DEF Inv

\* A step that only moves a call, to a stage before the put, keeps the invariant.
LEMMA MoveKeepsInv ==
  ASSUME Inv, NEW h \in Handler, NEW stage \in Stage \ {"put"}, NEW i \in MsgId \cup {NoMsg},
         Suspend(h, stage, i), stage # "idle" => i \in MsgId, stage = "recheck" => i \notin store,
         UNCHANGED <<row, acking, account, open, replay, expired, shown, seen, calm>>,
         known' \in BOOLEAN, due' \in [MsgId -> 0..MaxCopies]
  PROVE  Inv'
<1>1. TypeOK'
  BY DEF Inv, TypeOK, Suspend, replay
<1>2. CallsAreWhole'
  BY DEF Inv, TypeOK, CallsAreWhole, Suspend, replay
<1>3. AcksAreShown'
  BY DEF Inv, AcksAreShown, DeliveredWasShown
<1>4. ShownIsDurable'
  BY DEF Inv, TypeOK, ShownIsDurable, NoRepeatAfterReload, Suspend, replay
<1>5. QED
  BY <1>1, <1>2, <1>3, <1>4 DEF Inv

\* A rejected call is over, whatever it was about.
LEMMA RejectKeepsInv ==
  ASSUME Inv, NEW h \in Handler, Rejected(h),
         UNCHANGED <<row, acking, account, open, replay, expired, shown, seen, calm>>,
         known' \in BOOLEAN, due' \in [MsgId -> 0..MaxCopies]
  PROVE  Inv'
BY MoveKeepsInv DEF Rejected, Stage

\* The session closes and nothing else about messages changes.
LEMMA CloseKeepsInv ==
  ASSUME Inv, CloseSession, mem' \subseteq mem,
         account' \in Account \cup {Nobody}, known' \in BOOLEAN,
         UNCHANGED <<row, store, durable, expired, task, shown, seen, calm>>
  PROVE  Inv'
<1>1. TypeOK'
  BY NoCopies DEF Inv, TypeOK, CloseSession, task
<1>2. CallsAreWhole' /\ AcksAreShown' /\ ShownIsDurable'
  BY DEF Inv, CallsAreWhole, AcksAreShown, ShownIsDurable, DeliveredWasShown, NoRepeatAfterReload,
         CloseSession, task
<1>3. QED
  BY <1>1, <1>2 DEF Inv

\* What the server does touches neither the replay store nor a call.
LEMMA ServerStep ==
  ASSUME Inv, Connect \/ Settle \/ \E i \in MsgId : Post(i) \/ TakeAck(i) \/ Expire(i)
  PROVE  Inv'
<1>1. ASSUME NEW i \in MsgId, Post(i) PROVE Inv'
  BY <1>1, InboxAssumption
     DEF Post, Inv, TypeOK, CallsAreWhole, AcksAreShown, ShownIsDurable, DeliveredWasShown,
         NoRepeatAfterReload, session, replay, task
<1>2. ASSUME NEW i \in MsgId, TakeAck(i) PROVE Inv'
  BY <1>2
     DEF TakeAck, Inv, TypeOK, CallsAreWhole, AcksAreShown, ShownIsDurable, DeliveredWasShown,
         NoRepeatAfterReload, session, replay, task
<1>3. ASSUME NEW i \in MsgId, Expire(i) PROVE Inv'
  BY <1>3
     DEF Expire, Inv, TypeOK, CallsAreWhole, AcksAreShown, ShownIsDurable, DeliveredWasShown,
         NoRepeatAfterReload, server, session, replay, task
<1>4. CASE Settle
  BY <1>4
     DEF Settle, Inv, TypeOK, CallsAreWhole, AcksAreShown, ShownIsDurable, DeliveredWasShown,
         NoRepeatAfterReload, server, session, replay, task
<1>5. CASE Connect
  <2>1. open' \in BOOLEAN /\ due' \in [MsgId -> 0..MaxCopies]
    BY <1>5, InboxAssumption DEF Connect
  <2>2. UNCHANGED <<row, acking, account, known, replay, expired, task, shown, seen, calm>>
    BY <1>5 DEF Connect
  <2>3. QED
    BY <2>1, <2>2
       DEF Inv, TypeOK, CallsAreWhole, AcksAreShown, ShownIsDurable, DeliveredWasShown,
           NoRepeatAfterReload, replay, task
<1>6. QED
  BY <1>1, <1>2, <1>3, <1>4, <1>5

\* What was displayed is durable, so a reload keeps it in the store.
LEMMA ReloadStep ==
  ASSUME Inv, Reload
  PROVE  Inv'
<1>1. PICK kept \in SUBSET (store \ durable) : store' = durable \cup kept /\ durable' = store'
  BY DEF Reload
<1>2. /\ account' = Nobody /\ known' = FALSE /\ mem' = {} /\ open' = FALSE
      /\ due' = [i \in MsgId |-> 0] /\ acking' = {}
      /\ pc' = [h \in Handler |-> "idle"] /\ msg' = [h \in Handler |-> NoMsg]
      /\ seen' = seen \cup {i \in MsgId : shown[i] > 0}
      /\ shown' = [i \in MsgId |-> 0]
      /\ UNCHANGED <<row, expired, calm>>
  BY DEF Reload, CloseSession
<1>3. TypeOK'
  BY <1>1, <1>2, NoCopies DEF Inv, TypeOK, Stage
<1>4. CallsAreWhole'
  BY <1>2 DEF CallsAreWhole
<1>5. AcksAreShown'
  BY <1>2 DEF Inv, TypeOK, AcksAreShown, DeliveredWasShown
<1>6. ShownIsDurable'
  BY <1>1, <1>2 DEF Inv, TypeOK, ShownIsDurable, NoRepeatAfterReload
<1>7. QED
  BY <1>3, <1>4, <1>5, <1>6 DEF Inv

\* Login, logout, disconnection and reload.
LEMMA PageStep ==
  ASSUME Inv, Drop \/ Logout \/ Reload \/ \E a \in Account : Login(a)
  PROVE  Inv'
<1>1. CASE Drop
  BY <1>1, CloseKeepsInv DEF Drop, replay, Inv, TypeOK
<1>2. CASE Logout
  BY <1>2, CloseKeepsInv DEF Logout
<1>3. CASE Reload
  BY <1>3, ReloadStep
<1>4. ASSUME NEW a \in Account, Login(a) PROVE Inv'
  BY <1>4
     DEF Login, Inv, TypeOK, CallsAreWhole, AcksAreShown, ShownIsDurable, DeliveredWasShown,
         NoRepeatAfterReload, server, replay, task
<1>5. QED
  BY <1>1, <1>2, <1>3, <1>4

-----------------------------------------------------------------------------
\* The calls of handleIncoming.

\* A message arrives: the call awaits or is rejected.
LEMMA ArriveStep ==
  ASSUME Inv, NEW h \in Handler, NEW i \in MsgId, Arrive(h, i)
  PROVE  Inv'
<1>1. /\ UNCHANGED <<row, acking, account, open, replay, expired, shown, seen, calm>>
      /\ known' \in BOOLEAN /\ due' \in [MsgId -> 0..MaxCopies]
  BY InboxAssumption DEF Arrive, session, Inv, TypeOK
<1>2. Suspend(h, "peer", i) \/ Suspend(h, "verify", i) \/ Rejected(h)
  BY DEF Arrive
<1>3. QED
  BY <1>1, <1>2, MoveKeepsInv, RejectKeepsInv DEF Stage

\* Up to the second check; only what is not in the store gets past it.
LEMMA EarlyStep ==
  ASSUME Inv, NEW h \in Handler, Load(h) \/ Verify(h) \/ Decrypt(h)
  PROVE  Inv'
<1>1. /\ UNCHANGED <<row, acking, account, open, replay, expired, shown, seen, calm>>
      /\ known' \in BOOLEAN /\ due' \in [MsgId -> 0..MaxCopies]
      /\ msg[h] \in MsgId
  BY DEF Load, Verify, Decrypt, server, session, Inv, TypeOK, CallsAreWhole
<1>2. \/ Suspend(h, "verify", msg[h]) \/ Suspend(h, "decrypt", msg[h])
      \/ Suspend(h, "recheck", msg[h]) /\ msg[h] \notin store
      \/ Rejected(h)
  BY DEF Load, Verify, Decrypt
<1>3. QED
  BY <1>1, <1>2, MoveKeepsInv, RejectKeepsInv DEF Stage

\* The put is issued, and the next reader sees it.
LEMMA ConsumeStep ==
  ASSUME Inv, NEW h \in Handler, Consume(h)
  PROVE  Inv'
<1>1. /\ msg[h] \in MsgId /\ msg[h] \notin seen /\ store' = store \cup {msg[h]}
      /\ pc' = [pc EXCEPT ![h] = "put"] /\ msg' = msg
      /\ UNCHANGED <<server, session, mem, durable, expired, shown, seen, calm>>
  BY DEF Consume, Suspend, Inv, TypeOK, CallsAreWhole, ShownIsDurable
<1>2. QED
  BY <1>1
     DEF Inv, TypeOK, CallsAreWhole, AcksAreShown, ShownIsDurable, DeliveredWasShown,
         NoRepeatAfterReload, server, session, Stage

\* A put fails; what is durable, or put by another call as well, stays.
LEMMA ConsumeFailsStep ==
  ASSUME Inv, NEW h \in Handler, ConsumeFails(h)
  PROVE  Inv'
<1>1. /\ store' = IF \E g \in Handler \ {h} : pc[g] = "put" /\ msg[g] = msg[h]
                  THEN store ELSE store \ ({msg[h]} \ durable)
      /\ pc' = [pc EXCEPT ![h] = "idle"] /\ msg' = [msg EXCEPT ![h] = NoMsg]
      /\ UNCHANGED <<server, session, mem, durable, expired, shown, seen, calm>>
  BY DEF ConsumeFails, Rejected, Suspend
<1>2. TypeOK'
  BY <1>1 DEF Inv, TypeOK, server, session, Stage
<1>3. CallsAreWhole'
  BY <1>1 DEF Inv, TypeOK, CallsAreWhole
<1>4. AcksAreShown' /\ ShownIsDurable'
  BY <1>1 DEF Inv, TypeOK, AcksAreShown, ShownIsDurable, DeliveredWasShown, NoRepeatAfterReload, server
<1>5. QED
  BY <1>2, <1>3, <1>4 DEF Inv

\* The message is durable before it is displayed and acknowledged.
LEMMA FinishStep ==
  ASSUME Inv, NEW h \in Handler, Finish(h)
  PROVE  Inv'
<1>. DEFINE i == msg[h]
<1>1. /\ i \in MsgId /\ i \in store /\ i \notin seen
      /\ durable' = durable \cup {i} /\ mem' = mem \cup {i}
      /\ shown' = [shown EXCEPT ![i] = @ + 1] /\ acking' \subseteq acking \cup {i}
      /\ pc' = [pc EXCEPT ![h] = "idle"] /\ msg' = [msg EXCEPT ![h] = NoMsg]
      /\ UNCHANGED <<row, due, session, store, expired, seen, calm>>
  BY DEF Finish, Rejected, Suspend, Inv, CallsAreWhole, ShownIsDurable
<1>2. PICK m \in MsgId : m = i
  BY <1>1
<1>3. shown'[m] = shown[m] + 1 /\ shown[m] \in Nat /\ \A j \in MsgId \ {m} : shown'[j] = shown[j]
  BY <1>1, <1>2 DEF Inv, TypeOK
<1>4. TypeOK'
  BY <1>1, <1>2, <1>3 DEF Inv, TypeOK, session, Stage
<1>5. CallsAreWhole'
  BY <1>1 DEF Inv, TypeOK, CallsAreWhole
<1>6. AcksAreShown'
  <2>1. \A j \in MsgId : shown[j] > 0 => shown'[j] > 0
    BY <1>3 DEF Inv, TypeOK
  <2>2. shown'[m] > 0
    BY <1>3
  <2>3. QED
    BY <1>1, <1>2, <2>1, <2>2 DEF Inv, TypeOK, AcksAreShown, DeliveredWasShown
<1>7. ShownIsDurable'
  BY <1>1, <1>2, <1>3 DEF Inv, TypeOK, ShownIsDurable, NoRepeatAfterReload
<1>8. QED
  BY <1>4, <1>5, <1>6, <1>7 DEF Inv

\* Every step keeps the invariant.
LEMMA NextInv == Inv /\ [Next]_vars => Inv'
<1> SUFFICES ASSUME Inv, [Next]_vars PROVE Inv'
  OBVIOUS
<1>1. CASE UNCHANGED vars
  BY <1>1
     DEF vars, server, session, replay, task, Inv, TypeOK, CallsAreWhole, AcksAreShown,
         ShownIsDurable, DeliveredWasShown, NoRepeatAfterReload
<1>2. CASE Connect \/ Settle \/ \E i \in MsgId : Post(i) \/ TakeAck(i) \/ Expire(i)
  BY <1>2, ServerStep
<1>3. CASE Drop \/ Logout \/ Reload \/ \E a \in Account : Login(a)
  BY <1>3, PageStep
<1>4. ASSUME NEW h \in Handler, Handle(h) \/ \E i \in MsgId : Arrive(h, i) PROVE Inv'
  BY <1>4, ArriveStep, EarlyStep, ConsumeStep, ConsumeFailsStep, FinishStep DEF Handle
<1>5. QED
  BY <1>1, <1>2, <1>3, <1>4 DEF Next

-----------------------------------------------------------------------------
\* Only what the server has stored reaches a call, or the screen.
OnlyStored ==
    \A i \in MsgId : row[i] = "absent" =>
        due[i] = 0 /\ shown[i] = 0 /\ i \notin seen /\ \A h \in Handler : msg[h] # i

\* A step that moves a call to or from a message that is stored.
LEMMA StoredMove ==
  ASSUME Inv, OnlyStored, NEW h \in Handler, UNCHANGED <<row, seen>>,
         \A i \in MsgId : row[i] = "absent" => due'[i] = 0 /\ shown'[i] = 0,
         msg' = [msg EXCEPT ![h] = NoMsg] \/ \E i \in MsgId : row[i] # "absent" /\ msg' = [msg EXCEPT ![h] = i]
  PROVE  OnlyStored'
BY InboxAssumption DEF Inv, TypeOK, OnlyStored

\* Every step keeps it: copies are written only of what is stored.
LEMMA OnlyStoredStep == Inv /\ OnlyStored /\ [Next]_vars => OnlyStored'
<1> SUFFICES ASSUME Inv, OnlyStored, [Next]_vars PROVE OnlyStored'
  OBVIOUS
<1>1. CASE UNCHANGED vars \/ Settle \/ (\E i \in MsgId : Expire(i)) \/ \E a \in Account : Login(a)
  <2>1. UNCHANGED <<row, due, shown, seen, msg>>
    BY <1>1 DEF vars, Settle, Expire, Login, server, task
  <2>2. QED
    BY <2>1 DEF OnlyStored
<1>2. CASE Drop \/ Logout
  <2>1. UNCHANGED <<row, shown, seen, msg>> /\ due' = [i \in MsgId |-> 0]
    BY <1>2 DEF Drop, Logout, CloseSession, task
  <2>2. QED
    BY <2>1 DEF OnlyStored
<1>3. CASE Reload
  <2>1. /\ row' = row /\ due' = [i \in MsgId |-> 0] /\ shown' = [i \in MsgId |-> 0]
        /\ msg' = [h \in Handler |-> NoMsg] /\ seen' = seen \cup {i \in MsgId : shown[i] > 0}
    BY <1>3 DEF Reload, CloseSession
  <2>2. QED
    BY <2>1, InboxAssumption DEF OnlyStored
<1>4. CASE Connect
  BY <1>4 DEF Connect, OnlyStored, task
<1>5. ASSUME NEW i \in MsgId, Post(i) \/ TakeAck(i) PROVE OnlyStored'
  <2>1. /\ \A j \in MsgId : row'[j] = "absent" => row[j] = "absent" /\ due'[j] = due[j]
        /\ UNCHANGED <<shown, seen, msg>>
    BY <1>5 DEF Post, TakeAck, Inv, TypeOK, task
  <2>2. QED
    BY <2>1 DEF OnlyStored
<1>6. ASSUME NEW h \in Handler, NEW i \in MsgId, Arrive(h, i) PROVE OnlyStored'
  <2>1. /\ due[i] > 0 /\ due' = [due EXCEPT ![i] = @ - 1] /\ UNCHANGED <<row, shown, seen>>
        /\ msg' = [msg EXCEPT ![h] = NoMsg] \/ msg' = [msg EXCEPT ![h] = i]
    BY <1>6 DEF Arrive, Suspend, Rejected
  <2>2. row[i] # "absent"
    BY <2>1 DEF OnlyStored
  <2>3. QED
    BY <2>1, <2>2, StoredMove DEF Inv, TypeOK, OnlyStored
<1>7. ASSUME NEW h \in Handler, Handle(h) PROVE OnlyStored'
  <2>1. msg[h] \in MsgId /\ row[msg[h]] # "absent"
    BY <1>7 DEF Handle, Load, Verify, Decrypt, Consume, ConsumeFails, Finish, Inv, CallsAreWhole, OnlyStored
  <2>2. msg' = [msg EXCEPT ![h] = NoMsg] \/ msg' = [msg EXCEPT ![h] = msg[h]]
    BY <1>7 DEF Handle, Load, Verify, Decrypt, Consume, ConsumeFails, Finish, Suspend, Rejected
  <2>3. /\ UNCHANGED <<row, due, seen>>
        /\ shown' = shown \/ shown' = [shown EXCEPT ![msg[h]] = @ + 1]
    BY <1>7 DEF Handle, Load, Verify, Decrypt, Consume, ConsumeFails, Finish, server
  <2>4. \A i \in MsgId : row[i] = "absent" => due'[i] = 0 /\ shown'[i] = 0
    BY <2>1, <2>3 DEF OnlyStored, Inv, TypeOK
  <2>5. QED
    BY <2>1, <2>2, <2>3, <2>4, StoredMove
<1>8. QED
  BY <1>1, <1>2, <1>3, <1>4, <1>5, <1>6, <1>7 DEF Next

\* A step that neither stores, confirms nor displays is none of the mailbox.
LEMMA Stutters ==
  ASSUME UNCHANGED row, \A i \in MsgId : Displayed(i)' <=> Displayed(i)
  PROVE  UNCHANGED <<phase, letter>>
BY DEF phase, letter

\* Every step of the browser is one of the mailbox, or none.
LEMMA StepImplements == Inv /\ OnlyStored /\ [Next]_vars => [Box!Next]_<<phase, letter>>
<1> SUFFICES ASSUME Inv, OnlyStored, [Next]_vars PROVE [Box!Next]_<<phase, letter>>
  OBVIOUS
<1>1. CASE UNCHANGED vars \/ Settle \/ (\E i \in MsgId : Expire(i)) \/ (\E a \in Account : Login(a))
           \/ Connect \/ Drop \/ Logout \/ \E h \in Handler, i \in MsgId : Arrive(h, i)
  <2>1. UNCHANGED <<row, shown, seen>>
    BY <1>1 DEF vars, Settle, Expire, Login, Connect, Drop, Logout, Arrive, server
  <2>2. QED
    BY <2>1, Stutters DEF Displayed
<1>2. CASE Reload
  <2>1. row' = row /\ shown' = [i \in MsgId |-> 0] /\ seen' = seen \cup {i \in MsgId : shown[i] > 0}
    BY <1>2 DEF Reload
  <2>2. \A i \in MsgId : Displayed(i)' <=> Displayed(i)
    BY <2>1 DEF Displayed
  <2>3. QED
    BY <2>1, <2>2, Stutters
<1>3. ASSUME NEW i \in MsgId, Post(i) PROVE [Box!Next]_<<phase, letter>>
  <2>1. row[i] = "absent" /\ row' = [row EXCEPT ![i] = "pending"] /\ UNCHANGED <<shown, seen>>
    BY <1>3 DEF Post
  <2>2. ~Displayed(i) /\ row \in [MsgId -> {"absent", "pending", "delivered"}]
    BY <2>1 DEF Inv, TypeOK, OnlyStored, Displayed
  <2>3. phase[i] = "absent" /\ phase' = [phase EXCEPT ![i] = "queued"]
    BY <2>1, <2>2 DEF phase, Displayed
  <2>4. letter' = [letter EXCEPT ![i] = [from |-> Nobody, to |-> Owner[i]]]
    BY <2>1, <2>2 DEF letter
  <2>5. [from |-> Nobody, to |-> Owner[i]] \in Box!Letter /\ Nobody # Owner[i]
    BY InboxAssumption DEF Box!Letter
  <2>6. Box!Post(i)
    BY <2>3, <2>4, <2>5 DEF Box!Post
  <2>7. QED
    BY <2>6 DEF Box!Next
<1>4. ASSUME NEW i \in MsgId, TakeAck(i) PROVE [Box!Next]_<<phase, letter>>
  <2>1. /\ row' = [row EXCEPT ![i] = IF Owner[i] = account THEN "delivered" ELSE @]
        /\ UNCHANGED <<shown, seen>> /\ Displayed(i)
        /\ row \in [MsgId -> {"absent", "pending", "delivered"}]
    BY <1>4 DEF TakeAck, Inv, TypeOK, AcksAreShown, Displayed
  <2>2. row[i] # "absent"
    BY <2>1 DEF OnlyStored, Displayed
  <2>3. CASE row' = row
    BY <2>1, <2>3, Stutters DEF Displayed
  <2>4. CASE row' # row
    <3>1. row[i] = "pending" /\ row' = [row EXCEPT ![i] = "delivered"]
      BY <2>1, <2>2, <2>4
    <3>2. phase[i] = "handed" /\ phase' = [phase EXCEPT ![i] = "confirmed"]
      BY <2>1, <3>1 DEF phase, Displayed
    <3>3. UNCHANGED letter
      BY <2>1, <3>1 DEF letter
    <3>4. QED
      BY <3>2, <3>3 DEF Box!Next, Box!Confirm
  <2>5. QED
    BY <2>3, <2>4
<1>5. ASSUME NEW h \in Handler, Handle(h) PROVE [Box!Next]_<<phase, letter>>
  <2>1. CASE ~Finish(h)
    <3>1. UNCHANGED <<row, shown, seen>>
      BY <1>5, <2>1 DEF Handle, Load, Verify, Decrypt, Consume, ConsumeFails, server
    <3>2. QED
      BY <3>1, Stutters DEF Displayed
  <2>2. CASE Finish(h)
    <3>1. PICK i \in MsgId : i = msg[h] /\ row[i] # "absent"
      BY <2>2 DEF Finish, Inv, CallsAreWhole, OnlyStored
    <3>2. /\ shown' = [shown EXCEPT ![i] = @ + 1] /\ UNCHANGED <<row, seen>>
          /\ shown \in [MsgId -> Nat] /\ row \in [MsgId -> {"absent", "pending", "delivered"}]
      BY <2>2, <3>1 DEF Finish, Inv, TypeOK
    <3>3. Displayed(i)' /\ \A j \in MsgId \ {i} : Displayed(j)' <=> Displayed(j)
      BY <3>2 DEF Displayed
    <3>4. CASE row[i] = "delivered" \/ Displayed(i)
      BY <3>2, <3>3, <3>4 DEF phase, letter
    <3>5. CASE row[i] = "pending" /\ ~Displayed(i)
      <4>1. phase[i] = "queued" /\ phase' = [phase EXCEPT ![i] = "handed"]
        BY <3>2, <3>3, <3>5 DEF phase
      <4>2. UNCHANGED letter
        BY <3>2 DEF letter
      <4>3. QED
        BY <4>1, <4>2 DEF Box!Next, Box!Hand
    <3>6. QED
      BY <3>1, <3>2, <3>4, <3>5
  <2>3. QED
    BY <2>1, <2>2
<1>6. QED
  BY <1>1, <1>2, <1>3, <1>4, <1>5 DEF Next

-----------------------------------------------------------------------------
\* The invariant holds in every reachable state.
LEMMA Invariance == Spec => []Inv
<1>1. Init => Inv
  BY InitInv
<1>2. Inv /\ [Next]_vars => Inv'
  BY NextInv
<1>3. QED
  BY <1>1, <1>2, PTL DEF Spec

\* Every variable of Inbox keeps its type, for all values of the constants.
THEOREM InboxTypeOK == Spec => []TypeOK
<1>1. Inv => TypeOK
  BY DEF Inv
<1>2. QED
  BY <1>1, Invariance, PTL

\* The server forgets no message its recipient was not shown (app.js 1031-1045):
\* an acknowledgement leaves only after the display, and over a session of the
\* account that is logged in.
THEOREM AcknowledgedWasShown == Spec => []DeliveredWasShown
<1>1. Inv => DeliveredWasShown
  BY DEF Inv, AcksAreShown
<1>2. QED
  BY <1>1, Invariance, PTL

\* What was displayed before a reload is never displayed again (app.js
\* 578-600), whichever puts the reload lost.
THEOREM ReloadShowsNothingTwice == Spec => []NoRepeatAfterReload
<1>1. Inv => NoRepeatAfterReload
  BY DEF Inv, ShownIsDurable
<1>2. QED
  BY <1>1, Invariance, PTL

\* A message that is stored for good, and that no call carries past line 597,
\* is closed for ever: every later copy is refused.
THEOREM ClosedForGood == Spec => ConsumedForGood
<1>1. Inv /\ [Next]_vars => [\A i \in MsgId : Closed(i) => Closed(i)']_vars
  <2> SUFFICES ASSUME Inv, Next, NEW i \in MsgId, Closed(i) PROVE Closed(i)'
    OBVIOUS
  <2>0. i \in store /\ i \in durable /\ \A h \in Handler : msg[h] = i => pc[h] \notin {"recheck", "put"}
    BY DEF Closed, Inv, TypeOK
  <2>1. CASE Connect \/ Settle \/ \E j \in MsgId : Post(j) \/ TakeAck(j) \/ Expire(j)
    <3>1. UNCHANGED <<durable, pc, msg>>
      BY <2>1 DEF Connect, Settle, Post, TakeAck, Expire, replay, task
    <3>2. QED
      BY <2>0, <3>1 DEF Closed
  <2>2. CASE Drop \/ Logout \/ \E a \in Account : Login(a)
    <3>1. UNCHANGED <<durable, pc, msg>>
      BY <2>2 DEF Drop, Logout, Login, replay, task
    <3>2. QED
      BY <2>0, <3>1 DEF Closed
  <2>3. CASE Reload
    BY <2>0, <2>3 DEF Reload, Closed
  <2>4. ASSUME NEW g \in Handler, Handle(g) \/ \E j \in MsgId : Arrive(g, j) PROVE Closed(i)'
    <3>1. durable \subseteq durable'
      BY <2>4 DEF Handle, Arrive, Load, Verify, Decrypt, Consume, ConsumeFails, Finish, replay
    <3>2. \A h \in Handler \ {g} : pc'[h] = pc[h] /\ msg'[h] = msg[h]
      BY <2>4 DEF Handle, Arrive, Load, Verify, Decrypt, Consume, ConsumeFails, Finish, Rejected,
                  Suspend, Inv, TypeOK
    <3>3. msg'[g] = i => pc'[g] \notin {"recheck", "put"}
      BY <2>0, <2>4 DEF Handle, Arrive, Load, Verify, Decrypt, Consume, ConsumeFails, Finish, Rejected,
                  Suspend, Inv, TypeOK
    <3>4. QED
      BY <2>0, <3>1, <3>2, <3>3 DEF Closed
  <2>5. QED
    BY <2>1, <2>2, <2>3, <2>4 DEF Next
<1>2. QED
  BY <1>1, Invariance, PTL DEF Spec, ConsumedForGood

\* The receiving end implements the mailbox: whatever the network, reloads and
\* changes of account do, a message is displayed before it is confirmed, and
\* neither the display nor the confirmation is taken back.
THEOREM Refinement == Spec => ImplementsMailbox
<1>1. Init => OnlyStored
  BY InboxAssumption DEF Init, OnlyStored
<1>2. Spec => []OnlyStored
  BY <1>1, OnlyStoredStep, Invariance, PTL DEF Spec
<1>3. Init => Box!Init
  BY DEF Init, Box!Init, phase, letter
<1>4. QED
  BY <1>2, <1>3, StepImplements, Invariance, PTL DEF Spec, ImplementsMailbox, Box!Spec
=============================================================================
