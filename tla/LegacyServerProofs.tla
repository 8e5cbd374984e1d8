------------------------- MODULE LegacyServerProofs -------------------------
(***************************************************************************)
(* Proofs about LegacyServer, for any users and connections.               *)
(*                                                                         *)
(* The invariant is built in layers, each kept by every step under those   *)
(* before it: Base (types and what a thread's position says of its own     *)
(* entries), RoutesAreLive, Owed (what a late drop may hit), Fresh (whose  *)
(* keys are published) and Lists (who still has to be told).               *)
(***************************************************************************)
EXTENDS LegacyServer, TLAPS

USE LegacyAssumption

\* A thread registers and drops only the name of its own hello.
Bound ==
    \A s \in Socket :
        /\ clients[s] # NoUser => clients[s] = name[s]
        /\ pc[s] \in {"route", "publish"} => clients[s] = name[s]
        /\ pc[s] \in {"off", "check", "drop"} => clients[s] = NoUser

Base == TypeOK /\ Bound

\* A thread about to drop its route finds its own or none, unless a newer one
\* of the same name was written after its line 142.
Owed ==
    \A s \in Socket : pc[s] = "drop" /\ name[s] \notin crossed
        => sockets_by_user[name[s]] \in {s, NoSocket}

\* Two threads register one name only if it clashed, and the one about to
\* publish its keys then has the route, if anyone has.
Fresh ==
    /\ \A s, t \in Socket : Registering(s) /\ Registering(t) /\ s # t /\ name[s] = name[t]
           => name[s] \in clashed
    /\ \A s \in Socket : pc[s] = "publish" /\ name[s] \notin clashed
           => sockets_by_user[name[s]] \in {s, NoSocket}

\* Somebody is going to send the list to everyone.
Due == \E s \in Socket : pc[s] \in {"route", "publish", "announce"}

\* Client s has the list, or is about to be sent it.
Informed(s) ==
    \/ shown[s] = Listed
    \/ \E t \in Socket : pc[t] = "address" \/ (pc[t] = "telling" /\ s \in todo[t])

\* One thread at a time sends a list, and unless another is due it is the
\* current one, and reaches every client that does not have it.
Lists ==
    ~tangled =>
        /\ \A s, t \in Socket : Telling(s) /\ Telling(t) => s = t
        /\ ~Due => /\ \A s \in Socket : Telling(s) => roster[s] = Listed
                   /\ \A s \in Socket : clients[s] # NoUser /\ link[s] = "up" => Informed(s)

-----------------------------------------------------------------------------
\* Nobody is connected at first.
LEMMA InitBase == Init => Base
<1>1. SUFFICES ASSUME Init PROVE Base
  OBVIOUS
<1>2. TypeOK
  BY <1>1 DEF Init, TypeOK, Point, Named
<1>3. QED
  BY <1>1, <1>2 DEF Init, Base, Bound

\* Every step keeps the types, and binds a thread to the name of its hello.
LEMMA BaseStep == Base /\ [Next]_vars => Base'
<1>1. SUFFICES ASSUME Base, [Next]_vars PROVE Base'
  OBVIOUS
<1>2. TypeOK /\ Bound
  BY <1>1 DEF Base
<1>3. ASSUME NEW s \in Socket, Accept(s) PROVE Base'
  BY <1>2, <1>3 DEF Accept, Goto, Base, TypeOK, Bound, Point, Named, dicts, sending, history
<1>4. ASSUME NEW s \in Socket, Depart(s) PROVE Base'
  BY <1>2, <1>4 DEF Depart, Base, TypeOK, Bound, dicts, history
<1>5. ASSUME NEW s \in Socket, NEW u \in User, Hello(s, u) PROVE Base'
  BY <1>2, <1>5 DEF Hello, Goto, Base, TypeOK, Bound, Point, dicts, sending
<1>6. ASSUME NEW s \in Socket, Previous(s) PROVE Base'
  BY <1>2, <1>6 DEF Previous, Goto, Base, TypeOK, Bound, Point, Named, dicts, sending, history
<1>7. ASSUME NEW s \in Socket, Claim(s) PROVE Base'
  BY <1>2, <1>7 DEF Claim, Goto, Base, TypeOK, Bound, Point, Named, sending, history
<1>8. ASSUME NEW s \in Socket, Route(s) PROVE Base'
  BY <1>2, <1>8 DEF Route, Goto, Base, TypeOK, Bound, Point, Named, sending
<1>9. ASSUME NEW s \in Socket, Publish(s) PROVE Base'
  BY <1>2, <1>9 DEF Publish, Goto, Base, TypeOK, Bound, Point, Named, sending, history
<1>10. ASSUME NEW s \in Socket, Announce(s) PROVE Base'
  BY <1>2, <1>10 DEF Announce, Read, Listed, Overlaps, Goto, Base, TypeOK, Bound, Point, Named,
     dicts, history
<1>11. ASSUME NEW s \in Socket, GetUsers(s) PROVE Base'
  BY <1>2, <1>11 DEF GetUsers, Read, Listed, Goto, Base, TypeOK, Bound, Point, dicts, history
<1>12. ASSUME NEW s \in Socket, Address(s) PROVE Base'
  BY <1>2, <1>12 DEF Address, After, Goto, Base, TypeOK, Bound, Point, Named, dicts, history
<1>13. ASSUME NEW s \in Socket, NEW t \in Socket, Tell(s, t) PROVE Base'
  BY <1>2, <1>13 DEF Tell, After, Goto, Base, TypeOK, Bound, Point, Named, dicts, history
<1>14. ASSUME NEW s \in Socket, Finish(s) PROVE Base'
  BY <1>2, <1>14 DEF Finish, Goto, Base, TypeOK, Bound, Point, Named, sending, history
<1>15. ASSUME NEW s \in Socket, Check(s) PROVE Base'
  BY <1>2, <1>15 DEF Check, Goto, Base, TypeOK, Bound, Point, Named, dicts, sending, history
<1>16. ASSUME NEW s \in Socket, Drop(s) PROVE Base'
  BY <1>2, <1>16 DEF Drop, Goto, Base, TypeOK, Bound, Point, Named, sending, history
<1>17. CASE UNCHANGED vars
  BY <1>2, <1>17 DEF vars, dicts, sending, history, Base, TypeOK, Bound
<1>18. QED
  BY <1>1, <1>3, <1>4, <1>5, <1>6, <1>7, <1>8, <1>9, <1>10, <1>11, <1>12, <1>13, <1>14, <1>15,
     <1>16, <1>17 DEF Next, Thread

\* Every variable keeps its type.
THEOREM LegacyServerTypeOK == Spec => []TypeOK
<1>1. Base => TypeOK
  BY DEF Base
<1>2. QED
  BY <1>1, InitBase, BaseStep, PTL DEF Spec

\* A route is written by a thread whose client is registered, and dropped by it.
LEMMA RoutesStep == Base /\ RoutesAreLive /\ [Next]_vars => RoutesAreLive'
<1>1. SUFFICES ASSUME Base /\ RoutesAreLive, [Next]_vars PROVE RoutesAreLive'
  OBVIOUS
<1>2. TypeOK /\ Bound
  BY <1>1 DEF Base
<1>3. ASSUME NEW s \in Socket, Accept(s) PROVE RoutesAreLive'
  BY <1>1, <1>3 DEF Accept, dicts, Goto, RoutesAreLive
<1>4. ASSUME NEW s \in Socket, Depart(s) PROVE RoutesAreLive'
  BY <1>1, <1>4 DEF Depart, dicts, RoutesAreLive
<1>5. ASSUME NEW s \in Socket, NEW u \in User, Hello(s, u) PROVE RoutesAreLive'
  BY <1>1, <1>5 DEF Hello, dicts, Goto, RoutesAreLive
<1>6. ASSUME NEW s \in Socket, Previous(s) PROVE RoutesAreLive'
  BY <1>1, <1>2, <1>6 DEF Previous, dicts, Goto, TypeOK, RoutesAreLive
<1>7. ASSUME NEW s \in Socket, Claim(s) PROVE RoutesAreLive'
  BY <1>1, <1>7 DEF Claim, Goto, RoutesAreLive
<1>8. ASSUME NEW s \in Socket, Route(s) PROVE RoutesAreLive'
  BY <1>1, <1>2, <1>8 DEF Route, Goto, Bound, RoutesAreLive
<1>9. ASSUME NEW s \in Socket, Publish(s) PROVE RoutesAreLive'
  BY <1>1, <1>9 DEF Publish, Goto, RoutesAreLive
<1>10. ASSUME NEW s \in Socket, Announce(s) PROVE RoutesAreLive'
  BY <1>1, <1>10 DEF Announce, Read, dicts, Goto, RoutesAreLive
<1>11. ASSUME NEW s \in Socket, GetUsers(s) PROVE RoutesAreLive'
  BY <1>1, <1>11 DEF GetUsers, Read, dicts, Goto, RoutesAreLive
<1>12. ASSUME NEW s \in Socket, Address(s) PROVE RoutesAreLive'
  BY <1>1, <1>12 DEF Address, dicts, Goto, RoutesAreLive
<1>13. ASSUME NEW s \in Socket, NEW t \in Socket, Tell(s, t) PROVE RoutesAreLive'
  BY <1>1, <1>13 DEF Tell, dicts, Goto, RoutesAreLive
<1>14. ASSUME NEW s \in Socket, Finish(s) PROVE RoutesAreLive'
  BY <1>1, <1>2, <1>14 DEF Finish, Goto, TypeOK, RoutesAreLive
<1>15. ASSUME NEW s \in Socket, Check(s) PROVE RoutesAreLive'
  BY <1>1, <1>15 DEF Check, dicts, Goto, RoutesAreLive
<1>16. ASSUME NEW s \in Socket, Drop(s) PROVE RoutesAreLive'
  BY <1>1, <1>2, <1>16 DEF Drop, Goto, TypeOK, RoutesAreLive
<1>17. CASE UNCHANGED vars
  BY <1>1, <1>17 DEF vars, dicts, RoutesAreLive
<1>18. QED
  BY <1>1, <1>3, <1>4, <1>5, <1>6, <1>7, <1>8, <1>9, <1>10, <1>11, <1>12, <1>13, <1>14, <1>15,
     <1>16, <1>17 DEF Next, Thread

\* Only a route written between lines 142 and 143 of another thread is owed.
LEMMA OwedStep == Base /\ Owed /\ [Next]_vars => Owed'
<1>1. SUFFICES ASSUME Base /\ Owed, [Next]_vars PROVE Owed'
  OBVIOUS
<1>2. TypeOK /\ Bound
  BY <1>1 DEF Base
<1>3. ASSUME NEW s \in Socket, Accept(s) PROVE Owed'
  BY <1>1, <1>3 DEF Accept, dicts, history, Goto, Owed
<1>4. ASSUME NEW s \in Socket, Depart(s) PROVE Owed'
  BY <1>1, <1>4 DEF Depart, dicts, history, Owed
<1>5. ASSUME NEW s \in Socket, NEW u \in User, Hello(s, u) PROVE Owed'
  BY <1>1, <1>5 DEF Hello, dicts, Goto, Owed
<1>6. ASSUME NEW s \in Socket, Previous(s) PROVE Owed'
  BY <1>1, <1>2, <1>6 DEF Previous, dicts, history, Goto, TypeOK, Owed
<1>7. ASSUME NEW s \in Socket, Claim(s) PROVE Owed'
  BY <1>1, <1>7 DEF Claim, history, Goto, Owed
<1>8. ASSUME NEW s \in Socket, Route(s) PROVE Owed'
  BY <1>1, <1>8 DEF Route, Goto, Owed
<1>9. ASSUME NEW s \in Socket, Publish(s) PROVE Owed'
  BY <1>1, <1>9 DEF Publish, history, Goto, Owed
<1>10. ASSUME NEW s \in Socket, Announce(s) PROVE Owed'
  BY <1>1, <1>10 DEF Announce, Read, dicts, history, Goto, Owed
<1>11. ASSUME NEW s \in Socket, GetUsers(s) PROVE Owed'
  BY <1>1, <1>11 DEF GetUsers, Read, dicts, history, Goto, Owed
<1>12. ASSUME NEW s \in Socket, Address(s) PROVE Owed'
  BY <1>1, <1>12 DEF Address, After, dicts, history, Goto, Owed
<1>13. ASSUME NEW s \in Socket, NEW t \in Socket, Tell(s, t) PROVE Owed'
  BY <1>1, <1>13 DEF Tell, After, dicts, history, Goto, Owed
<1>14. ASSUME NEW s \in Socket, Finish(s) PROVE Owed'
  BY <1>1, <1>14 DEF Finish, history, Goto, Owed
<1>15. ASSUME NEW s \in Socket, Check(s) PROVE Owed'
  BY <1>1, <1>15 DEF Check, dicts, history, Goto, Owed
<1>16. ASSUME NEW s \in Socket, Drop(s) PROVE Owed'
  BY <1>1, <1>16 DEF Drop, history, Goto, Owed
<1>17. CASE UNCHANGED vars
  BY <1>1, <1>17 DEF vars, dicts, history, Owed
<1>18. QED
  BY <1>1, <1>3, <1>4, <1>5, <1>6, <1>7, <1>8, <1>9, <1>10, <1>11, <1>12, <1>13, <1>14, <1>15,
     <1>16, <1>17 DEF Next, Thread

\* A newest connection loses its route to such a drop only.
LEMMA ConnectedStep == Base /\ Owed /\ ConnectedAreRouted /\ [Next]_vars => ConnectedAreRouted'
<1>1. SUFFICES ASSUME Base /\ Owed /\ ConnectedAreRouted, [Next]_vars PROVE ConnectedAreRouted'
  OBVIOUS
<1>2. TypeOK /\ Bound
  BY <1>1 DEF Base
<1>3. ASSUME NEW s \in Socket, Accept(s) PROVE ConnectedAreRouted'
  BY <1>1, <1>3 DEF Accept, dicts, history, Goto, ConnectedAreRouted
<1>4. ASSUME NEW s \in Socket, Depart(s) PROVE ConnectedAreRouted'
  BY <1>1, <1>4 DEF Depart, dicts, history, ConnectedAreRouted
<1>5. ASSUME NEW s \in Socket, NEW u \in User, Hello(s, u) PROVE ConnectedAreRouted'
  BY <1>1, <1>5 DEF Hello, dicts, Goto, ConnectedAreRouted
<1>6. ASSUME NEW s \in Socket, Previous(s) PROVE ConnectedAreRouted'
  BY <1>1, <1>2, <1>6 DEF Previous, dicts, history, Goto, TypeOK, ConnectedAreRouted
<1>7. ASSUME NEW s \in Socket, Claim(s) PROVE ConnectedAreRouted'
  BY <1>1, <1>2, <1>7 DEF Claim, history, Goto, TypeOK, ConnectedAreRouted
<1>8. ASSUME NEW s \in Socket, Route(s) PROVE ConnectedAreRouted'
  BY <1>1, <1>2, <1>8 DEF Route, Goto, TypeOK, Bound, ConnectedAreRouted
<1>9. ASSUME NEW s \in Socket, Publish(s) PROVE ConnectedAreRouted'
  BY <1>1, <1>9 DEF Publish, history, Goto, ConnectedAreRouted
<1>10. ASSUME NEW s \in Socket, Announce(s) PROVE ConnectedAreRouted'
  BY <1>1, <1>10 DEF Announce, Read, dicts, history, Goto, ConnectedAreRouted
<1>11. ASSUME NEW s \in Socket, GetUsers(s) PROVE ConnectedAreRouted'
  BY <1>1, <1>11 DEF GetUsers, Read, dicts, history, Goto, ConnectedAreRouted
<1>12. ASSUME NEW s \in Socket, Address(s) PROVE ConnectedAreRouted'
  BY <1>1, <1>12 DEF Address, dicts, history, Goto, ConnectedAreRouted
<1>13. ASSUME NEW s \in Socket, NEW t \in Socket, Tell(s, t) PROVE ConnectedAreRouted'
  BY <1>1, <1>13 DEF Tell, dicts, history, Goto, ConnectedAreRouted
<1>14. ASSUME NEW s \in Socket, Finish(s) PROVE ConnectedAreRouted'
  BY <1>1, <1>14 DEF Finish, history, Goto, ConnectedAreRouted
<1>15. ASSUME NEW s \in Socket, Check(s) PROVE ConnectedAreRouted'
  BY <1>1, <1>15 DEF Check, dicts, history, Goto, ConnectedAreRouted
<1>16. ASSUME NEW s \in Socket, Drop(s) PROVE ConnectedAreRouted'
  BY <1>1, <1>2, <1>16 DEF Drop, history, Goto, Bound, Owed, ConnectedAreRouted
<1>17. CASE UNCHANGED vars
  BY <1>1, <1>17 DEF vars, dicts, history, ConnectedAreRouted
<1>18. QED
  BY <1>1, <1>3, <1>4, <1>5, <1>6, <1>7, <1>8, <1>9, <1>10, <1>11, <1>12, <1>13, <1>14, <1>15,
     <1>16, <1>17 DEF Next, Thread

\* A hello that overlaps another of the same name is recorded.
LEMMA FreshStep == Base /\ RoutesAreLive /\ Fresh /\ [Next]_vars => Fresh'
<1>1. SUFFICES ASSUME Base /\ RoutesAreLive /\ Fresh, [Next]_vars PROVE Fresh'
  OBVIOUS
<1>2. TypeOK /\ Bound
  BY <1>1 DEF Base
<1>3. ASSUME NEW s \in Socket, Accept(s) PROVE Fresh'
  BY <1>1, <1>3 DEF Accept, dicts, history, Goto, Fresh, Registering
<1>4. ASSUME NEW s \in Socket, Depart(s) PROVE Fresh'
  BY <1>1, <1>4 DEF Depart, dicts, history, Fresh, Registering
<1>5. ASSUME NEW s \in Socket, NEW u \in User, Hello(s, u) PROVE Fresh'
  BY <1>1, <1>2, <1>5 DEF Hello, dicts, Goto, TypeOK, Fresh, Registering
<1>6. ASSUME NEW s \in Socket, Previous(s) PROVE Fresh'
  BY <1>1, <1>2, <1>6 DEF Previous, dicts, history, Goto, TypeOK, Fresh, Registering
<1>7. ASSUME NEW s \in Socket, Claim(s) PROVE Fresh'
  BY <1>1, <1>7 DEF Claim, history, Goto, Fresh, Registering
<1>8. ASSUME NEW s \in Socket, Route(s) PROVE Fresh'
  BY <1>1, <1>2, <1>8 DEF Route, Goto, TypeOK, Fresh, Registering, Named
<1>9. ASSUME NEW s \in Socket, Publish(s) PROVE Fresh'
  BY <1>1, <1>9 DEF Publish, history, Goto, Fresh, Registering
<1>10. ASSUME NEW s \in Socket, Announce(s) PROVE Fresh'
  BY <1>1, <1>10 DEF Announce, Read, dicts, history, Goto, Fresh, Registering
<1>11. ASSUME NEW s \in Socket, GetUsers(s) PROVE Fresh'
  BY <1>1, <1>11 DEF GetUsers, Read, dicts, history, Goto, Fresh, Registering
<1>12. ASSUME NEW s \in Socket, Address(s) PROVE Fresh'
  BY <1>1, <1>12 DEF Address, After, dicts, history, Goto, Fresh, Registering
<1>13. ASSUME NEW s \in Socket, NEW t \in Socket, Tell(s, t) PROVE Fresh'
  BY <1>1, <1>13 DEF Tell, After, dicts, history, Goto, Fresh, Registering
<1>14. ASSUME NEW s \in Socket, Finish(s) PROVE Fresh'
  BY <1>1, <1>14 DEF Finish, history, Goto, Fresh, Registering
<1>15. ASSUME NEW s \in Socket, Check(s) PROVE Fresh'
  BY <1>1, <1>15 DEF Check, dicts, history, Goto, Fresh, Registering
<1>16. ASSUME NEW s \in Socket, Drop(s) PROVE Fresh'
  BY <1>1, <1>16 DEF Drop, history, Goto, Fresh, Registering
<1>17. CASE UNCHANGED vars
  BY <1>1, <1>17 DEF vars, dicts, history, Fresh, Registering
<1>18. QED
  BY <1>1, <1>3, <1>4, <1>5, <1>6, <1>7, <1>8, <1>9, <1>10, <1>11, <1>12, <1>13, <1>14, <1>15,
     <1>16, <1>17 DEF Next, Thread

\* The keys of a route are published by the thread that wrote it.
LEMMA KeysStep ==
  Base /\ RoutesAreLive /\ Fresh /\ KeysFollowRoute /\ [Next]_vars => KeysFollowRoute'
<1>1. SUFFICES ASSUME Base /\ RoutesAreLive /\ Fresh /\ KeysFollowRoute, [Next]_vars
           PROVE KeysFollowRoute'
  OBVIOUS
<1>2. TypeOK /\ Bound
  BY <1>1 DEF Base
<1>3. ASSUME NEW s \in Socket, Accept(s) PROVE KeysFollowRoute'
  BY <1>1, <1>3 DEF Accept, dicts, history, Goto, KeysFollowRoute
<1>4. ASSUME NEW s \in Socket, Depart(s) PROVE KeysFollowRoute'
  BY <1>1, <1>4 DEF Depart, dicts, history, KeysFollowRoute
<1>5. ASSUME NEW s \in Socket, NEW u \in User, Hello(s, u) PROVE KeysFollowRoute'
  BY <1>1, <1>5 DEF Hello, dicts, Goto, KeysFollowRoute
<1>6. ASSUME NEW s \in Socket, Previous(s) PROVE KeysFollowRoute'
  BY <1>1, <1>2, <1>6 DEF Previous, dicts, history, Goto, TypeOK, KeysFollowRoute
<1>7. ASSUME NEW s \in Socket, Claim(s) PROVE KeysFollowRoute'
  BY <1>1, <1>7 DEF Claim, history, Goto, KeysFollowRoute
<1>8. ASSUME NEW s \in Socket, Route(s) PROVE KeysFollowRoute'
  BY <1>1, <1>2, <1>8 DEF Route, Goto, TypeOK, KeysFollowRoute
<1>9. ASSUME NEW s \in Socket, Publish(s) PROVE KeysFollowRoute'
  BY <1>1, <1>2, <1>9 DEF Publish, history, Goto, TypeOK, RoutesAreLive, Fresh, KeysFollowRoute
<1>10. ASSUME NEW s \in Socket, Announce(s) PROVE KeysFollowRoute'
  BY <1>1, <1>10 DEF Announce, Read, dicts, history, Goto, KeysFollowRoute
<1>11. ASSUME NEW s \in Socket, GetUsers(s) PROVE KeysFollowRoute'
  BY <1>1, <1>11 DEF GetUsers, Read, dicts, history, Goto, KeysFollowRoute
<1>12. ASSUME NEW s \in Socket, Address(s) PROVE KeysFollowRoute'
  BY <1>1, <1>12 DEF Address, dicts, history, Goto, KeysFollowRoute
<1>13. ASSUME NEW s \in Socket, NEW t \in Socket, Tell(s, t) PROVE KeysFollowRoute'
  BY <1>1, <1>13 DEF Tell, dicts, history, Goto, KeysFollowRoute
<1>14. ASSUME NEW s \in Socket, Finish(s) PROVE KeysFollowRoute'
  BY <1>1, <1>14 DEF Finish, history, Goto, KeysFollowRoute
<1>15. ASSUME NEW s \in Socket, Check(s) PROVE KeysFollowRoute'
  BY <1>1, <1>15 DEF Check, dicts, history, Goto, KeysFollowRoute
<1>16. ASSUME NEW s \in Socket, Drop(s) PROVE KeysFollowRoute'
  BY <1>1, <1>16 DEF Drop, history, Goto, KeysFollowRoute
<1>17. CASE UNCHANGED vars
  BY <1>1, <1>17 DEF vars, dicts, history, KeysFollowRoute
<1>18. QED
  BY <1>1, <1>3, <1>4, <1>5, <1>6, <1>7, <1>8, <1>9, <1>10, <1>11, <1>12, <1>13, <1>14, <1>15,
     <1>16, <1>17 DEF Next, Thread

\* Whoever changes the names sends the list afterwards.
LEMMA ListsStep == Base /\ Lists /\ [Next]_vars => Lists'
<1>1. SUFFICES ASSUME Base /\ Lists, [Next]_vars PROVE Lists'
  OBVIOUS
<1>2. TypeOK /\ Bound
  BY <1>1 DEF Base
<1>3. ASSUME NEW s \in Socket, Accept(s) PROVE Lists'
  BY <1>1, <1>2, <1>3 DEF Accept, dicts, sending, Goto, Bound, Lists, Telling, Due, Informed,
     Listed
<1>4. ASSUME NEW s \in Socket, Depart(s) PROVE Lists'
  BY <1>1, <1>2, <1>4 DEF Depart, dicts, TypeOK, Lists, Telling, Due, Informed, Listed
<1>5. ASSUME NEW s \in Socket, NEW u \in User, Hello(s, u) PROVE Lists'
  BY <1>1, <1>5 DEF Hello, dicts, sending, Goto, Lists, Telling, Due, Informed, Listed
<1>6. ASSUME NEW s \in Socket, Previous(s) PROVE Lists'
  BY <1>1, <1>2, <1>6 DEF Previous, dicts, sending, Goto, TypeOK, Lists, Telling, Due, Informed,
     Listed
<1>7. ASSUME NEW s \in Socket, Claim(s) PROVE Lists'
  BY <1>1, <1>2, <1>7 DEF Claim, sending, Goto, TypeOK, Lists, Telling, Due
<1>8. ASSUME NEW s \in Socket, Route(s) PROVE Lists'
  BY <1>1, <1>8 DEF Route, sending, Goto, Lists, Telling, Due
<1>9. ASSUME NEW s \in Socket, Publish(s) PROVE Lists'
  BY <1>1, <1>9 DEF Publish, sending, Goto, Lists, Telling, Due
<1>10. ASSUME NEW s \in Socket, Announce(s) PROVE Lists'
  BY <1>2, <1>10 DEF Announce, Read, Overlaps, dicts, Goto, TypeOK, Lists, Telling, Informed,
     Listed
<1>11. ASSUME NEW s \in Socket, GetUsers(s) PROVE Lists'
  BY <1>1, <1>2, <1>11 DEF GetUsers, Read, Overlaps, dicts, history, Goto, TypeOK, Bound, Lists,
     Telling, Due, Informed, Listed, Point, Named
<1>12. ASSUME NEW s \in Socket, Address(s) PROVE Lists'
  BY <1>1, <1>2, <1>12 DEF Address, After, dicts, Goto, TypeOK, Lists, Telling, Due, Informed,
     Listed
<1>13. ASSUME NEW s \in Socket, NEW t \in Socket, Tell(s, t) PROVE Lists'
  BY <1>1, <1>2, <1>13 DEF Tell, After, dicts, Goto, TypeOK, Lists, Telling, Due, Informed,
     Listed
<1>14. ASSUME NEW s \in Socket, Finish(s) PROVE Lists'
  BY <1>1, <1>14 DEF Finish, sending, Goto, Lists, Telling, Due, Informed, Listed
<1>15. ASSUME NEW s \in Socket, Check(s) PROVE Lists'
  BY <1>1, <1>15 DEF Check, dicts, sending, Goto, Lists, Telling, Due, Informed, Listed
<1>16. ASSUME NEW s \in Socket, Drop(s) PROVE Lists'
  BY <1>1, <1>2, <1>16 DEF Drop, sending, Goto, TypeOK, Lists, Telling, Due
<1>17. CASE UNCHANGED vars
  BY <1>1, <1>17 DEF vars, dicts, sending, Lists, Telling, Due, Informed, Listed
<1>18. QED
  BY <1>1, <1>3, <1>4, <1>5, <1>6, <1>7, <1>8, <1>9, <1>10, <1>11, <1>12, <1>13, <1>14, <1>15,
     <1>16, <1>17 DEF Next, Thread

-----------------------------------------------------------------------------
Inv ==
    /\ Base /\ RoutesAreLive /\ Owed /\ ConnectedAreRouted
    /\ Fresh /\ KeysFollowRoute /\ Lists

\* No name is registered at first, and no list under way.
LEMMA InitInv == Init => Inv
<1>1. SUFFICES ASSUME Init PROVE Inv
  OBVIOUS
<1>2. Base
  BY <1>1, InitBase
<1>3. RoutesAreLive /\ Owed /\ ConnectedAreRouted
  BY <1>1 DEF Init, RoutesAreLive, Owed, ConnectedAreRouted
<1>4. Fresh /\ KeysFollowRoute
  BY <1>1 DEF Init, Fresh, KeysFollowRoute, Registering
<1>5. Lists
  BY <1>1 DEF Init, Lists, Telling
<1>6. QED
  BY <1>2, <1>3, <1>4, <1>5 DEF Inv

\* Every layer is kept under those before it, so all of them hold for ever.
LEMMA Invariance == Spec => []Inv
<1>1. Inv /\ [Next]_vars => Inv'
  BY BaseStep, RoutesStep, OwedStep, ConnectedStep, FreshStep, KeysStep, ListsStep DEF Inv
<1>2. QED
  BY <1>1, InitInv, PTL DEF Spec

\* A name leads to a live connection registered under it, and the newest
\* connection of a user is listed unless an older one's drop hit its route.
THEOREM RoutesAreTrue == Spec => []RoutesMatchConnections
<1>1. Inv => RoutesMatchConnections
  BY DEF Inv, RoutesMatchConnections
<1>2. QED
  BY <1>1, Invariance, PTL

\* Messages are encrypted for the connection they are relayed to, unless two
\* connections registered its name at once.
THEOREM KeysFollow == Spec => []KeysFollowRoute
<1>1. Inv => KeysFollowRoute
  BY DEF Inv
<1>2. QED
  BY <1>1, Invariance, PTL

\* Once the server is quiet every client shows the names that are registered, if
\* the last list was not read (46) while another one was still being sent (50).
THEOREM ListsConverge == Spec => []ListsHeal
<1>1. ASSUME Inv PROVE ListsHeal
  BY <1>1 DEF Inv, Lists, ListsHeal, Due, Informed
<1>2. QED
  BY <1>1, Invariance, PTL
=============================================================================
