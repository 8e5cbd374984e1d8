------------------------- MODULE ClientSocketProofs -------------------------
(***************************************************************************)
(* Proofs about ClientSocket, for any number of WebSocket objects, any     *)
(* bounds, any mishaps and any forms, whichever of them fail: the page's    *)
(* socketReady tells the truth of its channel, a tab that should be online *)
(* has an event to come that leads there, and a session that should end    *)
(* has one that ends it.                                                   *)
(*                                                                         *)
(* ReadinessIsTrue is not inductive.  That the handshake of state.socket   *)
(* itself completed rests on what is on its way from the server: a frame   *)
(* in the network was written by a session that was served and is, or was, *)
(* on the same WebSocket (Written), and none is left over when an object   *)
(* is used for a new connection (Unopened).                                *)
(***************************************************************************)
EXTENDS ClientSocket, TLAPS

USE ClientSocketAssumption

\* No frame and no session is left of a connection that is over, and none is
\* there of one that has not opened.
Unopened ==
    \A s \in WebSocket : readyState[s] \in {"ended", "connecting"}
        => wire[s] = <<>> /\ endpoint[s] = "gone"

\* Only a session that was served writes frames.
Written == \A s \in WebSocket : wire[s] # <<>> => endpoint[s] \in {"served", "gone"}

\* state.socketReady speaks of state.socket, which opened and was authenticated;
\* its close event has not fired, or fired while there was no token.
ReadyIsServed ==
    ready => /\ socket \in WebSocket /\ readyState[socket] # "connecting"
             /\ endpoint[socket] \in {"served", "gone"}

\* The types, of the page's variables, of the objects and of the rest.
Forms == form \in [Form -> Progress] /\ inside \in BOOLEAN

Flags == token \in BOOLEAN /\ ready \in BOOLEAN /\ timer \in BOOLEAN

Queue == socket \in WebSocket \cup {None} /\ parked \in 0..MaxParked

Objects ==
    /\ readyState \in [WebSocket -> ReadyState]
    /\ settled \in [WebSocket -> BOOLEAN] /\ waiting \in [WebSocket -> BOOLEAN]

Rest ==
    /\ endpoint \in [WebSocket -> Endpoint]
    /\ wire \in [WebSocket -> Seq({"ready", "message"})]
    /\ late \subseteq WebSocket /\ calm \in BOOLEAN

Wires == TypeOK /\ Unopened /\ Written

Readiness == ReadyIsServed /\ NoneParkedOnline /\ LoggedOutIsOffline /\ EndedIsNotReady

\* A WebSocket that is being opened, or is open and not the channel, has a
\* handshake timer, unless that fired while it was being opened.
Watched ==
    \A s \in WebSocket :
        /\ readyState[s] = "connecting" => waiting[s] \/ s \in late
        /\ readyState[s] = "open" => waiting[s] \/ s \in late \/ (s = socket /\ ready)

\* A tab that is logged in has a WebSocket, or sets out to make one.
Retrying ==
    token => Logging \/ (socket \in WebSocket /\ (readyState[socket] = "ended" => timer))

Inv == Wires /\ Readiness /\ Watched /\ Retrying

-----------------------------------------------------------------------------
\* A new page has no WebSocket.
LEMMA InitInv == Init => Inv
<1>1. SUFFICES ASSUME Init PROVE Inv
  OBVIOUS
<1>2. \A s \in WebSocket : wire[s] = <<>> /\ wire[s] \in Seq({"ready", "message"})
  BY <1>1 DEF Init
<1>3. TypeOK
  <2>0. Forms
    BY <1>1 DEF Init, Forms, Progress
  <2>1. Flags
    BY <1>1 DEF Init, Flags
  <2>2. Queue
    BY <1>1 DEF Init, Queue
  <2>3. Objects
    BY <1>1 DEF Init, Objects, ReadyState
  <2>4. Rest
    BY <1>1, <1>2 DEF Init, Rest, Endpoint
  <2>5. QED
    BY <2>0, <2>1, <2>2, <2>3, <2>4 DEF TypeOK, Forms, Flags, Queue, Objects, Rest
<1>4. QED
  BY <1>1, <1>2, <1>3 DEF Init, Inv, Wires, Unopened, Written, ReadyIsServed, NoneParkedOnline,
     LoggedOutIsOffline, EndedIsNotReady, Readiness, Watched, Retrying

\* The first frame taken off what is on its way, or one more put behind it.
LEMMA Frames ==
    ASSUME NEW w \in Seq({"ready", "message"})
    PROVE  /\ w # <<>> => Tail(w) \in Seq({"ready", "message"})
           /\ Append(w, "message") \in Seq({"ready", "message"})
           /\ <<>> \in Seq({"ready", "message"})
           /\ <<"ready">> \in Seq({"ready", "message"})
  OBVIOUS

\* Every step keeps the types, and what is on the wire was written by a session
\* that was served.
LEMMA WiresStep == Wires /\ [Next]_vars => Wires'
<1>1. SUFFICES ASSUME Wires, [Next]_vars PROVE Wires'
  OBVIOUS
<1>2. TypeOK /\ Unopened /\ Written
  BY <1>1 DEF Wires
<1>3. ASSUME NEW f \in Form, Submit(f) \/ Grant(f) \/ Fail(f) \/ Show(f) PROVE Wires'
  <2>1. TypeOK'
    BY <1>2, <1>3 DEF Submit, Grant, Fail, Show, TypeOK, Progress, state, object, remote
  <2>2. Unopened' /\ Written'
    BY <1>2, <1>3 DEF Submit, Grant, Fail, Show, Unopened, Written, object, remote
  <2>3. QED
    BY <2>1, <2>2 DEF Wires
<1>3a. ASSUME NEW f \in Form, Enter(f) PROVE Wires'
  <2>1. TypeOK'
    <3>0. Forms'
      BY <1>2, <1>3a DEF Enter, TypeOK, Forms, Progress
    <3>1. Flags'
      BY <1>2, <1>3a DEF Enter, connectSocket, TypeOK, Flags
    <3>2. Queue'
      BY <1>2, <1>3a DEF Enter, connectSocket, TypeOK, Queue
    <3>3. Objects'
      BY <1>2, <1>3a DEF Enter, connectSocket, TypeOK, Objects, ReadyState, object
    <3>4. Rest'
      BY <1>2, <1>3a DEF Enter, TypeOK, Rest, remote
    <3>5. QED
      BY <3>0, <3>1, <3>2, <3>3, <3>4 DEF TypeOK, Forms, Flags, Queue, Objects, Rest
  <2>2. Unopened' /\ Written'
    BY <1>2, <1>3a DEF Enter, connectSocket, TypeOK, ReadyState, Unopened, Written, object, remote
  <2>3. QED
    BY <2>1, <2>2 DEF Wires
<1>4. CASE Reconnect
  <2>1. TypeOK'
    <3>0. Forms'
      BY <1>2, <1>4 DEF Reconnect, TypeOK, Forms, forms
    <3>1. Flags'
      BY <1>2, <1>4 DEF Reconnect, connectSocket, TypeOK, Flags
    <3>2. Queue'
      BY <1>2, <1>4 DEF Reconnect, connectSocket, TypeOK, Queue
    <3>3. Objects'
      BY <1>2, <1>4 DEF Reconnect, connectSocket, TypeOK, Objects, ReadyState, object
    <3>4. Rest'
      BY <1>2, <1>4 DEF Reconnect, TypeOK, Rest, remote
    <3>5. QED
      BY <3>0, <3>1, <3>2, <3>3, <3>4 DEF TypeOK, Forms, Flags, Queue, Objects, Rest
  <2>2. Unopened' /\ Written'
    BY <1>2, <1>4 DEF Reconnect, connectSocket, TypeOK, ReadyState, Unopened, Written, object, remote
  <2>3. QED
    BY <2>1, <2>2 DEF Wires
<1>5. CASE logout
  <2>1. TypeOK'
    <3>0. Forms'
      BY <1>2, <1>5 DEF logout, TypeOK, Forms, forms
    <3>1. Flags'
      BY <1>2, <1>5 DEF logout, TypeOK, Flags
    <3>2. Queue'
      BY <1>2, <1>5 DEF logout, TypeOK, Queue
    <3>3. Objects'
      BY <1>2, <1>5 DEF logout, TypeOK, Objects, ReadyState
    <3>4. Rest'
      BY <1>2, <1>5 DEF logout, TypeOK, Rest, remote
    <3>5. QED
      BY <3>0, <3>1, <3>2, <3>3, <3>4 DEF TypeOK, Forms, Flags, Queue, Objects, Rest
  <2>2. Unopened' /\ Written'
    BY <1>2, <1>5 DEF logout, TypeOK, ReadyState, Unopened, Written, remote
  <2>3. QED
    BY <2>1, <2>2 DEF Wires
<1>6. CASE Settle
  BY <1>2, <1>6 DEF Settle, Wires, TypeOK, Unopened, Written, state, object, remote, forms
<1>7. ASSUME NEW s \in WebSocket, OnOpen(s) PROVE Wires'
  BY <1>2, <1>7 DEF OnOpen, Wires, TypeOK, ReadyState, Endpoint, Unopened, Written, state, forms
<1>8. ASSUME NEW s \in WebSocket, OnReady(s) PROVE Wires'
  <2>1. TypeOK'
    <3>0. Forms'
      BY <1>2, <1>8 DEF OnReady, TypeOK, Forms, forms
    <3>1. Flags'
      BY <1>2, <1>8 DEF OnReady, TypeOK, Flags
    <3>2. Queue'
      BY <1>2, <1>8 DEF OnReady, TypeOK, Queue
    <3>3. Objects'
      BY <1>2, <1>8 DEF OnReady, TypeOK, Objects
    <3>4. Rest'
      BY <1>2, <1>8, Frames DEF OnReady, TypeOK, Rest
    <3>5. QED
      BY <3>0, <3>1, <3>2, <3>3, <3>4 DEF TypeOK, Forms, Flags, Queue, Objects, Rest
  <2>2. Unopened' /\ Written'
    BY <1>2, <1>8, Frames DEF OnReady, TypeOK, Unopened, Written
  <2>3. QED
    BY <2>1, <2>2 DEF Wires
<1>9. ASSUME NEW s \in WebSocket, OnMessage(s) PROVE Wires'
  BY <1>2, <1>9, Frames DEF OnMessage, Wires, TypeOK, Unopened, Written, object, forms
<1>10. ASSUME NEW s \in WebSocket, OnClose(s) PROVE Wires'
  <2>1. TypeOK'
    <3>0. Forms'
      BY <1>2, <1>10 DEF OnClose, Ended, TypeOK, Forms, forms
    <3>1. Flags'
      BY <1>2, <1>10 DEF OnClose, Ended, TypeOK, Flags
    <3>2. Queue'
      BY <1>2, <1>10 DEF OnClose, Ended, TypeOK, Queue
    <3>3. Objects'
      BY <1>2, <1>10 DEF OnClose, Ended, TypeOK, Objects, ReadyState
    <3>4. Rest'
      BY <1>2, <1>10, Frames DEF OnClose, Ended, TypeOK, Rest, Endpoint
    <3>5. QED
      BY <3>0, <3>1, <3>2, <3>3, <3>4 DEF TypeOK, Forms, Flags, Queue, Objects, Rest
  <2>2. Unopened' /\ Written'
    BY <1>2, <1>10, Frames DEF OnClose, Ended, TypeOK, Unopened, Written
  <2>3. QED
    BY <2>1, <2>2 DEF Wires
<1>11. ASSUME NEW s \in WebSocket, OnTimeout(s) PROVE Wires'
  BY <1>2, <1>11 DEF OnTimeout, FailHandshake, Wires, TypeOK, ReadyState, Unopened, Written, remote, forms
<1>12. ASSUME NEW s \in WebSocket, OnError(s) PROVE Wires'
  BY <1>2, <1>12 DEF OnError, FailHandshake, Wires, TypeOK, ReadyState, Unopened, Written, remote, forms
<1>13. ASSUME NEW s \in WebSocket, Serve(s) PROVE Wires'
  BY <1>2, <1>13, Frames DEF Serve, Wires, TypeOK, Endpoint, Unopened, Written, state, object, forms
<1>14. ASSUME NEW s \in WebSocket, Refuse(s) PROVE Wires'
  BY <1>2, <1>14 DEF Refuse, Wires, TypeOK, Endpoint, Unopened, Written, state, object, forms
<1>15. ASSUME NEW s \in WebSocket, Deliver(s) PROVE Wires'
  BY <1>2, <1>15, Frames DEF Deliver, Wires, TypeOK, Unopened, Written, state, object, forms
<1>16. ASSUME NEW s \in WebSocket, Drop(s) PROVE Wires'
  BY <1>2, <1>16, Frames DEF Drop, Wires, TypeOK, Endpoint, Unopened, Written, state, object, forms
<1>17. CASE UNCHANGED vars
  BY <1>2, <1>17 DEF vars, state, object, remote, Wires, TypeOK, Unopened, Written, forms
<1>18. QED
  BY <1>1, <1>3, <1>4, <1>5, <1>6, <1>7, <1>8, <1>9, <1>10, <1>11, <1>12, <1>13, <1>14, <1>15,
     <1>16, <1>17, <1>3a DEF Next, Event

\* Every step of the page, its listeners and the server keeps the three parts
\* of what socketReady says.
LEMMA ReadinessStep == Wires /\ Readiness /\ [Next]_vars => Readiness'
<1>1. SUFFICES ASSUME Wires, Readiness, [Next]_vars PROVE Readiness'
  OBVIOUS
<1>2. TypeOK /\ Unopened /\ Written /\ Readiness
  BY <1>1 DEF Wires
<1> USE DEF Readiness, ReadyIsServed, NoneParkedOnline, LoggedOutIsOffline, EndedIsNotReady,
           Logging, forms
<1>3. ASSUME NEW f \in Form, Submit(f) \/ Grant(f) \/ Fail(f) \/ Show(f) PROVE Readiness'
  BY <1>2, <1>3 DEF Submit, Grant, Fail, Show, TypeOK, Logging, state, object, remote
<1>3a. ASSUME NEW f \in Form, Enter(f) PROVE Readiness'
  BY <1>2, <1>3a DEF Enter, connectSocket, isSocketOpen, TypeOK, Logging, object, remote
<1>4. CASE Reconnect
  BY <1>2, <1>4 DEF Reconnect, connectSocket, object, remote
<1>5. CASE logout
  BY <1>5 DEF logout
<1>6. CASE Settle
  BY <1>2, <1>6 DEF Settle, state, object, remote
<1>7. ASSUME NEW s \in WebSocket, OnOpen(s) PROVE Readiness'
  BY <1>2, <1>7 DEF OnOpen, TypeOK, state
<1>8. ASSUME NEW s \in WebSocket, OnReady(s) PROVE Readiness'
  BY <1>2, <1>8 DEF OnReady, TypeOK, Written
<1>9. ASSUME NEW s \in WebSocket, OnMessage(s) PROVE Readiness'
  BY <1>2, <1>9 DEF OnMessage, object
<1>10. ASSUME NEW s \in WebSocket, OnClose(s) PROVE Readiness'
  BY <1>2, <1>10 DEF OnClose, Ended, TypeOK
<1>11. ASSUME NEW s \in WebSocket, OnTimeout(s) PROVE Readiness'
  BY <1>2, <1>11 DEF OnTimeout, FailHandshake, TypeOK, remote
<1>12. ASSUME NEW s \in WebSocket, OnError(s) PROVE Readiness'
  BY <1>2, <1>12 DEF OnError, FailHandshake, TypeOK, remote
<1>13. ASSUME NEW s \in WebSocket, Serve(s) PROVE Readiness'
  BY <1>2, <1>13 DEF Serve, TypeOK, state, object
<1>14. ASSUME NEW s \in WebSocket, Refuse(s) PROVE Readiness'
  BY <1>2, <1>14 DEF Refuse, TypeOK, state, object
<1>15. ASSUME NEW s \in WebSocket, Deliver(s) PROVE Readiness'
  BY <1>2, <1>15 DEF Deliver, state, object
<1>16. ASSUME NEW s \in WebSocket, Drop(s) PROVE Readiness'
  BY <1>2, <1>16 DEF Drop, TypeOK, state, object
<1>17. CASE UNCHANGED vars
  BY <1>2, <1>17 DEF vars, state, object, remote
<1>18. QED
  BY <1>1, <1>3, <1>4, <1>5, <1>6, <1>7, <1>8, <1>9, <1>10, <1>11, <1>12, <1>13, <1>14, <1>15,
     <1>16, <1>17, <1>3a DEF Next, Event

\* Every step leaves a timer, or an event that is due, behind.
LEMMA WatchStep == Wires /\ Readiness /\ Watched /\ Retrying /\ [Next]_vars => Watched' /\ Retrying'
<1> DEFINE Watch == Watched /\ Retrying
<1>1. SUFFICES ASSUME Wires, Readiness, Watched, Retrying, [Next]_vars PROVE Watch'
  OBVIOUS
<1>2. TypeOK /\ Unopened /\ Readiness /\ Watch
  BY <1>1 DEF Wires
<1> USE DEF Watched, Retrying, Logging, forms
<1>3. ASSUME NEW f \in Form, Submit(f) \/ Grant(f) \/ Fail(f) \/ Show(f) PROVE Watch'
  BY <1>2, <1>3 DEF Submit, Grant, Fail, Show, TypeOK, Logging, state, object, remote
<1>3a. ASSUME NEW f \in Form, Enter(f) PROVE Watch'
  BY <1>2, <1>3a DEF Enter, connectSocket, isSocketOpen, TypeOK, Logging, object, remote
<1>4. CASE Reconnect
  BY <1>2, <1>4 DEF Reconnect, connectSocket, isSocketOpen, TypeOK, object
<1>5. CASE logout
  BY <1>2, <1>5 DEF logout, TypeOK
<1>6. CASE Settle
  BY <1>2, <1>6 DEF Settle, state, object
<1>7. ASSUME NEW s \in WebSocket, OnOpen(s) PROVE Watch'
  BY <1>2, <1>7 DEF OnOpen, TypeOK, state
<1>8. ASSUME NEW s \in WebSocket, OnReady(s) PROVE Watch'
  BY <1>2, <1>8 DEF OnReady, TypeOK
<1>9. ASSUME NEW s \in WebSocket, OnMessage(s) PROVE Watch'
  BY <1>2, <1>9 DEF OnMessage, object
<1>10. ASSUME NEW s \in WebSocket, OnClose(s) PROVE Watch'
  BY <1>2, <1>10 DEF OnClose, Ended, TypeOK
<1>11. ASSUME NEW s \in WebSocket, OnTimeout(s) PROVE Watch'
  BY <1>2, <1>11 DEF OnTimeout, FailHandshake, TypeOK, Readiness, ReadyIsServed
<1>12. ASSUME NEW s \in WebSocket, OnError(s) PROVE Watch'
  BY <1>2, <1>12 DEF OnError, FailHandshake, TypeOK
<1>13. ASSUME NEW s \in WebSocket, Serve(s) PROVE Watch'
  BY <1>2, <1>13 DEF Serve, state, object
<1>14. ASSUME NEW s \in WebSocket, Refuse(s) PROVE Watch'
  BY <1>2, <1>14 DEF Refuse, state, object
<1>15. ASSUME NEW s \in WebSocket, Deliver(s) PROVE Watch'
  BY <1>2, <1>15 DEF Deliver, state, object
<1>16. ASSUME NEW s \in WebSocket, Drop(s) PROVE Watch'
  BY <1>2, <1>16 DEF Drop, state, object
<1>17. CASE UNCHANGED vars
  BY <1>2, <1>17 DEF vars, state, object
<1>18. QED
  BY <1>1, <1>3, <1>4, <1>5, <1>6, <1>7, <1>8, <1>9, <1>10, <1>11, <1>12, <1>13, <1>14, <1>15,
     <1>16, <1>17, <1>3a DEF Next, Event

\* The types, the wires, socketReady and what is due hold for ever.
LEMMA Invariance == Spec => []Inv
<1>1. Inv /\ [Next]_vars => Inv'
  BY WiresStep, ReadinessStep, WatchStep DEF Inv
<1>2. QED
  BY <1>1, InitInv, PTL DEF Spec

\* Every variable keeps its type; the queue of parked frames keeps its bound.
THEOREM ClientSocketTypeOK == Spec => []TypeOK
<1>1. Inv => TypeOK
  BY DEF Inv, Wires
<1>2. QED
  BY <1>1, Invariance, PTL

\* With any number of old WebSockets whose listeners and timers still run, and
\* of forms that fail while the tab is connected, the send button is enabled
\* only on a connection whose own handshake the server answered and whose close
\* event, as far as the tab has a token, has not fired; no parked frame is left
\* behind, and a tab that has logged out stays offline.
THEOREM ReadinessTellsTheTruth == Spec => []ReadinessIsTrue
<1>1. Inv => ReadinessIsTrue
  BY DEF Inv, Readiness, ReadinessIsTrue, OnlineIsAuthenticated, isSocketOpen, ReadyIsServed
<1>2. QED
  BY <1>1, Invariance, PTL

\* However the page, its forms and its old WebSockets interleave, a tab that is
\* logged in and cannot send has an event due that leads it on (980-989).
THEOREM OfflineTabsRetry == Spec => []OfflineIsWatched
<1>1. ASSUME Inv PROVE OfflineIsWatched
  <2>1. SUFFICES ASSUME token, ~isSocketOpen, ~Logging PROVE OfflineIsWatched
    BY DEF OfflineIsWatched
  <2>2. socket \in WebSocket /\ socket # None /\ readyState[socket] \in ReadyState
    BY <1>1, <2>1 DEF Inv, Retrying, Wires, TypeOK
  <2>3. readyState[socket] = "open" => ~ready
    BY <2>1, <2>2 DEF isSocketOpen
  <2>4. QED
    BY <1>1, <2>1, <2>2, <2>3 DEF Inv, Watched, Retrying, OfflineIsWatched, ReadyState
<1>2. QED
  BY <1>1, Invariance, PTL

\* A session that the server keeps for the tab is the channel that the tab shows
\* as open, or has a timer or a close event in the browser that ends it: none is
\* forgotten, whichever form took the token away.
THEOREM SessionsAreEnded == Spec => []SessionsAreWatched
<1>1. ASSUME Inv PROVE SessionsAreWatched
  <2>1. SUFFICES ASSUME NEW s \in WebSocket, endpoint[s] = "served", readyState[s] # "closing"
        PROVE  s \in late \/ waiting[s] \/ (s = socket /\ isSocketOpen)
    BY DEF SessionsAreWatched
  <2>2. readyState[s] = "open"
    BY <1>1, <2>1 DEF Inv, Wires, TypeOK, ReadyState, Unopened
  <2>3. s # None
    OBVIOUS
  <2>4. QED
    BY <1>1, <2>1, <2>2, <2>3 DEF Inv, Watched, isSocketOpen
<1>2. QED
  BY <1>1, Invariance, PTL
=============================================================================
