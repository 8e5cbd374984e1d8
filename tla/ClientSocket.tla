---------------------------- MODULE ClientSocket ----------------------------
(***************************************************************************)
(* The life of a browser tab's WebSocket in frontend/app.js: connectSocket *)
(* with its listeners, its handshake promise, its two timers and the       *)
(* frames parked until the handshake completes, the two forms that log in  *)
(* and logout, against the part of the server's /ws endpoint that answers  *)
(* the handshake.  Which account a form logs into is in Accounts.          *)
(*                                                                         *)
(* Each WebSocket object keeps its listeners for as long as it lives, also *)
(* after state.socket has moved on to another.  state.socketGeneration     *)
(* changes exactly when state.socket does, so comparing one is comparing   *)
(* the other, and it is not modelled.                                      *)
(***************************************************************************)
EXTENDS Naturals, Sequences, FiniteSets

CONSTANTS
    Form,       \* the login and the registration form
    WebSocket,  \* WebSocket objects; one that has closed is used again
    MaxWire,    \* bound: frames on their way to one WebSocket
    MaxParked,  \* bound: frames in state.socketQueue
    Mishaps,    \* what may happen until the tab settles, see Mishap
    None

ASSUME ClientSocketAssumption ==
    /\ MaxWire \in Nat \ {0} /\ MaxParked \in Nat
    /\ Mishaps \subseteq {"drop", "slow", "refuse", "logout", "overlap"}
    /\ None \notin WebSocket

VARIABLES
    form,       \* how far the handler of each form is, see Progress
    inside,     \* the page shows app-view, not the forms (703, 1067)
    token,      \* state.token # null
    socket,     \* state.socket
    ready,      \* state.socketReady
    parked,     \* length of state.socketQueue
    timer,      \* a reconnection is due (985)
    readyState, \* of each WebSocket; "ended" once its close event has fired
    settled,    \* handshakeSettled
    waiting,    \* handshakeTimeout is pending
    endpoint,   \* the server's coroutine for it
    wire,       \* frames the server wrote that have not arrived
    late,       \* history: the handshake timer fired while still connecting
    calm        \* TRUE once nothing goes wrong any more

forms  == <<form, inside>>
state  == <<token, socket, ready, parked, timer>>
object == <<readyState, settled, waiting>>
remote == <<endpoint, wire>>
vars   == <<forms, state, object, remote, late, calm>>

\* "asking": up to line 632 or 682, where the token is kept; "granted": waiting
\* for /api/me; "entering": app-view is shown and the contacts are fetched (707).
Progress == {"idle", "asking", "granted", "entering"}

\* "closing": closed by the browser, or never opened; the close event is due.
ReadyState == {"ended", "connecting", "open", "closing"}

\* The server has yet to read an auth frame, with a token ("auth") or without
\* ("anonymous"); "served": it wrote ready and registered the session as the
\* user's route; "gone": it has closed the connection or never accepted it.
Endpoint == {"gone", "auth", "anonymous", "served"}

\* Connections break, take longer than the handshake timeout or are refused,
\* the user logs out, a form is submitted while the other one is at work.
Mishap(kind) == ~calm /\ kind \in Mishaps

isSocketOpen == socket # None /\ ready /\ readyState[socket] = "open"

\* A form that has the token will call connectSocket, or its catch clause runs.
Logging == \E f \in Form : form[f] \in {"granted", "entering"}

Init ==
    /\ form = [f \in Form |-> "idle"] /\ inside = FALSE
    /\ token = FALSE /\ socket = None /\ ready = FALSE /\ parked = 0 /\ timer = FALSE
    /\ readyState = [s \in WebSocket |-> "ended"]
    /\ settled = [s \in WebSocket |-> TRUE]
    /\ waiting = [s \in WebSocket |-> FALSE]
    /\ endpoint = [s \in WebSocket |-> "gone"]
    /\ wire = [s \in WebSocket |-> <<>>]
    /\ late = {}
    /\ calm = FALSE

-----------------------------------------------------------------------------
\* failHandshake of s; its finally clause stops the handshake timer (993).
FailHandshake(s) ==
    /\ settled' = [settled EXCEPT ![s] = TRUE]
    /\ waiting' = [waiting EXCEPT ![s] = FALSE]
    /\ ready' = IF ~settled[s] /\ socket = s THEN FALSE ELSE ready

\* Lines 904-917 with a WebSocket that is not in use.
connectSocket ==
    /\ ~isSocketOpen
    /\ \E s \in WebSocket :
          /\ readyState[s] = "ended" /\ ~waiting[s]
          /\ socket' = s
          /\ readyState' = [readyState EXCEPT ![s] = "connecting"]
          /\ settled' = [settled EXCEPT ![s] = FALSE]
          /\ waiting' = [waiting EXCEPT ![s] = TRUE]
    /\ ready' = FALSE /\ parked' = 0 /\ timer' = FALSE

-----------------------------------------------------------------------------
\* The forms and the buttons of the page.

\* Bound: a form is submitted only while there is a WebSocket left for it.
Spare(n) == Cardinality({s \in WebSocket : readyState[s] = "ended"}) > n

\* The button of a form is disabled while its handler runs (1165), that of the
\* other form is not.
Submit(f) ==
    LET busy == {g \in Form : form[g] # "idle"} IN
    /\ ~inside /\ f \notin busy /\ Spare(Cardinality(busy))
    /\ busy # {} => Mishap("overlap")
    /\ form' = [form EXCEPT ![f] = "asking"]
    /\ UNCHANGED <<inside, state, object, remote, late, calm>>

\* Lines 632 and 682: the account has answered and its identity is open.
Grant(f) ==
    /\ form[f] = "asking"
    /\ form' = [form EXCEPT ![f] = "granted"]
    /\ token' = TRUE
    /\ UNCHANGED <<inside, socket, ready, parked, timer, object, remote, late, calm>>

\* The catch clauses, 636-637 and 688-691, for what fails before line 703; they
\* clear state.token also when it is that of the other form.
Fail(f) ==
    /\ form[f] \in {"asking", "granted"}
    /\ form' = [form EXCEPT ![f] = "idle"]
    /\ token' = FALSE
    /\ UNCHANGED <<inside, socket, ready, parked, timer, object, remote, late, calm>>

\* Lines 703-704, when /api/me has answered.
Show(f) ==
    /\ form[f] = "granted"
    /\ form' = [form EXCEPT ![f] = "entering"]
    /\ inside' = TRUE
    /\ UNCHANGED <<state, object, remote, late, calm>>

\* Line 709, whose errors are caught (710); connectSocket returns at once
\* without a token (905) and with an open channel (906).
Enter(f) ==
    /\ form[f] = "entering"
    /\ form' = [form EXCEPT ![f] = "idle"]
    /\ \/ token /\ connectSocket
       \/ (~token \/ isSocketOpen) /\ UNCHANGED <<socket, ready, parked, timer, object>>
    /\ UNCHANGED <<inside, token, remote, late, calm>>

\* The timer of line 985 fires; without a token connectSocket returns.
Reconnect ==
    /\ timer
    /\ \/ token /\ connectSocket
       \/ ~token /\ timer' = FALSE /\ UNCHANGED <<socket, ready, parked, object>>
    /\ UNCHANGED <<forms, token, remote, late, calm>>

\* Line 1065: the state changes before the close event fires.
logout ==
    /\ Mishap("logout") /\ inside
    /\ inside' = FALSE
    /\ token' = FALSE /\ socket' = None /\ ready' = FALSE /\ parked' = 0 /\ timer' = FALSE
    /\ readyState' = [s \in WebSocket |->
          IF s = socket /\ readyState[s] # "ended" THEN "closing" ELSE readyState[s]]
    /\ UNCHANGED <<form, settled, waiting, remote, late, calm>>

-----------------------------------------------------------------------------
\* The listeners of one WebSocket.

\* Line 967: the auth frame carries the token of the moment, if any.
OnOpen(s) ==
    /\ readyState[s] = "connecting"
    /\ readyState' = [readyState EXCEPT ![s] = "open"]
    /\ endpoint' = [endpoint EXCEPT ![s] = IF token THEN "auth" ELSE "anonymous"]
    /\ UNCHANGED <<forms, state, settled, waiting, wire, late, calm>>

\* The connection is refused: the error event (974), the close event to come.
OnError(s) ==
    /\ Mishap("refuse") /\ readyState[s] = "connecting"
    /\ readyState' = [readyState EXCEPT ![s] = "closing"]
    /\ IF socket = s /\ token THEN FailHandshake(s)
       ELSE UNCHANGED <<settled, waiting, ready>>
    /\ UNCHANGED <<forms, token, socket, parked, timer, remote, late, calm>>

\* Mutant of OnReady: without the test of the current socket.
OnReadyAnySocket(s) ==
    /\ readyState[s] = "open" /\ wire[s] # <<>> /\ Head(wire[s]) = "ready"
    /\ wire' = [wire EXCEPT ![s] = Tail(@)]
    /\ IF settled[s] \/ ~token
       THEN UNCHANGED <<settled, waiting, ready, parked>>
       ELSE /\ settled' = [settled EXCEPT ![s] = TRUE]
            /\ waiting' = [waiting EXCEPT ![s] = FALSE]
            /\ ready' = TRUE /\ parked' = 0
    /\ UNCHANGED <<forms, token, socket, timer, readyState, endpoint, late, calm>>

\* completeHandshake (932): an old socket, or one whose handshake has failed,
\* changes nothing; else what was parked is handled.
OnReady(s) ==
    /\ readyState[s] = "open" /\ wire[s] # <<>> /\ Head(wire[s]) = "ready"
    /\ wire' = [wire EXCEPT ![s] = Tail(@)]
    /\ IF settled[s] \/ socket # s \/ ~token
       THEN UNCHANGED <<settled, waiting, ready, parked>>
       ELSE /\ settled' = [settled EXCEPT ![s] = TRUE]
            /\ waiting' = [waiting EXCEPT ![s] = FALSE]
            /\ ready' = TRUE /\ parked' = 0
    /\ UNCHANGED <<forms, token, socket, timer, readyState, endpoint, late, calm>>

\* Mutant of OnMessage: parks also once the handshake is complete.
OnMessageParking(s) ==
    /\ readyState[s] = "open" /\ wire[s] # <<>> /\ Head(wire[s]) = "message"
    /\ wire' = [wire EXCEPT ![s] = Tail(@)]
    /\ ~ready => parked < MaxParked
    /\ parked' = parked + 1
    /\ UNCHANGED <<forms, token, socket, ready, timer, object, endpoint, late, calm>>

\* Lines 959-965: parked until the handshake completes, or handled.
OnMessage(s) ==
    /\ readyState[s] = "open" /\ wire[s] # <<>> /\ Head(wire[s]) = "message"
    /\ wire' = [wire EXCEPT ![s] = Tail(@)]
    /\ ~ready => parked < MaxParked
    /\ parked' = IF ready THEN parked ELSE parked + 1
    /\ UNCHANGED <<forms, token, socket, ready, timer, object, endpoint, late, calm>>

\* What the browser and the network do when the connection of s is over.
Ended(s) ==
    /\ readyState[s] = "closing" \/ (readyState[s] = "open" /\ endpoint[s] = "gone")
    /\ readyState' = [readyState EXCEPT ![s] = "ended"]
    /\ endpoint' = [endpoint EXCEPT ![s] = "gone"]
    /\ wire' = [wire EXCEPT ![s] = <<>>]
    /\ late' = late \ {s}
    /\ UNCHANGED <<forms, token, socket, calm>>

\* Mutant of OnClose: no timer is set.
OnCloseForGood(s) ==
    /\ Ended(s)
    /\ IF socket = s /\ token
       THEN /\ ready' = FALSE /\ parked' = 0
            /\ settled' = [settled EXCEPT ![s] = TRUE]
            /\ waiting' = [waiting EXCEPT ![s] = FALSE]
       ELSE UNCHANGED <<ready, parked, settled, waiting>>
    /\ UNCHANGED timer

\* Lines 978-985; the listener of a socket that is no longer current returns.
OnClose(s) ==
    /\ Ended(s)
    /\ IF socket = s /\ token
       THEN /\ ready' = FALSE /\ parked' = 0 /\ timer' = TRUE
            /\ settled' = [settled EXCEPT ![s] = TRUE]
            /\ waiting' = [waiting EXCEPT ![s] = FALSE]
       ELSE UNCHANGED <<ready, parked, timer, settled, waiting>>

\* Mutant of OnTimeout: does not close the WebSocket.
OnTimeoutKeeping(s) ==
    /\ waiting[s]
    /\ readyState[s] = "connecting" \/ (readyState[s] = "open" /\ socket = s) => Mishap("slow")
    /\ FailHandshake(s)
    /\ late' = IF readyState[s] = "connecting" THEN late \cup {s} ELSE late
    /\ UNCHANGED <<forms, token, socket, parked, timer, readyState, remote, calm>>

\* Line 987, ten seconds later: a socket still connecting is left alone (989).
OnTimeout(s) ==
    /\ waiting[s]
    /\ readyState[s] = "connecting" \/ (readyState[s] = "open" /\ socket = s) => Mishap("slow")
    /\ FailHandshake(s)
    /\ readyState' = IF readyState[s] = "open" THEN [readyState EXCEPT ![s] = "closing"]
                     ELSE readyState
    /\ late' = IF readyState[s] = "connecting" THEN late \cup {s} ELSE late
    /\ UNCHANGED <<forms, token, socket, parked, timer, remote, calm>>

-----------------------------------------------------------------------------
\* The server and the network.

\* Lines 467-509 of app/main.py: the token is valid.  The user's other session,
\* if any, is closed with code 4001.
Serve(s) ==
    /\ endpoint[s] = "auth"
    /\ endpoint' = [x \in WebSocket |-> IF x = s THEN "served"
                                        ELSE IF endpoint[x] = "served" THEN "gone" ELSE endpoint[x]]
    /\ wire' = [wire EXCEPT ![s] = <<"ready">>]
    /\ UNCHANGED <<forms, state, object, late, calm>>

\* Lines 496-498: there was no token, it expired, or the frame came too late.
Refuse(s) ==
    /\ endpoint[s] = "anonymous" \/ (endpoint[s] = "auth" /\ Mishap("refuse"))
    /\ endpoint' = [endpoint EXCEPT ![s] = "gone"]
    /\ UNCHANGED <<forms, state, object, wire, late, calm>>

\* _deliver writes to the route.
Deliver(s) ==
    /\ ~calm /\ endpoint[s] = "served" /\ Len(wire[s]) < MaxWire
    /\ wire' = [wire EXCEPT ![s] = Append(@, "message")]
    /\ UNCHANGED <<forms, state, object, endpoint, late, calm>>

\* The server restarts or the connection breaks.
Drop(s) ==
    /\ Mishap("drop") /\ readyState[s] = "open" /\ endpoint[s] # "gone"
    /\ endpoint' = [endpoint EXCEPT ![s] = "gone"]
    /\ wire' = [wire EXCEPT ![s] = <<>>]
    /\ UNCHANGED <<forms, state, object, late, calm>>

Settle == calm' = TRUE /\ UNCHANGED <<forms, state, object, remote, late>>

Event(s) == OnOpen(s) \/ OnReady(s) \/ OnMessage(s) \/ OnClose(s) \/ OnTimeout(s)

Next ==
    \/ Reconnect \/ logout \/ Settle
    \/ \E f \in Form : Submit(f) \/ Grant(f) \/ Fail(f) \/ Show(f) \/ Enter(f)
    \/ \E s \in WebSocket : \/ Event(s) \/ OnError(s)
                            \/ Serve(s) \/ Refuse(s) \/ Deliver(s) \/ Drop(s)

Spec == Init /\ [][Next]_vars

\* Timers fire, events that are due are dispatched, and the server answers, a
\* form's requests with success or an error; a handshake in progress completes
\* before its timeout once the tab is settled.
Fairness ==
    /\ WF_vars(Settle) /\ WF_vars(Reconnect)
    /\ \A f \in Form : /\ WF_vars(Grant(f) \/ Fail(f)) /\ WF_vars(Show(f) \/ Fail(f))
                      /\ WF_vars(Enter(f))
    /\ \A s \in WebSocket :
          /\ WF_vars(OnOpen(s)) /\ WF_vars(OnReady(s)) /\ WF_vars(OnMessage(s)) /\ WF_vars(OnClose(s))
          /\ WF_vars(OnTimeout(s)) /\ WF_vars(Serve(s)) /\ WF_vars(Refuse(s))

FairSpec == Spec /\ Fairness

-----------------------------------------------------------------------------
\* Every variable keeps its type.
TypeOK ==
    /\ form \in [Form -> Progress] /\ inside \in BOOLEAN
    /\ token \in BOOLEAN /\ socket \in WebSocket \cup {None} /\ ready \in BOOLEAN
    /\ parked \in 0..MaxParked /\ timer \in BOOLEAN
    /\ readyState \in [WebSocket -> ReadyState]
    /\ settled \in [WebSocket -> BOOLEAN] /\ waiting \in [WebSocket -> BOOLEAN]
    /\ endpoint \in [WebSocket -> Endpoint]
    /\ wire \in [WebSocket -> Seq({"ready", "message"})]
    /\ late \subseteq WebSocket /\ calm \in BOOLEAN

\* isSocketOpen() means that the handshake of state.socket itself completed,
\* never that of a socket that state.socket has left behind: the send button is
\* not enabled on a connection that the server has not authenticated.
OnlineIsAuthenticated == isSocketOpen => endpoint[socket] \in {"served", "gone"}

\* Frames are parked only as long as the handshake is not complete: none stays
\* behind that nobody would handle when completeHandshake empties the queue.
NoneParkedOnline == ready => parked = 0

\* After a logout nothing comes back: no timer reconnects, and no late close or
\* ready event of an old socket makes the tab look connected (979, 933).
LoggedOutIsOffline == socket = None => ~ready /\ ~timer

\* A connection whose close event has fired is not taken for a usable one, but
\* where a form that failed has taken the token away (637, 689): its listener
\* then returned at line 979, and state.socketReady stays until the next login.
EndedIsNotReady == ready /\ token => readyState[socket] # "ended" \/ Logging

\* state.socketReady, on which the send button depends, tells the truth of the
\* channel, whichever listeners and timers of old WebSockets run.
ReadinessIsTrue ==
    /\ OnlineIsAuthenticated
    /\ NoneParkedOnline
    /\ LoggedOutIsOffline
    /\ EndedIsNotReady

\* Nothing waits for ever for an event that is not due: while a tab that is
\* logged in cannot send, its WebSocket has a handshake timer or a close event
\* to come, or a reconnection is due, unless it opened late (989) or a form is
\* about to call connectSocket.
OfflineIsWatched ==
    token /\ ~isSocketOpen =>
        \/ Logging
        \/ /\ socket \in WebSocket
           /\ \/ socket \in late \/ waiting[socket] \/ readyState[socket] = "closing"
              \/ readyState[socket] = "ended" /\ timer

\* A session that the server keeps for the tab is its channel, with or without a
\* token, or one that a handshake timer or a close event is going to end, unless
\* it opened late.
SessionsAreWatched ==
    \A s \in WebSocket : endpoint[s] = "served" =>
        \/ s \in late \/ waiting[s] \/ readyState[s] = "closing"
        \/ s = socket /\ isSocketOpen

\* A session that the tab has left behind, by a logout or because another login
\* replaced state.socket while it was being opened, ends at the server too; one
\* that opened after its handshake timer had fired has nobody left to close it
\* (989).  A form that fails does not leave state.socket, it only clears the
\* token: that session goes on until the user logs out.
LeftSessionsEnd ==
    \A s \in WebSocket :
        endpoint[s] = "served" /\ s # socket ~> endpoint[s] # "served" \/ s \in late

\* "Wait until it is available again" (880): a tab that stays logged in gets a
\* connection it can send on, unless its WebSocket opened after the handshake
\* timer had fired: that one is neither used nor replaced.
OnlineOrLate == token ~> isSocketOpen \/ ~token \/ socket \in late
=============================================================================
