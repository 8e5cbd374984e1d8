---------------------------- MODULE LegacyServer ----------------------------
(***************************************************************************)
(* The registry of the TCP server, legacy/server.py: three dicts that the  *)
(* threads of all connections share without a lock.                        *)
(*                                                                         *)
(* One Socket is one connection and its thread; connections are never      *)
(* reused.  An access to a dict is atomic (the interpreter lock), two of   *)
(* them are not, so each action below is one access with what only its     *)
(* thread sees.  A client says hello once per connection and under one     *)
(* name (client_gui.py 257); the keys it publishes are those of its Socket.*)
(* The handlers of get_pubkey and send read the registry and change        *)
(* nothing: what they would answer is stated by the properties below.      *)
(***************************************************************************)
EXTENDS Naturals

CONSTANTS User, Socket, NoUser, NoSocket

ASSUME LegacyAssumption == NoUser \notin User /\ NoSocket \notin Socket

VARIABLES
    clients,          \* the user each socket registered as
    sockets_by_user,  \* the socket messages to a user go to
    pubkeys,          \* whose keys are published under a name
    pc, name,         \* each thread, and the username of its hello
    link,             \* whether the client is there
    roster, todo,     \* the list a thread is sending, and to whom yet
    shown,            \* the list each client was sent last
    replaced,         \* history: sockets whose route another one has taken
    crossed,          \* history: names routed while a thread was about to drop them
    clashed,          \* history: names two threads registered at once
    tangled           \* history: the last list was read while another was being sent

dicts    == <<clients, sockets_by_user, pubkeys>>
sending  == <<roster, todo, shown, tangled>>
history  == <<replaced, crossed, clashed>>
vars     == <<dicts, pc, name, link, sending, history>>

\* Where a thread is: readline (59), lines 84, 91, 92, 93, broadcast_users from
\* line 46 and from line 49 on, its sends, lines 142 and 143.
Point == {"off", "reading", "known", "claim", "route", "publish", "announce",
          "address", "telling", "check", "drop", "done"}

Named == {"known", "claim", "route", "publish", "check", "drop"}

Registering(s) == pc[s] \in {"known", "claim", "route", "publish"}
Telling(s)     == pc[s] \in {"address", "telling"}

Init ==
    /\ clients = [s \in Socket |-> NoUser]
    /\ sockets_by_user = [u \in User |-> NoSocket]
    /\ pubkeys = [u \in User |-> NoSocket]
    /\ pc = [s \in Socket |-> "off"]
    /\ name = [s \in Socket |-> NoUser]
    /\ link = [s \in Socket |-> "none"]
    /\ roster = [s \in Socket |-> {}]
    /\ todo = [s \in Socket |-> {}]
    /\ shown = [s \in Socket |-> {}]
    /\ replaced = {} /\ crossed = {} /\ clashed = {}
    /\ tangled = FALSE

Goto(s, point) == pc' = [pc EXCEPT ![s] = point]

\* sockets_by_user.keys()
Listed == {u \in User : sockets_by_user[u] # NoSocket}

-----------------------------------------------------------------------------
\* The clients.

\* Line 159: a connection is accepted and its thread started.
Accept(s) ==
    /\ pc[s] = "off"
    /\ Goto(s, "reading")
    /\ link' = [link EXCEPT ![s] = "up"]
    /\ UNCHANGED <<dicts, name, sending, history>>

Depart(s) ==
    /\ link[s] = "up"
    /\ link' = [link EXCEPT ![s] = "gone"]
    /\ shown' = [shown EXCEPT ![s] = {}]
    /\ UNCHANGED <<dicts, pc, name, roster, todo, tangled, history>>

-----------------------------------------------------------------------------
\* The handler of hello.  A frame that was sent is read even if its client left.

\* Lines 72-83.
Hello(s, u) ==
    /\ pc[s] = "reading" /\ clients[s] = NoUser
    /\ name' = [name EXCEPT ![s] = u]
    /\ Goto(s, IF sockets_by_user[u] # NoSocket THEN "known" ELSE "claim")
    /\ clashed' = clashed \cup {v \in {u} : \E t \in Socket : Registering(t) /\ name[t] = v}
    /\ UNCHANGED <<dicts, link, sending, replaced, crossed>>

\* Lines 84-89.  The lookup fails if the name was dropped since line 83, and the
\* thread ends (136).  close() of the old socket has no effect: the file that
\* its own thread made of it (56) keeps the connection open.
Previous(s) ==
    /\ pc[s] = "known"
    /\ IF sockets_by_user[name[s]] = NoSocket
       THEN Goto(s, "announce") /\ link' = [link EXCEPT ![s] = "gone"]
       ELSE Goto(s, "claim") /\ UNCHANGED link
    /\ UNCHANGED <<dicts, name, sending, history>>

\* Line 91.
Claim(s) ==
    /\ pc[s] = "claim"
    /\ clients' = [clients EXCEPT ![s] = name[s]]
    /\ Goto(s, "route")
    /\ UNCHANGED <<sockets_by_user, pubkeys, name, link, sending, history>>

\* Mutant: a name that is taken stays with the connection that has it.
RouteFirst(s) ==
    /\ pc[s] = "route"
    /\ sockets_by_user' = [sockets_by_user EXCEPT ![name[s]] = IF @ = NoSocket THEN s ELSE @]
    /\ Goto(s, "publish")
    /\ UNCHANGED <<clients, pubkeys, name, link, sending, history>>

\* Line 92.
Route(s) ==
    /\ pc[s] = "route"
    /\ sockets_by_user' = [sockets_by_user EXCEPT ![name[s]] = s]
    /\ replaced' = (replaced \cup {sockets_by_user[name[s]]}) \cap Socket
    /\ crossed' = crossed \cup {u \in {name[s]} : \E t \in Socket : pc[t] = "drop" /\ name[t] = u}
    /\ Goto(s, "publish")
    /\ UNCHANGED <<clients, pubkeys, name, link, sending, clashed>>

\* Mutant: keys are published once and for all.
PublishOnce(s) ==
    /\ pc[s] = "publish"
    /\ pubkeys' = [pubkeys EXCEPT ![name[s]] = IF @ = NoSocket THEN s ELSE @]
    /\ Goto(s, "announce")
    /\ UNCHANGED <<clients, sockets_by_user, name, link, sending, history>>

\* Line 93.
Publish(s) ==
    /\ pc[s] = "publish"
    /\ pubkeys' = [pubkeys EXCEPT ![name[s]] = s]
    /\ Goto(s, "announce")
    /\ UNCHANGED <<clients, sockets_by_user, name, link, sending, history>>

-----------------------------------------------------------------------------
\* broadcast_users, and the reply to get_users, which is a list to oneself.

\* The list is read (46, 101).
Read(s, point) ==
    /\ roster' = [roster EXCEPT ![s] = Listed]
    /\ Goto(s, point)
    /\ UNCHANGED <<dicts, name, link, shown, history>>

Overlaps == \E t \in Socket : Telling(t)

\* Lines 96-97 and 46.
Announce(s) ==
    /\ pc[s] = "announce"
    /\ Read(s, "address")
    /\ tangled' = Overlaps
    /\ UNCHANGED todo

\* Lines 99-101.
GetUsers(s) ==
    /\ pc[s] = "reading" /\ clients[s] # NoUser
    /\ Read(s, "telling")
    /\ tangled' = (tangled \/ Overlaps)
    /\ todo' = [todo EXCEPT ![s] = {s}]

\* A thread that has told everyone reads on, or returns if it was leaving.
After(s, rest) ==
    IF rest # {} THEN "telling" ELSE IF clients[s] = NoUser THEN "done" ELSE "reading"

\* Mutant: only the connections that have a route are told.
AddressRouted(s) ==
    /\ pc[s] = "address"
    /\ todo' = [todo EXCEPT ![s] = {t \in Socket : \E u \in User : clients[t] = u /\ sockets_by_user[u] = t}]
    /\ Goto(s, After(s, todo'[s]))
    /\ UNCHANGED <<dicts, name, link, roster, shown, tangled, history>>

\* Line 49.
Address(s) ==
    /\ pc[s] = "address"
    /\ todo' = [todo EXCEPT ![s] = {t \in Socket : clients[t] # NoUser}]
    /\ Goto(s, After(s, todo'[s]))
    /\ UNCHANGED <<dicts, name, link, roster, shown, tangled, history>>

\* send_json: a send that raises is logged, and the broadcast goes on (41).
Tell(s, t) ==
    /\ pc[s] = "telling" /\ t \in todo[s]
    /\ shown' = [shown EXCEPT ![t] = IF link[t] = "up" THEN roster[s] ELSE @]
    /\ todo' = [todo EXCEPT ![s] = @ \ {t}]
    /\ roster' = [roster EXCEPT ![s] = IF todo'[s] = {} THEN {} ELSE @]
    /\ Goto(s, After(s, todo'[s]))
    /\ UNCHANGED <<dicts, name, link, tangled, history>>

-----------------------------------------------------------------------------
\* The finally clause, lines 138-149.

\* Mutant: a connection that never said hello is cleaned up like the others.
FinishAny(s) ==
    /\ pc[s] = "reading" /\ link[s] = "gone"
    /\ clients' = [clients EXCEPT ![s] = NoUser]
    /\ Goto(s, "check")
    /\ UNCHANGED <<sockets_by_user, pubkeys, name, link, sending, history>>

\* Lines 60-62 and 139-140.
Finish(s) ==
    /\ pc[s] = "reading" /\ link[s] = "gone"
    /\ clients' = [clients EXCEPT ![s] = NoUser]
    /\ Goto(s, IF clients[s] = NoUser THEN "announce" ELSE "check")
    /\ UNCHANGED <<sockets_by_user, pubkeys, name, link, sending, history>>

\* Mutants: whatever route the name has is dropped; none is.
CheckNothing(s) ==
    /\ pc[s] = "check"
    /\ Goto(s, "drop")
    /\ UNCHANGED <<dicts, name, link, sending, history>>

CheckNever(s) ==
    /\ pc[s] = "check"
    /\ Goto(s, "announce")
    /\ UNCHANGED <<dicts, name, link, sending, history>>

\* Line 142.
Check(s) ==
    /\ pc[s] = "check"
    /\ Goto(s, IF sockets_by_user[name[s]] = s THEN "drop" ELSE "announce")
    /\ UNCHANGED <<dicts, name, link, sending, history>>

\* Mutant: the list is not sent again.
DropSilently(s) ==
    /\ pc[s] = "drop"
    /\ sockets_by_user' = [sockets_by_user EXCEPT ![name[s]] = NoSocket]
    /\ Goto(s, "done")
    /\ UNCHANGED <<clients, pubkeys, name, link, sending, history>>

\* Line 143.
Drop(s) ==
    /\ pc[s] = "drop"
    /\ sockets_by_user' = [sockets_by_user EXCEPT ![name[s]] = NoSocket]
    /\ Goto(s, "announce")
    /\ UNCHANGED <<clients, pubkeys, name, link, sending, history>>

Thread(s) ==
    \/ \E u \in User : Hello(s, u)
    \/ Previous(s) \/ Claim(s) \/ Route(s) \/ Publish(s)
    \/ Announce(s) \/ GetUsers(s) \/ Address(s) \/ (\E t \in Socket : Tell(s, t))
    \/ Finish(s) \/ Check(s) \/ Drop(s)

Next == \E s \in Socket : Accept(s) \/ Depart(s) \/ Thread(s)

Spec == Init /\ [][Next]_vars

-----------------------------------------------------------------------------
\* Every variable keeps its type; a thread that is at work on a name has one.
TypeOK ==
    /\ clients \in [Socket -> User \cup {NoUser}]
    /\ sockets_by_user \in [User -> Socket \cup {NoSocket}]
    /\ pubkeys \in [User -> Socket \cup {NoSocket}]
    /\ pc \in [Socket -> Point]
    /\ name \in [Socket -> User \cup {NoUser}]
    /\ link \in [Socket -> {"none", "up", "gone"}]
    /\ roster \in [Socket -> SUBSET User] /\ shown \in [Socket -> SUBSET User]
    /\ todo \in [Socket -> SUBSET Socket]
    /\ replaced \subseteq Socket /\ crossed \subseteq User /\ clashed \subseteq User
    /\ tangled \in BOOLEAN
    /\ \A s \in Socket : pc[s] \in Named => name[s] # NoUser

\* A name is listed, and messages to it are relayed, only while the connection
\* they go to is registered under it, or its thread is about to drop the route:
\* whatever threads race, nothing is sent to a connection that is gone for good.
RoutesAreLive ==
    \A u \in User, s \in Socket : sockets_by_user[u] = s =>
        name[s] = u /\ (clients[s] = u \/ pc[s] \in {"check", "drop"})

\* The newest connection of a user is never told to be offline: its route is
\* lost only if its thread wrote it between another's lines 142 and 143, which
\* then drops a route that is not its own.  A connection that was replaced has
\* lost its route too, but not, as line 82 has it, its connection.
ConnectedAreRouted ==
    \A s \in Socket :
        clients[s] # NoUser /\ pc[s] # "route" /\ s \notin replaced /\ clients[s] \notin crossed
            => sockets_by_user[clients[s]] = s

\* Routes and connections agree in both directions.
RoutesMatchConnections == RoutesAreLive /\ ConnectedAreRouted

\* The keys handed out for a user are those of the connection that messages to
\* it are relayed to, unless two threads registered the name at the same time.
KeysFollowRoute ==
    \A u \in User, s \in Socket :
        sockets_by_user[u] = s /\ pc[s] # "publish" /\ u \notin clashed => pubkeys[u] = s

\* When all threads wait for their clients, every registered client was last
\* sent the list of the names that are registered, unless the last list was
\* read while an earlier one was still being sent.
ListsHeal ==
    (\A s \in Socket : pc[s] \in {"off", "reading", "done"}) /\ ~tangled =>
        \A s \in Socket : clients[s] # NoUser /\ link[s] = "up" => shown[s] = Listed
=============================================================================
