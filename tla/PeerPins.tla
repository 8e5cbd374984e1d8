------------------------------ MODULE PeerPins ------------------------------
(***************************************************************************)
(* Contacts, their pinned keys and the messages sent to them, in one page  *)
(* of frontend/app.js: loadPeer, selectPeer, renderActivePeer, the button  *)
(* that marks a fingerprint as verified, and handleSendMessage.            *)
(*                                                                         *)
(* Every action is one stretch of JavaScript between two awaits.  A peer   *)
(* object is made by one call of loadPeer and shared by reference, so the  *)
(* call is its name: state.peers, state.activePeer, the listener of the    *)
(* verify button and a message being encrypted may each hold another       *)
(* object of the same contact.  Pins live in IndexedDB, whose transactions *)
(* on a store run in the order they are created; they survive a reload.    *)
(* The channel is connected throughout; ClientSocket is about its absence. *)
(***************************************************************************)
EXTENDS Naturals, Sequences, FiniteSets

CONSTANTS
    Peer,       \* contacts
    Key,        \* pairs of public keys
    Call,       \* calls of loadPeer, and the objects they make
    Sender,     \* concurrent calls of handleSendMessage
    Failures,   \* requests and IndexedDB may fail
    Unpinned, NoCall, NoPeer, NoKey

ASSUME PinsAssumption ==
    /\ Failures \in BOOLEAN
    /\ Unpinned \notin [key : Key, verified : BOOLEAN]
    /\ NoCall \notin Call /\ NoPeer \notin Peer /\ NoKey \notin Key

VARIABLES
    serving,    \* the keys the server has for each contact
    listed,     \* those of the contact list, from the last refreshUsers
    pins,       \* the peers store of IndexedDB
    pc, kind,   \* where each call of loadPeer is, and who made it
    of, key, verified,  \* the contact, keys and flag of its object
    peers,      \* state.peers
    active,     \* state.activePeer
    title,      \* the contact whose name heads the chat
    enabled,    \* the composer accepts a message
    offered,    \* the object the verify button would mark
    puts,       \* puts under way, of a call of loadPeer or of the verify button
    writing,    \* per call of handleSendMessage the object it encrypts for
    sent,       \* history: the message last written to the socket
    confirmed,  \* history: contacts and keys whose fingerprint the user confirmed
    serial      \* history: users and messages have waited for calls of loadPeer

server  == <<serving, listed>>
loads   == <<pc, kind, of, key, verified>>
display == <<active, title, enabled, offered>>
log     == <<sent, confirmed>>
vars    == <<server, pins, loads, peers, display, puts, writing, log, serial>>

\* "fetch": awaits the keys (516); "read": awaits the pin (521) or the digest
\* (529), "clash": awaits a pin with other keys; "put": awaits the put (532);
\* "made": the object exists.
Stage == {"idle", "fetch", "read", "clash", "put", "made"}

Pin     == [key : Key, verified : BOOLEAN]
Write   == [by : {"load", "mark"}, call : Call]
Message == [to : Peer, key : Key, recipient : Peer]

Init ==
    /\ serving \in [Peer -> Key] /\ listed = serving
    /\ pins = [p \in Peer |-> Unpinned]
    /\ pc = [c \in Call |-> "idle"]
    /\ kind = [c \in Call |-> "select"]
    /\ of = [c \in Call |-> NoPeer]
    /\ key = [c \in Call |-> NoKey]
    /\ verified = [c \in Call |-> FALSE]
    /\ peers = [p \in Peer |-> NoCall]
    /\ active = NoCall /\ title = NoPeer /\ enabled = FALSE /\ offered = NoCall
    /\ puts = <<>>
    /\ writing = [s \in Sender |-> NoCall]
    /\ sent = {} /\ confirmed = {} /\ serial = TRUE

\* No call of loadPeer is under way; what happens now is in line or overtakes one.
Idle   == \A c \in Call : pc[c] \in {"idle", "made"}
InLine == serial' = (serial /\ Idle)

-----------------------------------------------------------------------------
\* The server.  A contact's keys change when the account is created anew.

Rotate(p) ==
    /\ \E k \in Key : serving' = [serving EXCEPT ![p] = k]
    /\ UNCHANGED <<listed, pins, loads, peers, display, puts, writing, log, serial>>

refreshUsers ==
    /\ listed' = serving
    /\ UNCHANGED <<serving, pins, loads, peers, display, puts, writing, log, serial>>

-----------------------------------------------------------------------------
\* loadPeer.

Pinned(p) == pins[p] # Unpinned

\* Mutant: the pinned keys are not compared.
MatchesAnything(p, k) == TRUE

\* Line 522.
Matches(p, k) == Pinned(p) => pins[p].key = k

\* Line 521 reads the pin of p in call c, which got keys k.
Read(c, p, k) ==
    /\ pc' = [pc EXCEPT ![c] = IF Matches(p, k) THEN "read" ELSE "clash"]
    /\ of' = [of EXCEPT ![c] = p]
    /\ key' = [key EXCEPT ![c] = k]
    /\ verified' = [verified EXCEPT ![c] = Pinned(p) /\ pins[p].verified]

\* Mutant: the contact becomes the active one before it is loaded.
selectPeerEarly(c, p) ==
    /\ InLine /\ pc[c] = "idle"
    /\ kind' = [kind EXCEPT ![c] = "select"]
    /\ Read(c, p, listed[p])
    /\ title' = p /\ enabled' = FALSE /\ active' = c
    /\ UNCHANGED <<server, pins, peers, offered, puts, writing, log>>

\* Lines 769-780: a contact is clicked; the keys are those of the list.
selectPeer(c, p) ==
    /\ InLine /\ pc[c] = "idle"
    /\ kind' = [kind EXCEPT ![c] = "select"]
    /\ Read(c, p, listed[p])
    /\ title' = p /\ enabled' = FALSE
    /\ UNCHANGED <<server, pins, peers, active, offered, puts, writing, log>>

\* Line 1029: a message from p arrives, and p has not been loaded.
Incoming(c, p) ==
    /\ InLine /\ pc[c] = "idle" /\ peers[p] = NoCall
    /\ pc' = [pc EXCEPT ![c] = "fetch"]
    /\ kind' = [kind EXCEPT ![c] = "incoming"]
    /\ of' = [of EXCEPT ![c] = p]
    /\ UNCHANGED <<server, pins, key, verified, peers, display, puts, writing, log>>

\* The call failed, and nothing refers to its object.
Drop(c) ==
    /\ pc' = [pc EXCEPT ![c] = "idle"] /\ kind' = [kind EXCEPT ![c] = "select"]
    /\ of' = [of EXCEPT ![c] = NoPeer] /\ key' = [key EXCEPT ![c] = NoKey]
    /\ verified' = [verified EXCEPT ![c] = FALSE]

\* The server answers with the keys it has (516), or not.
Answer(c) ==
    /\ pc[c] = "fetch"
    /\ \/ Read(c, of[c], serving[of[c]]) /\ UNCHANGED kind
       \/ Failures /\ Drop(c)
    /\ UNCHANGED <<server, pins, peers, display, puts, writing, log, serial>>

\* Mutant: the contact that was active before stays so.
RefuseSilently(c) ==
    /\ pc[c] = "clash" \/ (pc[c] = "read" /\ Failures)
    /\ Drop(c)
    /\ UNCHANGED <<server, pins, peers, display, puts, writing, log, serial>>

\* The pin has other keys (523), or IndexedDB fails: lines 783-785 if a click
\* made the call.
Refuse(c) ==
    /\ pc[c] = "clash" \/ (pc[c] = "read" /\ Failures)
    /\ Drop(c)
    /\ active' = IF kind[c] = "select" THEN NoCall ELSE active
    /\ UNCHANGED <<server, pins, peers, title, enabled, offered, puts, writing, log, serial>>

\* Lines 525-532: the object and the pin.
Put(c) ==
    /\ pc[c] = "read"
    /\ pc' = [pc EXCEPT ![c] = "put"]
    /\ pins' = [pins EXCEPT ![of[c]] = [key |-> key[c], verified |-> verified[c]]]
    /\ puts' = Append(puts, [by |-> "load", call |-> c])
    /\ UNCHANGED <<server, kind, of, key, verified, peers, display, writing, log, serial>>

\* The oldest put under way is that of write w.
Completes(w) == puts # <<>> /\ Head(puts) = w /\ puts' = Tail(puts)

\* renderActivePeer with the objects of the next state (791).
Rendered ==
    IF active' = NoCall
    THEN UNCHANGED <<enabled, offered>>
    ELSE /\ enabled' = verified'[active']
         /\ offered' = IF verified'[active'] THEN NoCall ELSE active'

\* Line 533, and lines 780-782 if a click made the call.
Made(c) ==
    /\ Completes([by |-> "load", call |-> c])
    /\ pc' = [pc EXCEPT ![c] = "made"]
    /\ peers' = [peers EXCEPT ![of[c]] = c]
    /\ verified' = verified
    /\ IF kind[c] = "select" THEN active' = c /\ Rendered
       ELSE UNCHANGED <<active, enabled, offered>>
    /\ UNCHANGED <<server, pins, kind, of, key, title, writing, log, serial>>

-----------------------------------------------------------------------------
\* The user.

\* The button of the object c is clicked; bound: not while its put is under way.
\* The flag is set before the put is awaited (833), and stays if the put fails.
Click(c) ==
    /\ InLine /\ c # NoCall /\ \A n \in 1..Len(puts) : puts[n] # [by |-> "mark", call |-> c]
    /\ verified' = [verified EXCEPT ![c] = TRUE]
    /\ confirmed' = confirmed \cup {<<of[c], key[c]>>}
    /\ UNCHANGED <<server, pc, kind, of, key, peers, display, writing, sent>>

\* Lines 832-834: the user has compared the fingerprint that is displayed.
Mark ==
    /\ Click(offered)
    /\ pins' = [pins EXCEPT ![of[offered]] = [key |-> key[offered], verified |-> TRUE]]
    /\ puts' = Append(puts, [by |-> "mark", call |-> offered])

\* Line 834 throws: lines 835-838 are not reached, and nothing undoes line 833.
MarkFails ==
    /\ Failures /\ Click(offered)
    /\ UNCHANGED <<pins, puts>>

\* Lines 835-836.
Marked(c) ==
    /\ Completes([by |-> "mark", call |-> c])
    /\ peers' = [peers EXCEPT ![of[c]] = c]
    /\ UNCHANGED <<active, title, verified>> /\ Rendered
    /\ UNCHANGED <<server, pins, pc, kind, of, key, writing, log, serial>>

\* Mutant: the flag of the object is not tested (874).
SubmitAny(s) ==
    /\ writing[s] = NoCall /\ active # NoCall
    /\ writing' = [writing EXCEPT ![s] = active]
    /\ UNCHANGED <<server, pins, loads, peers, display, puts, log, serial>>

\* Lines 870-885, up to the first await of encryptMessage.
Submit(s) ==
    /\ writing[s] = NoCall /\ enabled /\ active # NoCall /\ verified[active]
    /\ writing' = [writing EXCEPT ![s] = active]
    /\ UNCHANGED <<server, pins, loads, peers, display, puts, log, serial>>

\* Lines 886-896: state.activePeer is read again; if it is null nothing is sent.
Send(s) ==
    /\ writing[s] # NoCall
    /\ sent' = IF active = NoCall THEN sent
               ELSE {[to |-> of[writing[s]], key |-> key[writing[s]], recipient |-> of[active]]}
    /\ writing' = [writing EXCEPT ![s] = NoCall]
    /\ UNCHANGED <<active, title, verified>> /\ Rendered
    /\ UNCHANGED <<server, pins, pc, kind, of, key, peers, puts, confirmed, serial>>

\* completeHandshake and the close listener call renderActivePeer too (937, 984).
Reconnected ==
    /\ UNCHANGED <<active, title, verified>> /\ Rendered
    /\ UNCHANGED <<server, pins, pc, kind, of, key, peers, puts, writing, log, serial>>

\* Logout (1050) and the next login: calls that are under way go on, and their
\* objects enter the new session.
Relogin ==
    /\ InLine
    /\ listed' = serving
    /\ peers' = [p \in Peer |-> NoCall]
    /\ active' = NoCall /\ enabled' = FALSE
    /\ UNCHANGED <<serving, pins, loads, title, offered, puts, writing, log>>

\* The page is loaded again; enterApp fetches the list.
Reload ==
    /\ listed' = serving
    /\ pc' = [c \in Call |-> "idle"] /\ kind' = [c \in Call |-> "select"]
    /\ of' = [c \in Call |-> NoPeer] /\ key' = [c \in Call |-> NoKey]
    /\ verified' = [c \in Call |-> FALSE]
    /\ peers' = [p \in Peer |-> NoCall]
    /\ active' = NoCall /\ title' = NoPeer /\ enabled' = FALSE /\ offered' = NoCall
    /\ puts' = <<>>
    /\ writing' = [s \in Sender |-> NoCall]
    /\ UNCHANGED <<serving, pins, log, serial>>

Load(c) == Answer(c) \/ Refuse(c) \/ Put(c) \/ Made(c)

Next ==
    \/ refreshUsers \/ Mark \/ MarkFails \/ Reconnected \/ Relogin \/ Reload
    \/ \E p \in Peer : Rotate(p)
    \/ \E c \in Call : Load(c) \/ Marked(c) \/ \E p \in Peer : selectPeer(c, p) \/ Incoming(c, p)
    \/ \E s \in Sender : Submit(s) \/ Send(s)

Spec == Init /\ [][Next]_vars

-----------------------------------------------------------------------------
\* Every variable keeps its type; an object that is in use has been made.
Object == {c \in Call : pc[c] = "made"}

TypeOK ==
    /\ serving \in [Peer -> Key] /\ listed \in [Peer -> Key]
    /\ pins \in [Peer -> Pin \cup {Unpinned}]
    /\ pc \in [Call -> Stage] /\ kind \in [Call -> {"select", "incoming"}]
    /\ of \in [Call -> Peer \cup {NoPeer}] /\ key \in [Call -> Key \cup {NoKey}] /\ verified \in [Call -> BOOLEAN]
    /\ peers \in [Peer -> Object \cup {NoCall}]
    /\ active \in Object \cup {NoCall} /\ offered \in Object \cup {NoCall}
    /\ title \in Peer \cup {NoPeer} /\ enabled \in BOOLEAN
    /\ puts \in Seq(Write)
    /\ writing \in [Sender -> Object \cup {NoCall}]
    /\ sent \subseteq Message /\ confirmed \subseteq Peer \X Key /\ serial \in BOOLEAN

\* Whatever loads, reloads and key changes overlap, a message leaves the page
\* encrypted only under keys of its addressee that the user has confirmed.
SentUnderConfirmedKeys == \A m \in sent : <<m.to, m.key>> \in confirmed

\* What is pinned as verified was confirmed, also after pins were overwritten.
PinsAreConfirmed == \A p \in Peer : Pinned(p) /\ pins[p].verified => <<p, pins[p].key>> \in confirmed

\* "No silent replacement" (OPERATIONS 163): keys that were pinned stay pinned,
\* as long as nothing overtakes a call of loadPeer.  Two first loads of a contact
\* that overlap both read no pin, and the second put replaces the first.
SerialPinsStay ==
    [][serial => \A p \in Peer : Pinned(p) => pins'[p] # Unpinned /\ pins'[p].key = pins[p].key]_vars

\* "This identity is pinned locally and was marked as verified by you" (801): as
\* long as nothing overtakes a call of loadPeer that has read its pin, the keys of
\* the active contact are those pinned; the panel calls them verified if the pin
\* does, and only if the user confirmed them.  The pin need not say so: its put
\* may have failed (834), and the next load of the contact asks the user again.
DisplayedIsPinned ==
    serial /\ active # NoCall =>
        /\ Pinned(of[active]) /\ pins[of[active]].key = key[active]
        /\ pins[of[active]].verified => verified[active]
        /\ verified[active] => <<of[active], key[active]>> \in confirmed

\* The user selects a contact and may consult its fingerprint (INFORME 156):
\* once no call is under way, and none was overtaken, the active contact is the
\* one named in the title.
TitleIsActive == serial /\ Idle /\ active # NoCall => of[active] = title

\* What the panel shows of a contact is true of it.
PanelIsTrue == DisplayedIsPinned /\ TitleIsActive
=============================================================================
