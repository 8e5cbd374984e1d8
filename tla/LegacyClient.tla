---------------------------- MODULE LegacyClient ----------------------------
(***************************************************************************)
(* The client of the TCP server, legacy/client_gui.py: its two threads, the*)
(* pins they share, and the files under .keys that outlive the process.    *)
(*                                                                         *)
(* The ui thread runs the window's event loop and everything a click       *)
(* starts; the recv thread reads frames (374-407).  A Tk call of the recv  *)
(* thread waits until the ui thread is in the event loop, where a message  *)
(* box also puts it.  A step of a thread is one access to what they share. *)
(* A Key stands for the two public keys of a peer; which keys the server   *)
(* hands out, and which envelopes it delivers, is up to it.                *)
(***************************************************************************)
EXTENDS Naturals, FiniteSets

CONSTANTS Peer, Key, Id, NoPeer, NoKey, NoId,
    Offered,          \* the keys the server may hand out, <<peer, key>>
    Arriving,         \* the envelopes that may arrive, <<from, key, id>>
    REPLAY_WINDOW,
    Generations       \* bound: how often the client makes keys of its own

ASSUME ClientAssumption ==
    /\ NoPeer \notin Peer /\ NoKey \notin Key /\ NoId \notin Id
    /\ Offered \subseteq Peer \X Key /\ Arriving \subseteq Peer \X Key \X Id
    /\ REPLAY_WINDOW \in Nat /\ Generations \in Nat

VARIABLES
    pins, disk,       \* self.pins, and what load_pins would return
    buffer,           \* what each thread is writing to PIN_FILE
    pubcache,
    seen,             \* seen_ids
    sock,             \* whether self.sock is set
    pc,               \* the two threads
    work,             \* peer and key each thread has in hand: rec, or an envelope's
    id,               \* msg_id of the envelope in hand
    agreed,           \* the user confirmed the key of the send under way
    keyfiles, mine,   \* own keys: in the files .xpriv and .epriv, and in memory
    confirmed,        \* history: keys the user confirmed
    unasked,          \* history: keys messages were encrypted for, not confirmed
    got, last, twice, \* history: ids taken since the start, the last, whether one again
    raced,            \* history: peers that both threads were pinning at once
    mixed,            \* history: the last two saves of PIN_FILE overlapped
    announced         \* history: own keys that were announced to a server

pinning  == <<pins, disk, buffer, raced, mixed>>
sending  == <<agreed, confirmed, unasked>>
replay   == <<seen, id, got, last, twice>>
identity == <<keyfiles, mine, announced>>
vars     == <<pinning, pubcache, sock, pc, work, sending, replay, identity>>

Thread  == {"ui", "recv"}
NoPin   == [key |-> NoKey, verified |-> FALSE]
Pins    == [Peer -> {NoPin} \cup [key : Key, verified : BOOLEAN]]
Nothing == [p \in Peer |-> NoPin]
NoWork  == [peer |-> NoPeer, key |-> NoKey]
NoKeys  == [x |-> 0, e |-> 0]

\* Where a thread is.  "pin", "open" and "write" are lines 307-308 or 188-193.
UiPoint   == {"idle", "savex", "savee", "hello", "polling", "look", "pin", "open",
              "write", "asking", "send"}
RecvPoint == {"none", "reading", "pin", "open", "write", "check", "telling",
              "failing", "closing"}

\* The ui thread is in the event loop; the recv thread waits for it to be.
AtEase  == pc["ui"] \in {"idle", "asking"}
Blocked == pc["recv"] \in {"telling", "failing", "closing"}
Saving(t) == pc[t] \in {"open", "write"}

Init ==
    /\ pins = Nothing /\ disk = Nothing /\ buffer = [t \in Thread |-> Nothing]
    /\ pubcache = [p \in Peer |-> NoKey]
    /\ seen = {} /\ id = NoId /\ got = {} /\ last = NoId /\ twice = FALSE
    /\ sock = FALSE
    /\ pc = [t \in Thread |-> IF t = "ui" THEN "idle" ELSE "none"]
    /\ work = [t \in Thread |-> NoWork] /\ agreed = FALSE
    /\ keyfiles = NoKeys /\ mine = NoKeys
    /\ confirmed = {} /\ unasked = {} /\ raced = {} /\ mixed = FALSE
    /\ announced = {}

Goto(t, point) == pc' = [pc EXCEPT ![t] = point]

-----------------------------------------------------------------------------
\* The process ends, at any point, and is started again (130-142).  Closing the
\* window is enough: the recv thread is a daemon (254).
Restart ==
    /\ pins' = disk
    /\ buffer' = [t \in Thread |-> Nothing]
    /\ pubcache' = [p \in Peer |-> NoKey]
    /\ seen' = {} /\ id' = NoId /\ got' = {} /\ last' = NoId /\ twice' = FALSE
    /\ sock' = FALSE
    /\ pc' = [t \in Thread |-> IF t = "ui" THEN "idle" ELSE "none"]
    /\ work' = [t \in Thread |-> NoWork] /\ agreed' = FALSE
    /\ mine' = NoKeys
    /\ raced' = {} /\ mixed' = FALSE
    /\ UNCHANGED <<disk, keyfiles, confirmed, unasked, announced>>

-----------------------------------------------------------------------------
\* connect_server (230-256).

Latest == IF keyfiles.e > keyfiles.x THEN keyfiles.e ELSE keyfiles.x

\* Lines 231-242.  load_keys answers None if one of the files is not there or is
\* short (40-48); then both keys are made anew.
Connect ==
    LET whole == keyfiles.x # 0 /\ keyfiles.e # 0
        made  == Latest + 1
    IN  /\ pc["ui"] = "idle" /\ ~sock /\ pc["recv"] = "none"
        /\ whole \/ made <= Generations
        /\ mine' = IF whole THEN keyfiles ELSE [x |-> made, e |-> made]
        /\ Goto("ui", IF whole THEN "hello" ELSE "savex")
        /\ UNCHANGED <<pinning, pubcache, sock, work, sending, replay, keyfiles, announced>>

\* Mutant: the keys are saved once the server knows them.
SaveXLate ==
    /\ pc["ui"] = "savex"
    /\ sock' = TRUE
    /\ keyfiles' = [keyfiles EXCEPT !.x = mine.x]
    /\ announced' = announced \cup {mine}
    /\ Goto("ui", "savee")
    /\ UNCHANGED <<pinning, pubcache, work, sending, replay, mine>>

\* Lines 27-31.
SaveX ==
    /\ pc["ui"] = "savex"
    /\ keyfiles' = [keyfiles EXCEPT !.x = mine.x]
    /\ Goto("ui", "savee")
    /\ UNCHANGED <<pinning, pubcache, sock, work, sending, replay, mine, announced>>

\* Lines 32-36.
SaveE ==
    /\ pc["ui"] = "savee"
    /\ keyfiles' = [keyfiles EXCEPT !.e = mine.e]
    /\ Goto("ui", "hello")
    /\ UNCHANGED <<pinning, pubcache, sock, work, sending, replay, mine, announced>>

\* Lines 248-256.
Hello ==
    /\ pc["ui"] = "hello"
    /\ sock' = TRUE
    /\ announced' = announced \cup {mine}
    /\ pc' = [ui |-> "idle", recv |-> "reading"]
    /\ UNCHANGED <<pinning, pubcache, work, sending, replay, keyfiles, mine>>

\* The server is not there (249), or gone before it has the hello (253): then
\* sock is set and nothing reads from it.
HelloFails ==
    /\ pc["ui"] = "hello"
    /\ sock' \in BOOLEAN
    /\ Goto("ui", "idle")
    /\ UNCHANGED <<pinning, pubcache, work, sending, replay, identity>>

-----------------------------------------------------------------------------
\* What both threads do to a peer that is not pinned.

\* Lines 307 and 188.
Pin(t) ==
    /\ pc[t] = "pin"
    /\ pins' = [pins EXCEPT ![work[t].peer] = [key |-> work[t].key, verified |-> FALSE]]
    /\ raced' = raced \cup {p \in {work[t].peer} :
                          \E o \in Thread \ {t} : pc[o] = "pin" /\ work[o].peer = p}
    /\ Goto(t, "open")
    /\ UNCHANGED <<disk, buffer, mixed, pubcache, sock, work, sending, replay, identity>>

\* save_pins (121-125): opening the file empties it.
Open(t) ==
    /\ pc[t] = "open"
    /\ disk' = Nothing
    /\ buffer' = [buffer EXCEPT ![t] = pins]
    /\ mixed' = (\E o \in Thread \ {t} : pc[o] = "write")
    /\ Goto(t, "write")
    /\ UNCHANGED <<pins, raced, pubcache, sock, work, sending, replay, identity>>

Unsure == IF mixed THEN {disk, Nothing} ELSE {}

AfterSave(t) ==
    Goto(t, IF t = "recv" THEN "check" ELSE IF agreed THEN "send" ELSE "asking")

\* The pins are in the file when it is closed.  Two files open at once write
\* over one another.
Write(t) ==
    /\ pc[t] = "write"
    /\ disk' \in {buffer[t]} \cup Unsure
    /\ buffer' = [buffer EXCEPT ![t] = Nothing]
    /\ AfterSave(t)
    /\ UNCHANGED <<pins, raced, mixed, pubcache, sock, work, sending, replay, identity>>

Done(t) == work' = [work EXCEPT ![t] = NoWork]

\* Dumping the pins fails if the other thread adds one meanwhile (124): part of
\* them is in the file.  The send, or the message, is given up (371, 399).
WriteFails(t) ==
    /\ pc[t] = "write"
    /\ \E p \in Peer : buffer[t][p] = NoPin /\ pins[p] # NoPin
    /\ disk' \in {Nothing} \cup Unsure
    /\ buffer' = [buffer EXCEPT ![t] = Nothing]
    /\ Goto(t, IF t = "ui" THEN "idle" ELSE "telling")
    /\ Done(t)
    /\ id' = IF t = "recv" THEN NoId ELSE id
    /\ agreed' = (agreed /\ t = "recv")
    /\ UNCHANGED <<pins, raced, mixed, pubcache, sock, confirmed, unasked, seen, got, last, twice, identity>>

-----------------------------------------------------------------------------
\* send_message (353-372), in the ui thread.

InHand(t, p, k) == work' = [work EXCEPT ![t] = [peer |-> p, key |-> k]]

\* Lines 272-275.
Send(p) ==
    /\ pc["ui"] = "idle"
    /\ InHand("ui", p, pubcache[p])
    /\ Goto("ui", IF pubcache[p] = NoKey THEN "polling" ELSE "look")
    /\ UNCHANGED <<pinning, pubcache, sock, sending, replay, identity>>

\* Lines 277-279.
Poll ==
    LET p == work["ui"].peer
    IN  /\ pc["ui"] = "polling" /\ pubcache[p] # NoKey
        /\ InHand("ui", p, pubcache[p])
        /\ Goto("ui", "look")
        /\ UNCHANGED <<pinning, pubcache, sock, sending, replay, identity>>

\* A message box, or none, ends the send: nothing more is done in it.
EndSend ==
    /\ Goto("ui", "idle") /\ Done("ui")
    /\ agreed' = FALSE

\* Mutants: a poll that timed out answers no keys; the poll has no time-out.
GiveUpNothing ==
    /\ pc["ui"] = "polling"
    /\ Goto("ui", "look")
    /\ UNCHANGED <<pinning, pubcache, sock, work, sending, replay, identity>>

GiveUpNever ==
    /\ pc["ui"] = "polling" /\ pubcache[work["ui"].peer] # NoKey
    /\ EndSend
    /\ UNCHANGED <<pinning, pubcache, sock, confirmed, unasked, replay, identity>>

\* Line 280: the poll is over after a second.
GiveUp ==
    /\ pc["ui"] = "polling"
    /\ EndSend
    /\ UNCHANGED <<pinning, pubcache, sock, confirmed, unasked, replay, identity>>

\* Mutant: a key that is not the pinned one is let through.
LookOnlyVerified ==
    LET info == pins[work["ui"].peer]
    IN  /\ pc["ui"] = "look"
        /\ Goto("ui", IF info = NoPin THEN "pin" ELSE IF info.verified THEN "send" ELSE "asking")
        /\ UNCHANGED <<pinning, pubcache, sock, work, sending, replay, identity>>

\* ensure_verified_contact, lines 298-321.
Look ==
    LET info == pins[work["ui"].peer]
    IN  /\ pc["ui"] = "look"
        /\ IF info # NoPin /\ info.key # work["ui"].key
           THEN EndSend
           ELSE /\ Goto("ui", IF info = NoPin THEN "pin" ELSE IF info.verified THEN "send" ELSE "asking")
                /\ UNCHANGED <<work, agreed>>
        /\ UNCHANGED <<pinning, pubcache, sock, confirmed, unasked, replay, identity>>

Refuse ==
    /\ pc["ui"] = "asking" /\ EndSend
    /\ UNCHANGED <<pinning, pubcache, sock, confirmed, unasked, replay, identity>>

\* Mutant: the confirmed pin is not saved.
ConfirmUnsaved ==
    LET c == work["ui"]
    IN  /\ pc["ui"] = "asking"
        /\ pins' = [pins EXCEPT ![c.peer] = [key |-> c.key, verified |-> TRUE]]
        /\ confirmed' = confirmed \cup {c}
        /\ agreed' = TRUE
        /\ Goto("ui", "send")
        /\ UNCHANGED <<disk, buffer, raced, mixed, pubcache, sock, work, unasked, replay, identity>>

\* Lines 347-349.  The pin is the one looked up at line 298, whatever the recv
\* thread has put in its place since.
Confirm ==
    LET c == work["ui"]
    IN  /\ pc["ui"] = "asking"
        /\ pins' = [pins EXCEPT ![c.peer] = [key |-> c.key, verified |-> TRUE]]
        /\ confirmed' = confirmed \cup {c}
        /\ agreed' = TRUE
        /\ Goto("ui", "open")
        /\ UNCHANGED <<disk, buffer, raced, mixed, pubcache, sock, work, unasked, replay, identity>>

\* Mutant: the key is taken from the cache again.
TransmitCached ==
    /\ pc["ui"] = "send"
    /\ unasked' = unasked \cup ({[work["ui"] EXCEPT !.key = pubcache[work["ui"].peer]]} \ confirmed)
    /\ EndSend
    /\ UNCHANGED <<pinning, pubcache, sock, confirmed, replay, identity>>

\* Lines 367-370, under the key of rec.  Without a socket nothing is sent, and
\* the message is shown all the same (259).
Transmit ==
    /\ pc["ui"] = "send"
    /\ unasked' = unasked \cup ({work["ui"]} \ confirmed)
    /\ EndSend
    /\ UNCHANGED <<pinning, pubcache, sock, confirmed, replay, identity>>

-----------------------------------------------------------------------------
\* recv_loop (374-407).

\* Lines 381-387 and 401: frames that are only shown.
Notice ==
    /\ pc["recv"] = "reading"
    /\ Goto("recv", "telling")
    /\ UNCHANGED <<pinning, pubcache, sock, work, sending, replay, identity>>

\* Lines 388-394.
Pubkey(p, k) ==
    /\ pc["recv"] = "reading"
    /\ pubcache' = [pubcache EXCEPT ![p] = k]
    /\ Goto("recv", IF pins[p] = NoPin THEN "telling" ELSE "reading")
    /\ UNCHANGED <<pinning, sock, work, sending, replay, identity>>

\* decrypt_envelope, lines 178-185: a sender whose keys changed is refused.
Msg(p, k, i) ==
    /\ pc["recv"] = "reading"
    /\ IF pins[p].key \in {k, NoKey}
       THEN /\ InHand("recv", p, k) /\ id' = i
            /\ Goto("recv", IF pins[p] = NoPin THEN "pin" ELSE "check")
       ELSE Goto("recv", "telling") /\ UNCHANGED <<work, id>>
    /\ UNCHANGED <<pinning, pubcache, sock, sending, seen, got, last, twice, identity>>

\* The ids kept of a full window: its order is that of a set (201).
Kept == IF Cardinality(seen) > REPLAY_WINDOW
        THEN {s \in SUBSET seen : Cardinality(s) = REPLAY_WINDOW} ELSE {seen}

\* Mutant: the window is trimmed before the test, and to one less.
CheckTrimmed ==
    /\ pc["recv"] = "check"
    /\ \E s \in {s \in SUBSET seen : Cardinality(s) < REPLAY_WINDOW} :
         /\ twice' = (twice \/ (id \in got /\ id \notin s))
         /\ seen' = s \cup {id}
    /\ got' = got \cup {id} /\ last' = id
    /\ Goto("recv", "telling") /\ Done("recv")
    /\ id' = NoId
    /\ UNCHANGED <<pinning, pubcache, sock, sending, identity>>

\* Lines 196-221 and 398-400.  What fails to verify is remembered all the same,
\* and an error is shown in place of the text.
Check ==
    /\ pc["recv"] = "check"
    /\ IF id \in seen
       THEN UNCHANGED <<seen, got, last, twice>>
       ELSE /\ \E s \in Kept : seen' = s \cup {id}
            /\ twice' = (twice \/ id \in got)
            /\ got' = got \cup {id} /\ last' = id
    /\ Goto("recv", "telling") /\ Done("recv")
    /\ id' = NoId
    /\ UNCHANGED <<pinning, pubcache, sock, sending, identity>>

\* Lines 378 and 403-404: the connection ends, or a frame is not understood.
Lost ==
    /\ pc["recv"] = "reading"
    /\ \/ Goto("recv", "closing") /\ sock' = FALSE
       \/ Goto("recv", "failing") /\ UNCHANGED sock
    /\ UNCHANGED <<pinning, pubcache, work, sending, replay, identity>>

\* The Tk call of the recv thread is served.  After "failing" the socket is
\* dropped (406), after "closing" the thread ends.
Served ==
    /\ Blocked /\ AtEase
    /\ Goto("recv", CASE pc["recv"] = "telling" -> "reading"
                      [] pc["recv"] = "failing" -> "closing"
                      [] pc["recv"] = "closing" -> "none")
    /\ sock' = (sock /\ pc["recv"] = "telling")
    /\ UNCHANGED <<pinning, pubcache, work, sending, replay, identity>>

-----------------------------------------------------------------------------
Save(t) == Pin(t) \/ Open(t) \/ Write(t) \/ WriteFails(t)

UiStep   == SaveX \/ SaveE \/ Hello \/ HelloFails \/ Poll \/ GiveUp \/ Look \/ Save("ui") \/ Transmit
RecvStep == Save("recv") \/ Check

Next ==
    \/ Restart
    \/ Connect
    \/ \E p \in Peer : Send(p)
    \/ Confirm \/ Refuse
    \/ UiStep \/ RecvStep \/ Served
    \/ Notice \/ Lost
    \/ \E o \in Offered : Pubkey(o[1], o[2])
    \/ \E a \in Arriving : Msg(a[1], a[2], a[3])

\* Both threads run.  The calls of the recv thread are queued in the event loop
\* and taken in turn, however often the user keeps the ui thread busy.
Fairness == WF_vars(UiStep) /\ WF_vars(RecvStep) /\ SF_vars(Served)

Spec == Init /\ [][Next]_vars /\ Fairness

-----------------------------------------------------------------------------
\* Every variable keeps its type.
TypeOK ==
    /\ pins \in Pins /\ disk \in Pins /\ buffer \in [Thread -> Pins]
    /\ pubcache \in [Peer -> Key \cup {NoKey}]
    /\ seen \subseteq Id /\ got \subseteq Id /\ id \in Id \cup {NoId} /\ last \in Id \cup {NoId}
    /\ sock \in BOOLEAN /\ agreed \in BOOLEAN /\ twice \in BOOLEAN
    /\ mixed \in BOOLEAN
    /\ pc["ui"] \in UiPoint /\ pc["recv"] \in RecvPoint
    /\ work \in [Thread -> [peer : Peer \cup {NoPeer}, key : Key \cup {NoKey}]]
    /\ confirmed \subseteq [peer : Peer, key : Key] /\ unasked \subseteq [peer : Peer, key : Key]
    /\ raced \subseteq Peer

\* Messages to a peer are encrypted only for keys of its that the user once
\* confirmed, in this run of the program or an earlier one, whatever the server
\* answers meanwhile and however the threads and the pin file interleave.
SentUnderConfirmed == unasked = {}

\* The key of a pin is not replaced while the program runs, unless both threads
\* looked the peer up before either pinned it.
PinnedKeysStay ==
    [][Restart \/ \A p \in Peer \ raced : pins[p] # NoPin => pins'[p].key = pins[p].key]_vars

\* Whenever no thread is saving, the file holds the pins: a restart forgets none,
\* unless the last two saves overlapped.
FileHoldsPins ==
    mixed \/ disk = pins \/ \E t \in Thread : Saving(t)

\* The id taken last is remembered, so an envelope is never taken twice in a row;
\* one is taken again only after more than REPLAY_WINDOW others have been, for as
\* many ids as the window holds are remembered, which is one more than line 106
\* says.  Which are forgotten is not a matter of age (201): an id may be gone as
\* soon as one other has been taken after it.
ReplaysAreOld ==
    /\ last # NoId => last \in seen
    /\ twice => \A i \in got : Cardinality(got \ {i}) > REPLAY_WINDOW
    /\ Cardinality(seen) = IF Cardinality(got) > REPLAY_WINDOW THEN REPLAY_WINDOW + 1
                           ELSE Cardinality(got)

\* The keys a user announces are always the same, even if the process ends after
\* writing one of the two files.
IdentityIsStable == Cardinality(announced) <= 1

\* Neither thread waits for the other for ever: a send that polls for a key the
\* blocked recv thread would have to read ends, and then the recv thread goes on.
ComeToRest == ([]<>AtEase) /\ (Blocked ~> ~Blocked)
=============================================================================
