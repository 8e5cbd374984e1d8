# A verification development of CanalSeguro

CanalSeguro is an end-to-end encrypted chat: a FastAPI server (`app/`) that relays envelopes it
cannot read, and a single-page browser client (`frontend/app.js`) that holds the keys, encrypts,
decrypts and acknowledges. Its predecessor, a threaded TCP server and a Tk client (`legacy/`), is kept beside it
and modelled too. This directory holds TLA+ modules of the parts of it in which steps of
several actors interleave, the TLC runs that check them on small instances, and TLAPS proofs of what matters
most for every value of the constants. Line numbers without a file name refer to the file the section is about.

## 1. Inventory

| Part | Code | State it keeps | Operations |
|---|---|---|---|
| Message relay | `app/main.py` 64-67, 224-276, 467-582; `app/db.py` 140-205 | `_connections` (user → WebSocket, in memory), the `messages` table, one suspended coroutine per session | handshake, register/replace, drain, `message`, `ack`, `_deliver`, `_notify_sender`, cleanup |
| Login limiter | `app/main.py` 78-113 and its calls in `login` 394-422 | `_login_attempts`: a deque of times per address and user | test, record a failure, clear |
| Registration, login, identities | `app/main.py` 366-430; `app/db.py` 101-128; `app.js` 618-713, 1050-1076 | `users` table; identity records in IndexedDB; token, name and keys of the page | register, login, `/api/me`, enter, logout |
| The browser's WebSocket | `app.js` 618-713, 904-1004, 1050-1076 | `state.socket`, `socketReady`, `socketQueue`, reconnect and handshake timers | the forms that lead to it, `connectSocket`, its listeners, `completeHandshake`, `failHandshake`, logout |
| Receiving | `app.js` 564-603, 1006-1048 | the replay store in IndexedDB and its copy in memory, the displayed messages | `handleIncoming`, `decryptMessage`, ack |
| Contacts, pins, sending | `app.js` 513-562, 769-896 | `peers` store in IndexedDB, `state.peers`, `state.activePeer`, title, composer | `loadPeer`, `selectPeer`, verify button, `handleSendMessage` |
| Tokens | `app/auth.py` 23-138; `app/main.py` 185-208, 476-498 | the secret (of the environment or the process); tokens live with those who hold them | issue, verify, restart, rotation, backup, restore |
| Passwords | `app/auth.py` | none | hash, verify |
| Audit log | `app/db.py` 208-; `app/main.py` | `audit_events` rows, never read by the logic | insert, list |
| Listings | `app/main.py` 361-363, 425-464 | none of their own | `me`, `users`, `keys`, `audit`, `health` |
| Legacy server | `legacy/server.py` | three dicts shared by one thread per connection: `clients`, `sockets_by_user`, `pubkeys` | `hello`, `get_users`, `get_pubkey`, `send`, `broadcast_users`, cleanup |
| Legacy client | `legacy/client_gui.py` | pins and their file, key cache, replay window, own key files, socket | `connect_server`, `send_message`, `recv_loop`, `save_pins` |
| Scripts and deployment | `scripts/`, `Dockerfile`, `docker-compose.yml` | – | certificates, backup, restore |

How they interact:

* A page registers or logs in over HTTP, stores or opens its identity record, asks `/api/me` and
  opens a WebSocket, whose first frame carries the token. The server answers `ready`, makes the
  session the route of its user (closing the one it replaces) and drains what is pending.
* A `message` frame is stored under the client's `msg_id`, written to the recipient's session if
  there is one, and the sender gets a status. The recipient's page decrypts, displays, and sends
  an `ack`; the server records it and tells the sender.
* The handlers of all sessions share one event loop, the `_connections` map and the database. The
  HTTP handlers run in threads and share the database and the limiter.
* The calls and listeners of a page share `state` and IndexedDB; tabs share IndexedDB only.
* A token names a user and nothing else; restarts, the secret and the database change under it.
* The threads of the legacy server share its dicts without a lock. Those of the legacy client share its attributes,
  and the receiving thread waits in every Tk call for the window's thread, which waits for it when it polls for a key.

What is hard about each part, and what makes it correct:

* **Relay.** Every `await` of a send lets other handlers run: a replaced session's cleanup after
  its successor registered, a late failed send that removes a route, a snapshot older than the
  session it is sent to, a status computed before and written after a suspension. Audit inserts
  that raise after another commit. Restarts between storing, sending and acknowledging. Correct:
  a connected user is routed, no stored message is forgotten between live path and drain, stored
  messages are stable, receipts are true, and every message is eventually on a session that its recipient has open, or acknowledged.
* **Limiter.** Test and append are two critical sections around a slow password check, and the clock
  is read before the lock is taken. Correct: a bound on wrong passwords per window, and no lockout
  for ever.
* **Accounts.** The account is committed before its audit row and before the client stores the keys;
  two forms of one page, two tabs and two browsers race. Correct: records belong to accounts,
  a page acts with its user's keys, no account loses its keys.
* **Browser's WebSocket.** Listeners and timers of abandoned objects run on, and a form that fails takes away the
  token of the session that the other form has opened. Correct: being ready means being authenticated, logging out
  means being offline, a tab that stays logged in gets online, a session it leaves behind ends.
* **Receiving.** Read, await, write on the replay store; reload or disconnection between consuming,
  displaying and acknowledging. Correct: nothing is acknowledged unseen, nothing is displayed
  twice, everything is displayed and acknowledged.
* **Pins.** Read, await, write on the pin; objects of one contact that are no longer shared. Correct:
  a message leaves only under keys the user confirmed; pins are not replaced; the panel tells the
  truth.
* **Tokens.** The lifetime is bounded in two places; tokens outlive restarts and restores, after which a name may be
  someone else's. Correct: what is issued is accepted until it expires, and a stranger's token soon expires.
* **Legacy server.** Each access to a dict is atomic, a test and a write are not; a list is read, addressed and sent
  in steps. Correct: names lead to live connections, the newest connection of a user is reachable under its own keys,
  every client ends up with the current list.
* **Legacy client.** Two threads over pins, cache and file, dialogs that run the event loop in the middle of a send,
  a process that may end between any two steps. Correct: nothing is sent under unconfirmed keys, pins and own keys
  survive a restart that falls outside a save, replays are refused for as long as the window remembers, and the threads never wait for each other for ever.

The full list of hazards, each at its line, is in `PROJECT.json`.

## 2. Modules

| Module | Models | Actions correspond to |
|---|---|---|
| `Delivery` | message relay | one stretch of `websocket_endpoint` between two suspending awaits; `Open`, `LoseLink`, `NoticeLoss`, `SubmitMessage`, `SubmitAck` of clients; `Crash` |
| `Mailbox` | what the relay and the receiving page promise | `Post`, `Hand`, `Confirm` of one message |
| `DeliveryProofs`, `InboxProofs`, `ClientSocketProofs`, `PeerPinsProofs`, `AccountsProofs`, `LegacyServerProofs`, `LegacyClientProofs` | proofs about the module named | – |
| `LoginProofs` | proofs about `LoginLimiter` and `Tokens`, the two ends of a login | – |
| `Inbox` | receiving page | one stretch of `handleIncoming`/`decryptMessage` between two awaits; login, logout, reload; a server reduced to pending messages |
| `ClientSocket` | a tab's WebSockets and the forms that open them | `Submit`, `Grant`, `Show`, `Enter` and `Fail` of the login and the registration form; `connectSocket`, `onopen`, messages, close events, handshake and reconnect timers, logout; the server's coroutine per WebSocket |
| `PeerPins` | contacts and sending | one stretch of `loadPeer`, the verify button (`Mark` and `Marked`, or `MarkFails`), `handleSendMessage` between two awaits; key changes; relogin; reload |
| `LoginLimiter` | one bucket | clock reads, the critical sections of `login`'s calls, `Tick` |
| `Accounts` | registration, login | the server's handler of each form; the page's stretches around requests and IndexedDB |
| `Tokens` | session tokens | `Register`, `Login`, `Connect`, `Disconnect`; `Advance` and `SetBack` of the clock; `Restart`, `Rotate`, `Backup`, `Restore` of operation |
| `LegacyServer` | the TCP server's registry | one access to a dict by one thread: `Hello` to `Publish`, the reading, addressing and sending of a list, `Finish`, `Check`, `Drop`; `Accept` and `Depart` of clients |
| `LegacyClient` | the desktop client | one access of one thread to what they share: connecting and saving keys, a send from the cache to the socket, a frame from `readline` to the window; the user's answers; `Restart` |
| `MC*` | TLC instances | constants only |

`Delivery` and `Inbox` both implement `Mailbox` (`ImplementsMailbox` in each), and say with it what they make of the
same promise. In `Delivery`, `phase` and `letter` are defined from the table and the history of what was handed over: the server
confirms only what it has written to a session of the recipient. In `Inbox` a message counts as handed once it was displayed,
before or after a reload: what is confirmed was seen. `Inbox`, `ClientSocket` and
`PeerPins` each contain the other side reduced to what `Delivery` shows of it: a session is
written what is pending, possibly twice (a message that meets the drain and the live path is); a
WebSocket's endpoint authenticates it or not; a message is refused if frame and envelope disagree.

### Abstractions shared by all

* The server is one asyncio process (`Dockerfile`, one uvicorn worker). Database calls block the
  event loop, so a handler runs uninterrupted from one *suspending* await to the next; the code
  under `_connections_lock` never suspends. JavaScript likewise.
* Envelopes, keys and signatures are abstracted to which message, which keys, and whether a stage
  fails. Tokens are valid or refused. Timestamps appear as "expired".
* `Mishaps` names what may go wrong in an instance. `calm` (set by `Settle`) ends the mishaps, so
  that liveness says: once nothing more goes wrong, … A liveness property conditional on less would be false of any system.
* Slots (sessions, WebSocket objects, handlers, calls) are reused once nothing refers to them.

### Abstractions of each

* `Delivery`: clients may submit any `Traffic` and repeat it, acknowledge anything handed out on any
  session, until `calm`. A session the server has closed may still handle frames it had received;
  for one it replaced that is more than the ASGI server is known to do, never less. Error replies
  and the reply to an ack go to a handler's own socket and only delay it. `lapsed` marks a message
  committed by a handler whose audit insert then raised: it was not sent live, and stays pending
  until the recipient's next session. A session that died at line 511 stays in the map (`"failed"`). Whether a page
  acknowledges what it was handed is left open, also once the system is calm.
* `Inbox`: IndexedDB transactions on a store are serialised in creation order; `store` is what the
  next reader sees, `durable` what survives a crash.
* `ClientSocket`: a form that is at work holds no more than its progress; it has the token from line 632 or 682 on, and its
  catch clause clears the page's token, whoever set it. Which account is meant is in `Accounts`. A form is submitted only while
  a WebSocket is left for it (`Spare`, a bound). The generation counter changes exactly with `state.socket`. A frame's content does
  not matter: `wire` holds `ready` or a message. The server sends no error before `ready`. `late` is a
  history variable: WebSockets whose handshake timer fired while they were connecting.
* `PeerPins`: pins are shared by the accounts of a browser, as in the code. A put that
  the verify button awaits may fail: the flag of the object, set before it (833), stays (`MarkFails`). A put of `loadPeer` that fails
  ends the call before the object is used (`Refuse`). The channel is up. `sent` holds the last message only, since what is confirmed
  stays so. `serial` is a history variable: no user and no message overtook a call of `loadPeer`.
* `LoginLimiter`: times are ages. Retry-After and idle buckets are left out.
* `Accounts`: a form is one `Form`, and its generated key pair has its name. `crossed` and `broken` are
  history variables: pages whose forms overlapped, forms in whose way something came.
* `Tokens`: a `Person` holds tokens and passwords, a `User` is a name. Signing is taken to work: a token is valid under
  the secret it was issued with. A secret is a number, never drawn twice.
* `LegacyServer`: a connection is used once, and its client says one `hello`, as the client in the repository does. `get_pubkey` and `send` read only.
  Line 87 closes the socket a new one replaces, but the file made of it at line 56 keeps the connection open, so the model
  does not disconnect it. `replaced`, `crossed`, `clashed` and `tangled` are history variables.
* `LegacyClient`: the server may hand out any of the `Offered` keys and deliver any of the `Arriving` envelopes at any
  time, more than `LegacyServer` would. The `ui` thread is in the event loop when idle or in a message box; a Tk call of the other
  thread waits for that. Two open pin files may leave either content or an unreadable file, which
  `load_pins` takes for none. Which ids are forgotten is arbitrary (a set is sliced, 201). `confirmed`, `unasked`, `got`, `last`,
  `twice`, `raced`, `mixed` and `announced` are history variables.

## 3. Runs

Ten runs pass. The bound of each, and why it lets the interesting cases happen:

| Run | Bound | Checks |
|---|---|---|
| `sessions` | 2 users, 3 session slots, 2 msg_ids, the first of which both users send; 1 frame waiting per handler, all mishaps; the constraint `Narrow` keeps the third slot and the second message to what they are needed for (2.4 million states) | `TypeOK`, `OpenSessionsAreRouted`, `OnlyRecipientsRead`, `NothingForgotten`, `ReceiptsAreTrue`, `ImplementsMailbox`. Three slots: a session, its replacement, and a third that registers or sends meanwhile. Two messages: one in the snapshot, one stored during the drain. |
| `live` | 3 slots, 1 message, every mishap; the constraint `SenderIsSteady` leaves the sender one tab, whose connection only a crash or a failing handler ends (1.1 million) | `EventuallyHanded`. Three slots: both users may have a session that died at line 511, whose slot is taken until they come back, and one of them a second tab. |
| `inbox` | 2 accounts on one browser, a message for each, 2 overlapping calls, 2 copies (349,000) | `TypeOK`, `ImplementsMailbox`, `NoRepeatAfterReload`, `RetriesWork`. Two calls and two copies are the least that overlap; the second account makes sessions change hands. |
| `socket` | 2 WebSocket objects, both forms, 2 frames on the wire of each, 2 parked (185,000) | `TypeOK`, `ReadinessIsTrue`, `OnlineOrLate`, `LeftSessionsEnd`. The two objects are the one in use and an abandoned one, each opened by a form; a form may fail while the other one's session is up. |
| `limiter` | 3 threads, 2 attempts, window of 3 ticks, stall of 2 (433,000) | `TypeOK`, `LimitHolds`, `LockoutEnds`. All threads can stand between test and append, and times enter the deque out of order. |
| `pins` | 2 contacts, 2 key pairs, 2 calls of `loadPeer` per page, 1 of `handleSendMessage`, puts and requests that fail (5.2 million) | `TypeOK`, `SentUnderConfirmedKeys`; as long as no call is overtaken (`serial`), `PanelIsTrue`, `SerialPinsStay`. |
| `accounts` | 2 users, 2 passwords, 2 tabs of one browser and 1 of another, 3 forms (592,000) | `TypeOK`, `KeysAreServed`, `SessionIsConsistent`, `AccountsKeepTheirKeys`. Two forms of one page, and three forms for one name in two browsers. |
| `tokens` | 1 name, 2 people, 3 tokens, 1 socket, 2 secrets, a clock up to 4, a TTL of 9 asked for where 2 is the most (310,000) | `TokensOK`, `IssuedAreAccepted`, `StrangersExpire`. Three tokens: of the old holder, from after a backup, and of the new holder; two ticks let one expire on each side of a restore. |
| `legacy_server` | 2 users, 3 connections (1.0 million) | `TypeOK`, `RoutesMatchConnections`, `KeysFollowRoute`, `ListsHeal`. Three connections: one leaving, one registering its name, and one that lists. |
| `legacy_client` | 2 peers, 2 keys of the first, 3 envelopes, a replay window of 1, 2 generations of own keys (712,000) | `TypeOK`, `SentUnderConfirmed`, `FileHoldsPins`, `ReplaysAreOld`, `IdentityIsStable`, `PinnedKeysStay`, `ComeToRest`. Both threads can pin one peer, both can save, and the window overflows. |

Each property of a passing run has a mutant in `PROJECT.json`: a plausible mistake in the code that
makes TLC find the property violated under the same configuration. The operators marked *Mutant* in the
modules are these, and nothing else uses them.

### Disagreements found

Two runs each check one sentence of the repository's documents, tests or interface, and TLC finds it violated.

| Run | What happens |
|---|---|
| `status` | A sender is told `delivered` and then `sent`: the status of `main.py` 559 is computed before the suspension of line 558 and written after it. `test_modern_envelope_is_sent_then_delivered_only_after_ack` (`test_backend.py` 181) takes the order for granted. |
| `inbox_shown` | A reload between storing the replay id (`app.js` 600) and displaying the message (1031): every redelivery is rejected as a replay (578-579), and the message is never shown. |

Conditions in passing properties mark other places where the code gives less than one would expect.
Dropping the condition gives the counterexample:

* `RetriesWork` is about messages that no call has consumed. If the session closes between
  consuming and acknowledging (1044), the message was displayed, but stays pending: its redelivery is
  rejected as a replay, without an ack.
* `EventuallyHanded` promises a message on an open session, not its acknowledgement: of such a message as the last item
  speaks of there is none. It excepts messages that are `Missed`: stored by a handler whose audit insert then failed (554), while the
  recipient's session was past its snapshot; the recipient gets them with its next session.
* `LeftSessionsEnd` is about sessions that are not, or no longer, those of `state.socket`, and `EndedIsNotReady` about tabs
  with a token. When a form fails after the other one has logged in, its catch clause (637, 689) clears the token and leaves
  the WebSocket as it is: the session goes on at the server, and when it ends, the close listener returns at once (979), the tab
  still counts as ready and does not reconnect, until the user logs out.
* `OnlineOrLate` and `LeftSessionsEnd` except WebSockets in `late`: the handshake timer fires while the WebSocket is
  connecting (989); it opens later, the server serves it, and the tab neither uses nor replaces it, although `app.js` 880
  asks the user to wait for the channel.
* `SerialPinsStay` requires `serial`: two first loads of a contact that overlap both find no pin (521), and the second
  replaces the keys the first has pinned, which `OPERATIONS.md` 163-164 rules out.
* `ConsumedForGood` (proved, not run) is about messages that no call is about to consume. Two copies handled at the same time are
  both past line 597 before either put, and both are displayed.
* `PanelIsTrue` requires `serial`. A load that read the pin before the user
  verified it writes it back unverified (532); of two contacts clicked in a row the first may finish
  last, and the chat is then headed by the other (773, 780). It allows a contact that
  is displayed as verified while its pin is not: the flag is set before a put that may fail (833-834).
* A message in `sent` may have another `recipient` than `to`: `app.js` reads `state.activePeer` again after the
  encryption (886, 888). The server refuses it; the page has already shown it as sent.
* `SessionIsConsistent` excludes pages in `crossed`: the catch clause of a form clears the session that
  the page's other form has set (637, 689-691).
* `AccountsKeepTheirKeys` excludes registrations in `broken`: when the audit insert fails after the
  account was committed (`main.py` 379, 388), the page throws the keys away and the name stays taken.
* `StrangersExpire` bounds, and does not exclude, that after a restore (`OPERATIONS.md` 7) the tokens of a name's former
  holder act for the person who registers the name next.
* `ConnectedAreRouted` excepts names in `crossed`: a connection that registers between lines 142 and 143 of another
  thread loses its route, and is listed as offline while it is there; and connections in `replaced`, which stay
  connected without a route, although the comment of line 82 says that the earlier session is disconnected.
* `KeysFollowRoute` excepts names in `clashed`: two connections that register one name at once may leave the route of one
  with the keys of the other. The lookup of line 84 may also raise, if the name is dropped after line 83.
* `ListsHeal` requires that the last list was not read while another was being sent (`tangled`): the older one may arrive last.
* `PinnedKeysStay` of `LegacyClient` excepts peers in `raced`, `FileHoldsPins` saves that were `mixed`: both threads pin a
  peer they both found unpinned, and open files write over one another.
  A process that ends between the opening of the file, which empties it, and the end of the save leaves no pins at all.
* `ReplaysAreOld` has `REPLAY_WINDOW + 1` ids remembered: the set is trimmed before the new id is added (199-202), while line
  106 promises at most the window. And it says no more of the age of a replay than that one other id was taken in between: once
  more than the window were taken in all, which ones are remembered besides the last is left to the order of a set (201).

## 4. Fairness

* `Delivery`: weak fairness of each session's coroutine (the event loop runs what is ready; a send to a
  stalled peer ends when uvicorn's keepalive closes it, which is `NoticeLoss`), and of a browser
  that has no session reconnecting (`app.js` 985). `Settle` is fair: mishaps stop. No fairness is assumed of mishaps, of
  submitting or of acknowledging: a page rejects what it has taken before without an ack (`app.js` 578, 597, 1044).
* `Inbox`: suspended calls resume, frames on a session arrive, a logged-in page reconnects.
* `ClientSocket`: timers fire, sockets open or fail, close events fire, endpoints run, and frames arrive. A form's requests
  end with an answer or an error, and a form that is entering goes on to line 709. Users need not submit or log out.
* `LoginLimiter`: time passes, threads run, and the user tries again.
* `LegacyClient`: weak fairness of the steps of each thread that wait for nobody, strong fairness of `Served`: Tk takes
  queued calls in turn whenever the window's thread is in the event loop, however often the user makes it busy. The user is under no
  obligation: a message box may stay open, and a frame may never come.
* `PeerPins`, `Accounts`, `Tokens` and `LegacyServer` are checked for safety only.

`CHECK_DEADLOCK FALSE` stands only where the instance really can come to rest: every message stored and
acknowledged, every form done.

## 5. Proofs

### Delivery

From `DeliveryAssumption` alone (registered users are valid names, traffic is well-formed, the null
values are distinct from real ones), for any users, slots, messages, traffic, mishaps and inbox bound:

* `TypeCorrect` – `Spec => []TypeOK`.
* `Safety` – `Spec => []Inv`; `RoutesHaveOwners`, `SessionsStayRouted`, `NoLostWakeup`, `Confinement` and `Honesty` are its
  consequences.
* `Stability` – `Spec => RowsAreStable`.
* `Refinement` – `Spec => ImplementsMailbox`.

The argument. `Inv` is inductive. Its layers are proved one
on the other, each lemma using only those below:

1. `TypeOK` and `SessionsAreWhole`: a suspended coroutine has the user, message and peer that its
   position needs. Without it `Outcome(peer[s])` and `row[job[s]]` mean nothing.
2. `RoutesAreOwned`, `OpenSessionsAreRouted`: the only map updates are registration, which closes the session it
   replaces in the same stretch, and `Cut`, which compares first; a route dropped because a send
   cannot be made leads to a closed session.
3. `FramesAreBacked`, `OnlyRecipientsRead`: snapshots, frames in inboxes and handed messages are stored rows of the
   right recipient. `FramesAreBacked` is the strengthening: acks in transit must be for handed messages.
4. `DrainsFollowRoutes`, `NothingForgotten`: a drain of a routed session awaits a send to that
   session, so if the send fails that session is closed and nothing is due to it. Without it a failed send
   to another session could abandon the snapshot of an open one.
5. `ReceiptsAreTrue`, from `SessionsAreWhole` (what a handler is about to report was handed).

`StepEffect` lists what a step can do to a message's row and to `handed`; `Stability` and `Refinement`
follow from it.

### Inbox

From `InboxAssumption`: `InboxTypeOK`, `AcknowledgedWasShown` (`DeliveredWasShown`), `ReloadShowsNothingTwice`
(`NoRepeatAfterReload`), `ClosedForGood` (`ConsumedForGood`) and `Refinement` (`ImplementsMailbox`). None of the safety properties is
inductive. `Inv` adds

* `CallsAreWhole`: a call waiting for its put has its message in `store`; so the completion of the put makes durable
  something the store really holds, although another call's put of the same message may have failed.
* `AcksAreShown`: acknowledgements on their way are for messages that were displayed.
* `ShownIsDurable`: what was displayed is durable (602 and 1031 come after the completion of the put, 183), and a call
  past the second check carries nothing that was displayed before the last reload, since that check reads the store.

For the refinement `OnlyStored` says that nothing of a message exists before it is stored; `StepImplements` then goes through the
steps: storing is `Post`, the first display is `Hand`, the server taking an ack is `Confirm`, and all others stutter. A reload is
a stutter because what it clears from the page it adds to `seen`, and an ack taken twice because the row was delivered already.

### ClientSocket

From `ClientSocketAssumption`, for any set of WebSocket objects and of forms, any bounds and any mishaps: `ClientSocketTypeOK`,
`ReadinessTellsTheTruth` (`ReadinessIsTrue`), `OfflineTabsRetry` (`OfflineIsWatched`) and `SessionsAreEnded` (`SessionsAreWatched`). The
last two are the safety halves of `OnlineOrLate` and `LeftSessionsEnd`: at every moment an event is due that leads on, which
is what a path without a `setTimeout` or a `close` would break; that it happens is the fairness. No run checks these two by
themselves, since the liveness properties contain them. The layers of `Inv`:

1. `Wires`: over the types, an object is opened with nothing left of an earlier connection (`Unopened`), and frames were
   written by sessions that were served (`Written`). So a `ready` that arrives comes from a session that is served, or was.
2. `Readiness`: `socketReady` speaks of `state.socket` (`ReadyIsServed`), because it is set only for the WebSocket
   that is `state.socket` (933) and cleared when another takes its place (915); no frame stays parked once it is set, and as long as
   there is a token and no form at work it does not outlive the close event.
3. `Watched`: an object that is being opened, or is open without being the channel, has its handshake timer, unless the
   timer fired while it was connecting. This is where `late` comes from: without that exception it is false.
4. `Retrying`: a logged-in tab has a WebSocket, and a reconnect timer if that one has ended, or a form about to make one.

### PeerPins

From `PinsAssumption`: `PeerPinsTypeOK`, `MessagesAreTrusted` (`SentUnderConfirmedKeys`), `VerifiedPinsAreTrusted`
(`PinsAreConfirmed`), `PanelTellsTheTruth` (`PanelIsTrue`) and `PinsStay` (`SerialPinsStay`). The second and third support each other: a flag is read from a pin and written back to it. `Inv` adds
`FlagsAreConfirmed` (a flag belongs to confirmed keys from the moment the pin's keys were compared, which is why a call
that found other keys is excepted), `WritingIsConfirmed` (a message keeps the object it was started with), and, for the
types, `CallsAreWhole` and `PutsAreOfCalls`.

The last two rest on `Order`: as long as `serial` is TRUE,

* one call of `loadPeer` is under way (`Alone`), and what it read of the pin is still so when it puts (`Fresh`);
* every object that was put has the keys of its pin (`Held`), and the one shown is marked if the pin is (`Panel`), but not only
  then, since a put of the button may fail after the mark (833-834): only the button marks, it marks the object that is active (`OfferIsActive`), and its put goes out in the order of the store;
* the title is the contact of the click under way or else of the active object (`Titled`).

`Lines` holds without `serial`: only an incoming message fetches keys, a call has one put of its own, and the button is never
for an object other than the active one. These are needed for `Order` to be inductive: without `LoadsOnce` an older put
of the same call could complete after it.

### Accounts

From `AccountsAssumption`: `AccountsTypeOK`, `KeysAreOfAccounts` (`KeysAreServed`), `SessionsAreWhole`, `KeysAreKept`.
`Inv` has three layers over types and `FormsAreWhole`:

1. `GrantsAreServed` and `OpenedAreServed`: a granted registration is the account, and the keys a form opens are the
   account's. An account is created only where there was none, and then no record, form or page can refer to it yet.
2. `KeysAreOnTheWay`: unless something came in the way, keys that are in no browser belong to a granted registration.
3. `SessionsAreOwn`: on a page whose forms have not crossed at most one form is under way, none once the
   application is shown, and a form that asked `/api/me` has set the session. `SessionIsConsistent` needs it: line 704 shows
   the application without looking at token and keys again.

### LoginLimiter

From `LimiterAssumption`, for any number of threads, limit, window and stall: `LoginLimiterTypeOK`, `LimitIsKept` (`LimitHolds`, of
`BoundedBucket` and `WindowBound`) and `RefusalIsForCause` (`RefusalsAreDue`).

* `BoundedBucket` is inductive with the types: a call is allowed only below the limit, with at most every other
  thread between its test and its append, and an append takes a thread out of their number.
* `WindowBound` is about `wrong`, what was tried, not about the deque, and the deque is not in order. `Accounted` connects them: there are
  two injections, of some of the wrong passwords of the window into the places of the deque that hold their times, and of the others into
  the threads that are about to record them. Pruning keeps the first, since what leaves has expired for a clock that is not ahead
  (`PrunedKeepsPlaces`); so `WindowBound` follows from `BoundedBucket` by counting.
* `RefusalsAreDue` is the converse: a refused call finds `LOGIN_MAX_ATTEMPTS` failures of its own window, give or take a stall.
  Pruning stops at the first that has not expired (`PrunedStops`), and those behind it are older by at most a stall
  (`DisorderIsBounded`, inductive). TLC agrees with both on the instance of `limiter`, and refutes the bound less one; no run
  includes them.

### Tokens

From `TokensAssumption`, for any TTL the environment asks for and any bounds: `TokensTypeOK`, `TokensAreHonoured`
(`IssuedAreAccepted`) and `OldHoldersExpire` (`StrangersExpire`). `TokensInv` adds `Dated` (every token is issued for the clamped TTL, and
not in the future unless the clock was set back), `Owned` (a token whose holder does not own the account was issued before the last
restore) and `Visited`, the same for sockets, which were opened with such a token while it lasted.

### LegacyServer

From `LegacyAssumption`, for any users and connections: `LegacyServerTypeOK`, `RoutesAreTrue` (`RoutesMatchConnections`),
`KeysFollow`, `ListsConverge` (`ListsHeal`). The layers over the types:

1. `Bound`: a thread writes and drops only the name of its own hello, and has left `clients` before it drops.
2. `Owed`: a thread about to drop finds its own route or none, unless a newer one was written after its test.
3. `Fresh`: two threads register one name at once only if it clashed; otherwise the one about to publish keys has the route.
4. `Lists`: if the last list was read while none was being sent, one thread at a time sends, and, unless another is due, what
   it sends is current and goes to every client that lacks it. Whoever changes the names is due until it has read the list.

### LegacyClient

From `ClientAssumption`, for any peers, keys, envelopes and replay window: `LegacyClientTypeOK`, `OnlyConfirmedKeys`
(`SentUnderConfirmed`), `PinsAreSaved` (`FileHoldsPins`), `ReplaysAreOldOnes` (`ReplaysAreOld`), `OneIdentity` (`IdentityIsStable`) and
`PinsStay` (`PinnedKeysStay`). The layers over the types:

1. `Trusted`: a pin marked as verified, in memory, in the file or in a buffer, was confirmed, and so was what a send that
   went past the dialog carries.
2. `Undisputed`: unless the threads raced for a peer, one about to pin it finds it unpinned, and the dialog is about the pinned key.
3. `Saved`: unless saves mixed, what a thread writes are the pins, or the other thread is about to open the file itself.
4. `Owner`: keys were announced only if both files hold them, and new ones are made only if the files are not whole.
5. `Window`: what is remembered are ids taken since the start, the last among them, and as many as were taken, or
   `REPLAY_WINDOW + 1`. So none has been forgotten before more than that were taken, and a replay that passes finds
   `REPLAY_WINDOW + 1` other ids remembered.

### Only model-checked

The liveness properties, since the prover has no means for fairness: `EventuallyHanded`, `RetriesWork`, `OnlineOrLate`,
`LeftSessionsEnd`, `LockoutEnds` and `ComeToRest`. Of `OnlineOrLate` and `LeftSessionsEnd` the safety halves are proved, and
`NothingForgotten` is that of `EventuallyHanded`. Every invariant and
every action property that a passing run checks is also the statement of a theorem.

## 6. Not modelled

* Cryptography, password hashing, the coding of tokens, rendering, audit contents, listings: stateless or presentation.
* `Accounts`: `migrateLegacyIdentities`, the persistence probe, the legacy scrypt hash and the rehash of a password at login.
* Scripts: what a backup and a restore do to the server is in `Tokens`; that a browser's pins and identity record may be
  those of an account that a restore has removed, and that a login compares only the password and the local record
  (`app.js` 629), is not.
* `LoginLimiter`: Retry-After is rounded down and does not make room if the bucket holds more failures than attempts; buckets of
  idle users are never dropped.
* Two tabs of one user can replace each other for ever: a session closed with 4001 reconnects like any other
  (`app.js` 985). `Delivery` allows this until `calm`, and its liveness assumes one tab afterwards.
* `LegacyClient`: a file of own keys that cannot be read for a moment (`load_keys` then answers `None`, and both are made anew, 47, 241);
  that a click between lines 406 and 407 may connect again; a window that is busy for so long that the server gives up.
  After a hello that fails, `sock` stays set and nothing reads from it (250-254); the model reaches this, no property is about it.

## 7. Plan

Order of the work: the relay and its abstraction first, since everything else hangs on it; then the pages
that use it; then proofs.

Done: `Delivery`, `Mailbox`, `Inbox`, `ClientSocket`, `PeerPins`, `LoginLimiter`, `Accounts`, `Tokens`, `LegacyServer`,
`LegacyClient`, with their runs; the proofs of section 5, which cover the safety of all of them.

Next, models:

1. End to end: `Delivery` composed with the receiving side of `Inbox`, to state what a sender's
   `delivered` means for what the recipient has seen; and `LegacyServer` with two `LegacyClient`s.
2. `Accounts`: `migrateLegacyIdentities`, the persistence probe, and a database restored from an older backup.
3. `LoginLimiter`: Retry-After as a promise to the user.

Next, proofs:

1. The composition of `Delivery` and `Inbox`, once it is modelled: that it implements `Mailbox` with the meaning `handed` has in `Inbox`.
2. `LegacyClient`: that while the receiving thread is blocked each step of the window's thread is one that no frame has to bring,
   which is what `ComeToRest` needs besides fairness.
