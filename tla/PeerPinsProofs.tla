--------------------------- MODULE PeerPinsProofs ---------------------------
(***************************************************************************)
(* Proofs about PeerPins: for any number of contacts, keys, calls of       *)
(* loadPeer and messages under way, a message leaves the page only under   *)
(* keys of its addressee that the user confirmed, and so is every pin that *)
(* is marked as verified.  In the second half: as long as no call of       *)
(* loadPeer is overtaken, pins stay, title, active contact and pin are of  *)
(* one contact, and the panel calls keys verified that the user confirmed. *)
(***************************************************************************)
EXTENDS PeerPins, TLAPS

\* A call that got the keys of a contact has both.
CallsAreWhole ==
    \A c \in Call :
        /\ pc[c] # "idle" => of[c] \in Peer
        /\ pc[c] \notin {"idle", "fetch"} => key[c] \in Key

\* The puts under way are those of calls that wait for them and of objects.
PutsAreOfCalls ==
    \A n \in 1..Len(puts) :
        /\ pc[puts[n].call] \in {"put", "made"}
        /\ puts[n].by = "mark" => pc[puts[n].call] = "made"

\* A flag that is set belongs to keys the user confirmed, unless the call has
\* found that the pin it read has other keys.
FlagsAreConfirmed ==
    \A c \in Call : pc[c] \in {"read", "put", "made"} /\ verified[c] => <<of[c], key[c]>> \in confirmed

\* So do the keys a message is being encrypted with.
WritingIsConfirmed ==
    \A s \in Sender : writing[s] # NoCall => <<of[writing[s]], key[writing[s]]>> \in confirmed

Base  == TypeOK /\ CallsAreWhole /\ PutsAreOfCalls
Trust == FlagsAreConfirmed /\ WritingIsConfirmed /\ SentUnderConfirmedKeys /\ PinsAreConfirmed
Inv   == Base /\ Trust

\* What the steps leave alone, or change, of the trust the page has in keys.
Quiet == UNCHANGED <<pins, of, key, verified, writing, sent, confirmed>>

-----------------------------------------------------------------------------
\* Nothing is pinned, loaded, offered or sent at first.
LEMMA InitInv == Init => Inv
<1> SUFFICES ASSUME Init PROVE Inv
  OBVIOUS
<1>1. TypeOK
  <2>1. puts \in Seq(Write) /\ sent \subseteq Message /\ confirmed \subseteq Peer \X Key
    BY DEF Init
  <2>2. peers \in [Peer -> Object \cup {NoCall}] /\ writing \in [Sender -> Object \cup {NoCall}]
    BY DEF Init
  <2>3. pc \in [Call -> Stage] /\ kind \in [Call -> {"select", "incoming"}]
    BY DEF Init, Stage
  <2>4. QED
    BY <2>1, <2>2, <2>3 DEF Init, TypeOK
<1>2. CallsAreWhole /\ PutsAreOfCalls /\ Trust
  BY DEF Init, CallsAreWhole, PutsAreOfCalls, Trust, FlagsAreConfirmed, WritingIsConfirmed,
         SentUnderConfirmedKeys, PinsAreConfirmed, Pinned
<1>3. QED
  BY <1>1, <1>2 DEF Inv, Base

\* renderActivePeer offers an object that exists, or none.
LEMMA RenderedTyped ==
  ASSUME active' \in Object' \cup {NoCall}, verified' \in [Call -> BOOLEAN],
         enabled \in BOOLEAN, offered \in Object' \cup {NoCall}, Rendered
  PROVE  enabled' \in BOOLEAN /\ offered' \in Object' \cup {NoCall}
BY DEF Rendered, Object

\* A call of loadPeer that starts, or gets its keys, has read the pin.
LEMMA ReadStep ==
  ASSUME Inv, NEW c \in Call, NEW p \in Peer, NEW k \in Key, Read(c, p, k),
         pc[c] \in {"idle", "fetch"}, kind' \in [Call -> {"select", "incoming"}],
         title' \in Peer \cup {NoPeer}, enabled' \in BOOLEAN, serial' \in BOOLEAN,
         UNCHANGED <<server, pins, peers, active, offered, puts, writing, log>>
  PROVE  Inv'
<1>1. /\ pc' = [pc EXCEPT ![c] = IF Matches(p, k) THEN "read" ELSE "clash"]
      /\ of' = [of EXCEPT ![c] = p] /\ key' = [key EXCEPT ![c] = k]
      /\ verified' = [verified EXCEPT ![c] = Pinned(p) /\ pins[p].verified]
  BY DEF Read
<1>2. Object' = Object
  BY <1>1 DEF Object, Inv, Base, TypeOK
<1>3. (Pinned(p) /\ pins[p].verified) \in BOOLEAN
  BY DEF Inv, Base, TypeOK, Pin, Pinned
<1>4. TypeOK'
  <2>1. verified' \in [Call -> BOOLEAN] /\ of' \in [Call -> Peer \cup {NoPeer}]
    BY <1>1, <1>3 DEF Inv, Base, TypeOK
  <2>2. pc' \in [Call -> Stage] /\ key' \in [Call -> Key \cup {NoKey}]
    BY <1>1 DEF Inv, Base, TypeOK, Stage
  <2>3. QED
    BY <1>2, <2>1, <2>2 DEF Inv, Base, TypeOK, server, log
<1>5. CallsAreWhole'
  BY <1>1 DEF Inv, Base, TypeOK, CallsAreWhole
<1>6. PutsAreOfCalls'
  BY <1>1 DEF Inv, Base, TypeOK, PutsAreOfCalls, Write
<1>7. FlagsAreConfirmed'
  <2> SUFFICES ASSUME NEW d \in Call, pc'[d] \in {"read", "put", "made"}, verified'[d]
      PROVE <<of'[d], key'[d]>> \in confirmed
    BY DEF FlagsAreConfirmed, log
  <2>1. CASE d = c
    BY <1>1, <2>1 DEF Inv, Base, TypeOK, Trust, PinsAreConfirmed, Matches
  <2>2. CASE d # c
    BY <1>1, <2>2 DEF Inv, Base, TypeOK, Trust, FlagsAreConfirmed
  <2>3. QED
    BY <2>1, <2>2
<1>8. WritingIsConfirmed'
  <2>1. \A s \in Sender : writing[s] # NoCall => writing[s] \in Call /\ writing[s] # c
    BY DEF Inv, Base, TypeOK, Object
  <2>2. QED
    BY <1>1, <2>1 DEF Inv, Base, TypeOK, Trust, WritingIsConfirmed, log
<1>9. QED
  BY <1>4, <1>5, <1>6, <1>7, <1>8
     DEF Inv, Base, Trust, SentUnderConfirmedKeys, PinsAreConfirmed, Pinned, log

\* A call that fails leaves no object behind.
LEMMA DropStep ==
  ASSUME Inv, NEW c \in Call, Drop(c), pc[c] \in {"fetch", "read", "clash"},
         active' \in {active, NoCall},
         UNCHANGED <<server, pins, peers, title, enabled, offered, puts, writing, log, serial>>
  PROVE  Inv'
<1>1. Object' = Object
  BY DEF Drop, Object, Inv, Base, TypeOK
<1>2. TypeOK'
  BY <1>1 DEF Drop, Inv, Base, TypeOK, Stage, server, log
<1>3. CallsAreWhole'
  BY DEF Drop, Inv, Base, TypeOK, CallsAreWhole
<1>4. PutsAreOfCalls'
  BY DEF Drop, Inv, Base, TypeOK, PutsAreOfCalls, Write
<1>5. FlagsAreConfirmed'
  BY DEF Drop, Inv, Base, TypeOK, Trust, FlagsAreConfirmed, log
<1>6. WritingIsConfirmed'
  <2>1. \A s \in Sender : writing[s] # NoCall => writing[s] \in Call /\ writing[s] # c
    BY DEF Inv, Base, TypeOK, Object
  <2>2. QED
    BY <2>1 DEF Drop, Inv, Base, TypeOK, Trust, WritingIsConfirmed, log
<1>7. QED
  BY <1>2, <1>3, <1>4, <1>5, <1>6
     DEF Inv, Base, Trust, SentUnderConfirmedKeys, PinsAreConfirmed, Pinned, log

\* A step that changes neither calls nor what is trusted.
LEMMA QuietStep ==
  ASSUME Inv, Quiet, UNCHANGED <<pc, kind>>,
         serving' \in [Peer -> Key], listed' \in [Peer -> Key],
         peers' \in [Peer -> Object \cup {NoCall}],
         active' \in Object \cup {NoCall}, offered' \in Object \cup {NoCall},
         title' \in Peer \cup {NoPeer}, enabled' \in BOOLEAN, serial' \in BOOLEAN,
         puts' \in Seq(Write),
         \A n \in 1..Len(puts') : \E m \in 1..Len(puts) : puts'[n] = puts[m]
  PROVE  Inv'
<1>1. Object' = Object
  BY DEF Object
<1>2. TypeOK'
  BY <1>1 DEF Quiet, Inv, Base, TypeOK
<1>3. PutsAreOfCalls'
  BY DEF Inv, Base, PutsAreOfCalls
<1>4. QED
  BY <1>2, <1>3
     DEF Quiet, Inv, Base, CallsAreWhole, Trust, FlagsAreConfirmed, WritingIsConfirmed,
         SentUnderConfirmedKeys, PinsAreConfirmed, Pinned

\* The oldest put completes: the others are still those of calls.
LEMMA CompletesPops ==
  ASSUME NEW w, puts \in Seq(Write), Completes(w)
  PROVE  /\ puts' \in Seq(Write) /\ w \in Write /\ 1 \in 1..Len(puts) /\ puts[1] = w
         /\ \A n \in 1..Len(puts') : \E m \in 1..Len(puts) : puts'[n] = puts[m]
<1>1. puts # <<>> /\ puts' = Tail(puts) /\ w = puts[1]
  BY DEF Completes
<1>2. Len(puts) > 0 /\ puts' \in Seq(Write) /\ Len(puts') = Len(puts) - 1
      /\ \A n \in 1..Len(puts') : puts'[n] = puts[n + 1]
  BY <1>1
<1>3. w \in Write
  BY <1>1, <1>2
<1>4. QED
  BY <1>1, <1>2, <1>3

-----------------------------------------------------------------------------
\* The pin that is written has the flag and the keys of the call.
LEMMA PutStep ==
  ASSUME Inv, NEW c \in Call, Put(c)
  PROVE  Inv'
<1>. DEFINE pin == [key |-> key[c], verified |-> verified[c]]
<1>1. /\ pc[c] = "read" /\ pc' = [pc EXCEPT ![c] = "put"]
      /\ pins' = [pins EXCEPT ![of[c]] = pin]
      /\ puts' = Append(puts, [by |-> "load", call |-> c])
      /\ UNCHANGED <<server, kind, of, key, verified, peers, display, writing, log, serial>>
  BY DEF Put
<1>2. of[c] \in Peer /\ key[c] \in Key /\ verified[c] \in BOOLEAN /\ pin \in Pin
  BY <1>1 DEF Inv, Base, TypeOK, CallsAreWhole, Pin
<1>3. Object' = Object
  BY <1>1 DEF Object, Inv, Base, TypeOK
<1>4. TypeOK'
  <2>1. pins' \in [Peer -> Pin \cup {Unpinned}] /\ puts' \in Seq(Write)
    BY <1>1, <1>2 DEF Inv, Base, TypeOK, Write
  <2>2. pc' \in [Call -> Stage]
    BY <1>1 DEF Inv, Base, TypeOK, Stage
  <2>3. QED
    BY <1>1, <1>3, <2>1, <2>2 DEF Inv, Base, TypeOK, server, display, log
<1>5. CallsAreWhole'
  BY <1>1 DEF Inv, Base, TypeOK, CallsAreWhole
<1>6. PutsAreOfCalls'
  <2>1. \A n \in 1..Len(puts') :
           (n \in 1..Len(puts) /\ puts'[n] = puts[n]) \/ puts'[n] = [by |-> "load", call |-> c]
    BY <1>1 DEF Inv, Base, TypeOK
  <2>2. QED
    BY <1>1, <2>1 DEF Inv, Base, TypeOK, PutsAreOfCalls, Write
<1>7. FlagsAreConfirmed' /\ WritingIsConfirmed' /\ SentUnderConfirmedKeys'
  BY <1>1 DEF Inv, Base, TypeOK, Trust, FlagsAreConfirmed, WritingIsConfirmed, SentUnderConfirmedKeys, log
<1>8. PinsAreConfirmed'
  <2> SUFFICES ASSUME NEW p \in Peer, Pinned(p)', pins'[p].verified
      PROVE <<p, pins'[p].key>> \in confirmed
    BY <1>1 DEF PinsAreConfirmed, log
  <2>1. CASE p = of[c]
    BY <1>1, <1>2, <2>1 DEF Inv, Base, TypeOK, Trust, FlagsAreConfirmed
  <2>2. CASE p # of[c]
    BY <1>1, <2>2 DEF Inv, Base, TypeOK, Trust, PinsAreConfirmed, Pinned
  <2>3. QED
    BY <2>1, <2>2
<1>9. QED
  BY <1>4, <1>5, <1>6, <1>7, <1>8 DEF Inv, Base, Trust

\* The call's put completes and its object is shared.
LEMMA MadeStep ==
  ASSUME Inv, NEW c \in Call, Made(c)
  PROVE  Inv'
<1>1. /\ Completes([by |-> "load", call |-> c]) /\ pc' = [pc EXCEPT ![c] = "made"]
      /\ peers' = [peers EXCEPT ![of[c]] = c] /\ verified' = verified
      /\ (active' = c /\ Rendered) \/ UNCHANGED <<active, enabled, offered>>
      /\ UNCHANGED <<server, pins, kind, of, key, title, writing, log, serial>>
  BY DEF Made
<1>2. /\ puts' \in Seq(Write) /\ pc[c] \in {"put", "made"}
      /\ \A n \in 1..Len(puts') : \E m \in 1..Len(puts) : puts'[n] = puts[m]
  BY <1>1, CompletesPops DEF Inv, Base, TypeOK, PutsAreOfCalls
<1>3. Object' = Object \cup {c}
  BY <1>1 DEF Object, Inv, Base, TypeOK
<1>4. TypeOK'
  <2>1. active' \in Object' \cup {NoCall} /\ verified' \in [Call -> BOOLEAN]
        /\ enabled \in BOOLEAN /\ offered \in Object' \cup {NoCall}
    BY <1>1, <1>3 DEF Inv, Base, TypeOK
  <2>2. enabled' \in BOOLEAN /\ offered' \in Object' \cup {NoCall}
    BY <1>1, <2>1, RenderedTyped
  <2>3. /\ peers' \in [Peer -> Object' \cup {NoCall}] /\ writing' \in [Sender -> Object' \cup {NoCall}]
        /\ pc' \in [Call -> Stage]
    BY <1>1, <1>3 DEF Inv, Base, TypeOK, Stage
  <2>4. QED
    BY <1>1, <1>2, <2>1, <2>2, <2>3 DEF Inv, Base, TypeOK, server, log
<1>5. CallsAreWhole'
  BY <1>1, <1>2 DEF Inv, Base, TypeOK, CallsAreWhole
<1>6. PutsAreOfCalls'
  <2>1. \A d \in Call : pc[d] \in {"put", "made"} => pc'[d] \in {"put", "made"}
    BY <1>1 DEF Inv, Base, TypeOK
  <2>2. \A d \in Call : pc[d] = "made" => pc'[d] = "made"
    BY <1>1 DEF Inv, Base, TypeOK
  <2>3. \A m \in 1..Len(puts) : puts[m].call \in Call
    <3>1. \A m \in 1..Len(puts) : puts[m] \in Write
      BY DEF Inv, Base, TypeOK
    <3>2. QED
      BY <3>1 DEF Write
  <2>4. QED
    BY <1>2, <2>1, <2>2, <2>3 DEF Inv, Base, PutsAreOfCalls
<1>7. Trust'
  BY <1>1, <1>2
     DEF Inv, Base, TypeOK, Trust, FlagsAreConfirmed, WritingIsConfirmed, SentUnderConfirmedKeys,
         PinsAreConfirmed, Pinned, log
<1>8. QED
  BY <1>4, <1>5, <1>6, <1>7 DEF Inv, Base

\* The user confirms the keys of the object that is offered.
LEMMA MarkStep ==
  ASSUME Inv, Mark
  PROVE  Inv'
<1>1. PICK c \in Call : c = offered /\ pc[c] = "made"
  BY DEF Mark, Click, Inv, Base, TypeOK, Object
<1>. DEFINE pin == [key |-> key[c], verified |-> TRUE]
<1>2. /\ verified' = [verified EXCEPT ![c] = TRUE]
      /\ pins' = [pins EXCEPT ![of[c]] = pin]
      /\ puts' = Append(puts, [by |-> "mark", call |-> c])
      /\ confirmed' = confirmed \cup {<<of[c], key[c]>>} /\ serial' \in BOOLEAN
      /\ UNCHANGED <<server, pc, kind, of, key, peers, display, writing, sent>>
  BY <1>1 DEF Mark, Click, InLine, Idle, Inv, Base, TypeOK
<1>3. of[c] \in Peer /\ key[c] \in Key /\ pin \in Pin /\ Object' = Object
  BY <1>1, <1>2 DEF Inv, Base, CallsAreWhole, Pin, Object
<1>4. TypeOK'
  <2>1. pins' \in [Peer -> Pin \cup {Unpinned}] /\ puts' \in Seq(Write)
    BY <1>2, <1>3 DEF Inv, Base, TypeOK, Write
  <2>2. verified' \in [Call -> BOOLEAN] /\ confirmed' \subseteq Peer \X Key
    BY <1>2, <1>3 DEF Inv, Base, TypeOK
  <2>3. QED
    BY <1>2, <1>3, <2>1, <2>2 DEF Inv, Base, TypeOK, server, display
<1>5. CallsAreWhole'
  BY <1>2 DEF Inv, Base, CallsAreWhole
<1>6. PutsAreOfCalls'
  <2>1. \A n \in 1..Len(puts') :
           (n \in 1..Len(puts) /\ puts'[n] = puts[n]) \/ puts'[n] = [by |-> "mark", call |-> c]
    BY <1>2 DEF Inv, Base, TypeOK
  <2>2. QED
    BY <1>1, <1>2, <2>1 DEF Inv, Base, PutsAreOfCalls
<1>7. FlagsAreConfirmed'
  BY <1>2 DEF Inv, Base, TypeOK, Trust, FlagsAreConfirmed
<1>8. WritingIsConfirmed' /\ SentUnderConfirmedKeys'
  BY <1>2 DEF Inv, Base, TypeOK, Trust, WritingIsConfirmed, SentUnderConfirmedKeys
<1>9. PinsAreConfirmed'
  <2> SUFFICES ASSUME NEW p \in Peer, Pinned(p)', pins'[p].verified
      PROVE <<p, pins'[p].key>> \in confirmed'
    BY DEF PinsAreConfirmed
  <2>1. CASE p = of[c]
    BY <1>2, <1>3, <2>1 DEF Inv, Base, TypeOK
  <2>2. CASE p # of[c]
    BY <1>2, <2>2 DEF Inv, Base, TypeOK, Trust, PinsAreConfirmed, Pinned
  <2>3. QED
    BY <2>1, <2>2
<1>10. QED
  BY <1>4, <1>5, <1>6, <1>7, <1>8, <1>9 DEF Inv, Base, Trust

\* The user confirms them and the put fails: the object alone is marked.
LEMMA MarkFailsStep ==
  ASSUME Inv, MarkFails
  PROVE  Inv'
<1>1. PICK c \in Call : c = offered /\ pc[c] = "made"
  BY DEF MarkFails, Click, Inv, Base, TypeOK, Object
<1>2. /\ verified' = [verified EXCEPT ![c] = TRUE]
      /\ confirmed' = confirmed \cup {<<of[c], key[c]>>} /\ serial' \in BOOLEAN
      /\ UNCHANGED <<server, pc, kind, of, key, peers, display, writing, sent, pins, puts>>
  BY <1>1 DEF MarkFails, Click, InLine, Idle, Inv, Base, TypeOK
<1>3. of[c] \in Peer /\ key[c] \in Key /\ Object' = Object
  BY <1>1, <1>2 DEF Inv, Base, CallsAreWhole, Object
<1>4. TypeOK'
  <2>1. verified' \in [Call -> BOOLEAN] /\ confirmed' \subseteq Peer \X Key
    BY <1>2, <1>3 DEF Inv, Base, TypeOK
  <2>2. QED
    BY <1>2, <1>3, <2>1 DEF Inv, Base, TypeOK, server, display
<1>5. CallsAreWhole' /\ PutsAreOfCalls'
  BY <1>2 DEF Inv, Base, CallsAreWhole, PutsAreOfCalls
<1>6. FlagsAreConfirmed'
  BY <1>2 DEF Inv, Base, TypeOK, Trust, FlagsAreConfirmed
<1>7. WritingIsConfirmed' /\ SentUnderConfirmedKeys' /\ PinsAreConfirmed'
  BY <1>2 DEF Inv, Base, TypeOK, Trust, WritingIsConfirmed, SentUnderConfirmedKeys, PinsAreConfirmed, Pinned
<1>8. QED
  BY <1>4, <1>5, <1>6, <1>7 DEF Inv, Base, Trust

\* The put of the verify button completes.
LEMMA MarkedStep ==
  ASSUME Inv, NEW c \in Call, Marked(c)
  PROVE  Inv'
<1>1. /\ Completes([by |-> "mark", call |-> c])
      /\ peers' = [peers EXCEPT ![of[c]] = c]
      /\ UNCHANGED <<active, title, verified>> /\ Rendered
      /\ UNCHANGED <<server, pins, pc, kind, of, key, writing, log, serial>>
  BY DEF Marked
<1>2. /\ puts' \in Seq(Write) /\ c \in Object /\ Object' = Object
      /\ \A n \in 1..Len(puts') : \E m \in 1..Len(puts) : puts'[n] = puts[m]
  BY <1>1, CompletesPops DEF Inv, Base, TypeOK, PutsAreOfCalls, Object
<1>3. enabled' \in BOOLEAN /\ offered' \in Object \cup {NoCall}
  BY <1>1, <1>2, RenderedTyped DEF Inv, Base, TypeOK
<1>4. peers' \in [Peer -> Object \cup {NoCall}]
  BY <1>1, <1>2 DEF Inv, Base, TypeOK
<1>5. QED
  BY <1>1, <1>2, <1>3, <1>4, QuietStep DEF Quiet, Inv, Base, TypeOK, server, log

\* A message is encrypted for an object that is verified.
LEMMA SubmitStep ==
  ASSUME Inv, NEW s \in Sender, Submit(s)
  PROVE  Inv'
<1>1. PICK c \in Object : c = active /\ verified[c]
  BY DEF Submit, Inv, Base, TypeOK
<1>2. writing' = [writing EXCEPT ![s] = c] /\ UNCHANGED <<server, pins, loads, peers, display, puts, log, serial>>
  BY <1>1 DEF Submit
<1>3. Base'
  BY <1>2 DEF Inv, Base, TypeOK, CallsAreWhole, PutsAreOfCalls, Object, server, loads, display, log
<1>4. WritingIsConfirmed'
  BY <1>1, <1>2 DEF Inv, Base, TypeOK, Trust, WritingIsConfirmed, FlagsAreConfirmed, Object, loads, log
<1>5. QED
  BY <1>2, <1>3, <1>4
     DEF Inv, Trust, FlagsAreConfirmed, SentUnderConfirmedKeys, PinsAreConfirmed, Pinned, loads, log

\* The message leaves with the keys it was started with.
LEMMA SendStep ==
  ASSUME Inv, NEW s \in Sender, Send(s)
  PROVE  Inv'
<1>1. PICK c \in Object : c = writing[s]
  BY DEF Send, Inv, Base, TypeOK
<1>2. /\ sent' = IF active = NoCall THEN sent ELSE {[to |-> of[c], key |-> key[c], recipient |-> of[active]]}
      /\ writing' = [writing EXCEPT ![s] = NoCall]
      /\ UNCHANGED <<active, title, verified>> /\ Rendered
      /\ UNCHANGED <<server, pins, pc, kind, of, key, peers, puts, confirmed, serial>>
  BY <1>1 DEF Send
<1>3. Object' = Object /\ <<of[c], key[c]>> \in confirmed
  BY <1>1, <1>2, PinsAssumption DEF Object, Inv, Trust, WritingIsConfirmed
<1>4. enabled' \in BOOLEAN /\ offered' \in Object \cup {NoCall}
  BY <1>2, <1>3, RenderedTyped DEF Inv, Base, TypeOK
<1>5. sent' \subseteq Message
  BY <1>1, <1>2 DEF Inv, Base, TypeOK, CallsAreWhole, Object, Message
<1>6. TypeOK'
  BY <1>2, <1>3, <1>4, <1>5 DEF Inv, Base, TypeOK, server
<1>7. CallsAreWhole' /\ PutsAreOfCalls'
  BY <1>2 DEF Inv, Base, CallsAreWhole, PutsAreOfCalls
<1>8. SentUnderConfirmedKeys'
  <2>1. CASE active = NoCall
    BY <1>2, <2>1 DEF Inv, Trust, SentUnderConfirmedKeys
  <2>2. CASE active # NoCall
    <3> SUFFICES ASSUME NEW m, m = [to |-> of[c], key |-> key[c], recipient |-> of[active]]
        PROVE <<m.to, m.key>> \in confirmed
      BY <1>2, <2>2 DEF SentUnderConfirmedKeys
    <3>1. m.to = of[c] /\ m.key = key[c]
      OBVIOUS
    <3>2. QED
      BY <1>3, <3>1
  <2>3. QED
    BY <2>1, <2>2
<1>9. FlagsAreConfirmed' /\ WritingIsConfirmed' /\ PinsAreConfirmed'
  BY <1>2 DEF Inv, Base, TypeOK, Trust, FlagsAreConfirmed, WritingIsConfirmed, PinsAreConfirmed, Pinned
<1>10. QED
  BY <1>6, <1>7, <1>8, <1>9 DEF Inv, Base, Trust

\* A reload leaves the pins and what was confirmed.
LEMMA ReloadStep ==
  ASSUME Inv, Reload
  PROVE  Inv'
<1>1. TypeOK'
  <2>1. /\ pc' \in [Call -> Stage] /\ kind' \in [Call -> {"select", "incoming"}]
        /\ of' \in [Call -> Peer \cup {NoPeer}] /\ key' \in [Call -> Key \cup {NoKey}]
        /\ verified' \in [Call -> BOOLEAN]
    BY DEF Reload, Stage
  <2>2. /\ peers' \in [Peer -> Object' \cup {NoCall}] /\ writing' \in [Sender -> Object' \cup {NoCall}]
        /\ active' = NoCall /\ offered' = NoCall /\ title' = NoPeer /\ enabled' = FALSE
        /\ puts' = <<>>
    BY DEF Reload
  <2>3. UNCHANGED <<serving, pins, sent, confirmed, serial>> /\ listed' = serving
    BY DEF Reload, log
  <2>4. puts' \in Seq(Write)
    BY <2>2
  <2>5. QED
    BY <2>1, <2>2, <2>3, <2>4 DEF Inv, Base, TypeOK
<1>2. CallsAreWhole' /\ PutsAreOfCalls' /\ Trust'
  BY DEF Reload, Inv, CallsAreWhole, PutsAreOfCalls, Trust, FlagsAreConfirmed, WritingIsConfirmed,
         SentUnderConfirmedKeys, PinsAreConfirmed, Pinned, log
<1>3. QED
  BY <1>1, <1>2 DEF Inv, Base

\* Every step keeps the invariant.
LEMMA NextInv == Inv /\ [Next]_vars => Inv'
<1> SUFFICES ASSUME Inv, [Next]_vars PROVE Inv'
  OBVIOUS
<1>0. puts \in Seq(Write) /\ (InLine => serial' \in BOOLEAN)
  BY DEF InLine, Idle, Inv, Base, TypeOK
<1>1. CASE UNCHANGED vars \/ refreshUsers \/ Reconnected \/ Relogin \/ \E p \in Peer : Rotate(p)
  <2>1. Quiet /\ UNCHANGED <<pc, kind, puts>>
    BY <1>1 DEF vars, refreshUsers, Reconnected, Relogin, Rotate, Quiet, server, loads, display, log
  <2>2. serving' \in [Peer -> Key] /\ listed' \in [Peer -> Key] /\ serial' \in BOOLEAN
    BY <1>0, <1>1 DEF vars, refreshUsers, Reconnected, Relogin, Rotate, Inv, Base, TypeOK, server, InLine, Idle
  <2>3. peers' \in [Peer -> Object \cup {NoCall}] /\ active' \in Object \cup {NoCall} /\ title' \in Peer \cup {NoPeer}
    BY <1>1 DEF vars, refreshUsers, Reconnected, Relogin, Rotate, Inv, Base, TypeOK, display
  <2>4. enabled' \in BOOLEAN /\ offered' \in Object \cup {NoCall}
    <3>1. CASE Reconnected
      <4>1. Object' = Object
        BY <2>1 DEF Object
      <4>2. QED
        BY <2>1, <2>3, <3>1, <4>1, RenderedTyped DEF Reconnected, Inv, Base, TypeOK
    <3>2. CASE ~Reconnected
      BY <1>1, <3>2 DEF vars, refreshUsers, Relogin, Rotate, Inv, Base, TypeOK, display
    <3>3. QED
      BY <3>1, <3>2
  <2>5. puts' \in Seq(Write) /\ \A n \in 1..Len(puts') : \E m \in 1..Len(puts) : puts'[n] = puts[m]
    BY <1>0, <2>1
  <2>6. QED
    BY <2>1, <2>2, <2>3, <2>4, <2>5, QuietStep
<1>2. CASE Mark \/ MarkFails
  BY <1>2, MarkStep, MarkFailsStep
<1>3. CASE Reload
  BY <1>3, ReloadStep
<1>4. ASSUME NEW c \in Call, NEW p \in Peer, selectPeer(c, p) PROVE Inv'
  <2>1. listed[p] \in Key /\ serial' \in BOOLEAN
    BY <1>0, <1>4 DEF selectPeer, Inv, Base, TypeOK
  <2>2. QED
    BY <1>4, <2>1, ReadStep DEF selectPeer, Inv, Base, TypeOK
<1>5. ASSUME NEW c \in Call, NEW p \in Peer, Incoming(c, p) PROVE Inv'
  <2>1. /\ pc[c] = "idle" /\ pc' = [pc EXCEPT ![c] = "fetch"] /\ of' = [of EXCEPT ![c] = p]
        /\ kind' = [kind EXCEPT ![c] = "incoming"] /\ serial' \in BOOLEAN
        /\ UNCHANGED <<server, pins, key, verified, peers, display, puts, writing, log>>
    BY <1>0, <1>5 DEF Incoming
  <2>2. Object' = Object
    BY <2>1 DEF Object, Inv, Base, TypeOK
  <2>3. TypeOK'
    BY <2>1, <2>2 DEF Inv, Base, TypeOK, Stage, server, display, log
  <2>4. CallsAreWhole' /\ PutsAreOfCalls'
    BY <2>1 DEF Inv, Base, TypeOK, CallsAreWhole, PutsAreOfCalls, Write
  <2>5. FlagsAreConfirmed' /\ SentUnderConfirmedKeys' /\ PinsAreConfirmed'
    BY <2>1 DEF Inv, Base, TypeOK, Trust, FlagsAreConfirmed, SentUnderConfirmedKeys, PinsAreConfirmed,
                Pinned, log
  <2>6. WritingIsConfirmed'
    <3>1. \A s \in Sender : writing[s] # NoCall => writing[s] \in Call /\ writing[s] # c
      BY <2>1 DEF Inv, Base, TypeOK, Object
    <3>2. QED
      BY <2>1, <3>1 DEF Inv, Base, TypeOK, Trust, WritingIsConfirmed, log
  <2>7. QED
    BY <2>3, <2>4, <2>5, <2>6 DEF Inv, Base, Trust
<1>6. ASSUME NEW c \in Call, Answer(c) PROVE Inv'
  <2>1. of[c] \in Peer /\ serving[of[c]] \in Key
    BY <1>6 DEF Answer, Inv, Base, TypeOK, CallsAreWhole
  <2>2. CASE Read(c, of[c], serving[of[c]]) /\ UNCHANGED kind
    BY <1>6, <2>1, <2>2, ReadStep DEF Answer, Inv, Base, TypeOK, display
  <2>3. CASE Drop(c)
    BY <1>6, <2>3, DropStep DEF Answer, display
  <2>4. QED
    BY <1>6, <2>2, <2>3 DEF Answer
<1>7. ASSUME NEW c \in Call, Refuse(c) PROVE Inv'
  BY <1>7, DropStep DEF Refuse
<1>8. ASSUME NEW c \in Call, Put(c) \/ Made(c) \/ Marked(c) PROVE Inv'
  BY <1>8, PutStep, MadeStep, MarkedStep
<1>9. ASSUME NEW s \in Sender, Submit(s) \/ Send(s) PROVE Inv'
  BY <1>9, SubmitStep, SendStep
<1>10. QED
  BY <1>1, <1>2, <1>3, <1>4, <1>5, <1>6, <1>7, <1>8, <1>9 DEF Next, Load

-----------------------------------------------------------------------------
\* What the panel says, and the pins, while nothing overtakes a call of loadPeer.

Busy(c) == pc[c] \notin {"idle", "made"}

\* A click brings the keys of the contact list; only a message's call awaits
\* those of the server.
OnlyIncomingFetch == \A c \in Call : pc[c] = "fetch" => kind[c] = "incoming"

\* A call waits for one put, which is under way.
LoadsOnce ==
    /\ \A n \in 1..Len(puts) : puts[n].by = "load" => pc[puts[n].call] = "put"
    /\ \A n, m \in 1..Len(puts) :
          puts[n].by = "load" /\ puts[m].by = "load" /\ puts[n].call = puts[m].call => n = m

\* The verify button never marks another object than the active one, unless
\* the panel shows the contact of an earlier session.
OfferIsActive == offered # NoCall /\ active # NoCall => offered = active

Lines == OnlyIncomingFetch /\ LoadsOnce /\ OfferIsActive

\* One call at a time is under way.
Alone == \A c, d \in Call : Busy(c) /\ Busy(d) => c = d

\* What a call has read is still the pin.
Fresh ==
    \A c \in Call : pc[c] = "read" =>
        Matches(of[c], key[c]) /\ (verified[c] <=> Pinned(of[c]) /\ pins[of[c]].verified)

\* The keys of an object are pinned.
Held == \A c \in Call : pc[c] \in {"put", "made"} => Pinned(of[c]) /\ pins[of[c]].key = key[c]

\* The object of c is what the store has of its contact.
Stored(c) == pins[of[c]] = [key |-> key[c], verified |-> verified[c]]

\* What a load has put is what is stored, and what the store calls verified is
\* shown so; what is shown so need not be stored, if its put failed.
Panel ==
    /\ \A c \in Call : pc[c] = "put" => Stored(c)
    /\ active # NoCall => (pins[of[active]].verified => verified[active])

\* The title is the contact of the click under way or else of the active object.
Selecting(c) == Busy(c) /\ kind[c] = "select"

Titled ==
    /\ \A c \in Call : Selecting(c) => of[c] = title
    /\ active # NoCall /\ (\A c \in Call : ~Selecting(c)) => of[active] = title

Ordered == Alone /\ Fresh /\ Held /\ Panel /\ Titled

\* All of it holds until a call of loadPeer is overtaken.
Order == serial => Ordered

\* An object in use is not a call under way.
LEMMA InUse ==
  ASSUME Inv
  PROVE  /\ active # NoCall => active \in Call /\ pc[active] = "made"
         /\ offered # NoCall => offered \in Call /\ pc[offered] = "made"
BY DEF Inv, Base, TypeOK, Object

\* A put under way has a call of loadPeer.
LEMMA PutsHaveCalls ==
  ASSUME Inv
  PROVE  \A n \in 1..Len(puts) : puts[n] \in Write /\ puts[n].call \in Call
<1>1. \A n \in 1..Len(puts) : puts[n] \in Write
  BY DEF Inv, Base, TypeOK
<1>2. QED
  BY <1>1 DEF Write

\* No call is under way at first.
LEMMA InitOrder == Init => Lines /\ Order
BY DEF Init, Lines, OnlyIncomingFetch, LoadsOnce, OfferIsActive, Order, Ordered, Alone, Fresh, Held, Panel,
       Titled, Selecting, Busy

\* renderActivePeer offers the active object or none.
LEMMA RenderedOffers == Rendered => OfferIsActive'
BY DEF Rendered, OfferIsActive

\* The oldest put completes: the others move up.
LEMMA CompletesShifts ==
  ASSUME NEW w, puts \in Seq(Write), Completes(w)
  PROVE  /\ 1 \in 1..Len(puts) /\ puts[1] = w
         /\ \A n \in 1..Len(puts') : n + 1 \in 1..Len(puts) /\ puts'[n] = puts[n + 1]
<1>1. puts # <<>> /\ puts' = Tail(puts) /\ w = puts[1]
  BY DEF Completes
<1>2. Len(puts) > 0 /\ Len(puts) \in Nat /\ Len(puts') = Len(puts) - 1
      /\ \A n \in 1..Len(puts') : puts'[n] = puts[n + 1]
  BY <1>1
<1>3. QED
  BY <1>1, <1>2

\* A put is added behind the others.
LEMMA PutAdded ==
  ASSUME NEW w \in Write, puts \in Seq(Write), puts' = Append(puts, w)
  PROVE  /\ Len(puts) \in Nat /\ Len(puts') = Len(puts) + 1 /\ puts'[Len(puts) + 1] = w
         /\ \A n \in 1..Len(puts') : n # Len(puts) + 1 => n \in 1..Len(puts) /\ puts'[n] = puts[n]
OBVIOUS

\* Calls that wait for a put are the same, and so are the puts.
LEMMA LoadsStay ==
  ASSUME Inv, Lines, UNCHANGED puts, \A c \in Call : pc[c] = "put" => pc'[c] = "put"
  PROVE  LoadsOnce'
BY PutsHaveCalls DEF Lines, LoadsOnce

\* A call that becomes an object had one put, which has completed.
LEMMA LoadsMade ==
  ASSUME Inv, Lines, NEW c \in Call, Made(c)
  PROVE  LoadsOnce' /\ pc[c] = "put"
<1>1. /\ Completes([by |-> "load", call |-> c]) /\ pc' = [pc EXCEPT ![c] = "made"]
      /\ puts \in Seq(Write) /\ pc \in [Call -> Stage]
  BY DEF Made, Inv, Base, TypeOK
<1>2. /\ 1 \in 1..Len(puts) /\ puts[1] = [by |-> "load", call |-> c]
      /\ \A n \in 1..Len(puts') : n + 1 \in 1..Len(puts) /\ puts'[n] = puts[n + 1]
  BY <1>1, CompletesShifts
<1>3. puts[1].by = "load" /\ puts[1].call = c
  BY <1>2
<1>4. pc[c] = "put"
  BY <1>2, <1>3 DEF Lines, LoadsOnce
<1>5. ASSUME NEW n \in 1..Len(puts'), puts'[n].by = "load" PROVE pc'[puts'[n].call] = "put"
  <2>1. n + 1 \in 1..Len(puts) /\ puts'[n] = puts[n + 1] /\ n + 1 # 1
    BY <1>2
  <2>2. puts[n + 1].call # c /\ puts[n + 1].call \in Call /\ pc[puts[n + 1].call] = "put"
    BY <1>2, <1>3, <1>5, <2>1, PutsHaveCalls DEF Lines, LoadsOnce
  <2>3. QED
    BY <1>1, <2>1, <2>2
<1>6. ASSUME NEW n \in 1..Len(puts'), NEW m \in 1..Len(puts'),
             puts'[n].by = "load", puts'[m].by = "load", puts'[n].call = puts'[m].call
      PROVE  n = m
  <2>1. n + 1 = m + 1
    BY <1>2, <1>6 DEF Lines, LoadsOnce
  <2>2. QED
    BY <2>1
<1>7. QED
  BY <1>4, <1>5, <1>6 DEF LoadsOnce

\* The put of a call that had none is added.
LEMMA LoadsPut ==
  ASSUME Inv, Lines, NEW c \in Call, Put(c)
  PROVE  LoadsOnce'
<1>1. /\ pc[c] = "read" /\ pc' = [pc EXCEPT ![c] = "put"]
      /\ puts' = Append(puts, [by |-> "load", call |-> c])
      /\ puts \in Seq(Write) /\ pc \in [Call -> Stage]
  BY DEF Put, Inv, Base, TypeOK
<1>2. \A n \in 1..Len(puts) : puts[n].call # c /\ puts[n].call \in Call
  BY <1>1, PutsHaveCalls DEF Inv, Base, PutsAreOfCalls
<1>3. /\ Len(puts) \in Nat /\ Len(puts') = Len(puts) + 1
      /\ puts'[Len(puts) + 1] = [by |-> "load", call |-> c]
      /\ \A n \in 1..Len(puts') : n # Len(puts) + 1 => n \in 1..Len(puts) /\ puts'[n] = puts[n]
  BY <1>1, PutAdded DEF Write
<1>4. ASSUME NEW n \in 1..Len(puts'), puts'[n].by = "load" PROVE pc'[puts'[n].call] = "put"
  <2>1. CASE n = Len(puts) + 1
    BY <1>1, <1>3, <2>1
  <2>2. CASE n # Len(puts) + 1
    BY <1>1, <1>2, <1>3, <1>4, <2>2 DEF Lines, LoadsOnce
  <2>3. QED
    BY <2>1, <2>2
<1>5. ASSUME NEW n \in 1..Len(puts'), NEW m \in 1..Len(puts'),
             puts'[n].by = "load", puts'[m].by = "load", puts'[n].call = puts'[m].call
      PROVE  n = m
  <2>1. n # Len(puts) + 1 => puts'[n].call # c
    BY <1>2, <1>3
  <2>2. m # Len(puts) + 1 => puts'[m].call # c
    BY <1>2, <1>3
  <2>3. CASE n = Len(puts) + 1
    BY <1>3, <1>5, <2>2, <2>3
  <2>4. CASE n # Len(puts) + 1
    <3>1. m # Len(puts) + 1
      BY <1>3, <1>5, <2>1, <2>4
    <3>2. QED
      BY <1>3, <1>5, <2>4, <3>1 DEF Lines, LoadsOnce
  <2>5. QED
    BY <2>3, <2>4
<1>6. QED
  BY <1>4, <1>5 DEF LoadsOnce

\* The put of the verify button comes or goes.
LEMMA LoadsMark ==
  ASSUME Inv, Lines, Mark \/ \E c \in Call : Marked(c)
  PROVE  LoadsOnce'
<1>1. puts \in Seq(Write) /\ UNCHANGED pc
  BY DEF Mark, Click, Marked, Inv, Base, TypeOK
<1>2. ASSUME NEW c \in Call, Marked(c) PROVE LoadsOnce'
  <2>1. \A n \in 1..Len(puts') : n + 1 \in 1..Len(puts) /\ puts'[n] = puts[n + 1]
    BY <1>1, <1>2, CompletesShifts DEF Marked
  <2>2. ASSUME NEW n \in 1..Len(puts'), NEW m \in 1..Len(puts'),
               puts'[n].by = "load", puts'[m].by = "load", puts'[n].call = puts'[m].call
        PROVE  n = m
    <3>1. n + 1 = m + 1
      BY <2>1, <2>2 DEF Lines, LoadsOnce
    <3>2. QED
      BY <3>1
  <2>3. QED
    BY <1>1, <2>1, <2>2 DEF Lines, LoadsOnce
<1>3. CASE Mark
  <2>1. offered \in Call /\ puts' = Append(puts, [by |-> "mark", call |-> offered])
    BY <1>3, InUse DEF Mark, Click
  <2>2. /\ Len(puts) \in Nat /\ Len(puts') = Len(puts) + 1 /\ puts'[Len(puts) + 1].by = "mark"
        /\ \A n \in 1..Len(puts') : n # Len(puts) + 1 => n \in 1..Len(puts) /\ puts'[n] = puts[n]
    BY <1>1, <2>1, PutAdded DEF Write
  <2>3. QED
    BY <1>1, <2>2 DEF Lines, LoadsOnce
<1>4. QED
  BY <1>2, <1>3

\* Every step keeps what the puts, the calls and the verify button stand for.
LEMMA LinesStep == Inv /\ Lines /\ [Next]_vars => Lines'
<1> SUFFICES ASSUME Inv, Lines, [Next]_vars PROVE Lines'
  OBVIOUS
<1>0. /\ OnlyIncomingFetch /\ LoadsOnce /\ OfferIsActive
      /\ pc \in [Call -> Stage] /\ kind \in [Call -> {"select", "incoming"}]
  BY DEF Lines, Inv, Base, TypeOK
<1>1. CASE UNCHANGED vars \/ refreshUsers \/ Relogin \/ (\E p \in Peer : Rotate(p))
           \/ \E s \in Sender : Submit(s)
  <2>1. UNCHANGED <<pc, kind, puts, offered>> /\ active' \in {active, NoCall}
    BY <1>1 DEF vars, refreshUsers, Relogin, Rotate, Submit, loads, display
  <2>2. QED
    BY <1>0, <2>1 DEF Lines, OnlyIncomingFetch, LoadsOnce, OfferIsActive
<1>2. CASE Reconnected \/ \E s \in Sender : Send(s)
  <2>1. UNCHANGED <<pc, kind, puts>> /\ Rendered
    BY <1>2 DEF Reconnected, Send
  <2>2. QED
    BY <1>0, <2>1, RenderedOffers DEF Lines, OnlyIncomingFetch, LoadsOnce
<1>3. CASE Mark \/ MarkFails
  <2>1. UNCHANGED <<pc, kind, active, offered>>
    BY <1>3 DEF Mark, MarkFails, Click, display
  <2>2. MarkFails => UNCHANGED puts
    BY DEF MarkFails
  <2>3. LoadsOnce'
    BY <1>0, <1>3, <2>1, <2>2, LoadsMark DEF LoadsOnce
  <2>4. QED
    BY <1>0, <2>1, <2>3 DEF Lines, OnlyIncomingFetch, OfferIsActive
<1>4. ASSUME NEW c \in Call, Marked(c) PROVE Lines'
  <2>1. UNCHANGED <<pc, kind>> /\ Rendered
    BY <1>4 DEF Marked
  <2>2. QED
    BY <1>0, <1>4, <2>1, LoadsMark, RenderedOffers DEF Lines, OnlyIncomingFetch
<1>5. CASE Reload
  <2>1. puts' = <<>> /\ active' = NoCall /\ \A c \in Call : pc'[c] = "idle"
    BY <1>5 DEF Reload
  <2>2. Len(puts') = 0
    BY <2>1
  <2>3. QED
    BY <2>1, <2>2 DEF Lines, OnlyIncomingFetch, LoadsOnce, OfferIsActive
<1>6. ASSUME NEW c \in Call, NEW p \in Peer, selectPeer(c, p) \/ Incoming(c, p) PROVE Lines'
  <2>1. /\ UNCHANGED <<puts, active, offered>>
        /\ \A d \in Call : d # c => pc'[d] = pc[d] /\ kind'[d] = kind[d]
        /\ pc[c] = "idle" /\ (pc'[c] = "fetch" => kind'[c] = "incoming")
    BY <1>0, <1>6 DEF selectPeer, Incoming, Read, display
  <2>2. QED
    BY <1>0, <2>1, LoadsStay DEF Lines, OnlyIncomingFetch, OfferIsActive
<1>7. ASSUME NEW c \in Call, Answer(c) \/ Refuse(c) PROVE Lines'
  <2>1. /\ UNCHANGED <<puts, offered>> /\ active' \in {active, NoCall}
        /\ \A d \in Call : d # c => pc'[d] = pc[d] /\ kind'[d] = kind[d]
        /\ pc[c] # "put" /\ pc'[c] # "fetch"
    BY <1>0, <1>7 DEF Answer, Refuse, Read, Drop, display
  <2>2. QED
    BY <1>0, <2>1, LoadsStay DEF Lines, OnlyIncomingFetch, OfferIsActive
<1>8. ASSUME NEW c \in Call, Put(c) PROVE Lines'
  <2>1. /\ UNCHANGED <<kind, active, offered>>
        /\ \A d \in Call : pc'[d] = "fetch" => pc[d] = "fetch"
    BY <1>0, <1>8 DEF Put, display
  <2>2. QED
    BY <1>0, <1>8, <2>1, LoadsPut DEF Lines, OnlyIncomingFetch, OfferIsActive
<1>9. ASSUME NEW c \in Call, Made(c) PROVE Lines'
  <2>1. UNCHANGED kind /\ \A d \in Call : pc'[d] = "fetch" => pc[d] = "fetch"
    BY <1>0, <1>9 DEF Made
  <2>2. OfferIsActive'
    BY <1>0, <1>9, RenderedOffers DEF Made, OfferIsActive
  <2>3. QED
    BY <1>0, <1>9, <2>1, <2>2, LoadsMade DEF Lines, OnlyIncomingFetch
<1>10. QED
  BY <1>1, <1>2, <1>3, <1>4, <1>5, <1>6, <1>7, <1>8, <1>9 DEF Next, Load

-----------------------------------------------------------------------------
\* What the functions of a call are, and the contact and keys of an object.
LEMMA Typed ==
  ASSUME Inv
  PROVE  /\ pc \in [Call -> Stage] /\ kind \in [Call -> {"select", "incoming"}]
         /\ of \in [Call -> Peer \cup {NoPeer}] /\ key \in [Call -> Key \cup {NoKey}]
         /\ verified \in [Call -> BOOLEAN] /\ pins \in [Peer -> Pin \cup {Unpinned}]
         /\ \A c \in Call : pc[c] # "idle" => of[c] \in Peer
         /\ \A c \in Call : pc[c] \in {"read", "put", "made"} => key[c] \in Key
BY DEF Inv, Base, TypeOK, CallsAreWhole

\* A step that moves neither calls nor objects nor pins nor the title.
LEMMA OrderedStays ==
  ASSUME Ordered, UNCHANGED <<pins, pc, kind, of, key, verified, active, title>>
  PROVE  Ordered'
BY DEF Ordered, Alone, Busy, Fresh, Matches, Pinned, Held, Panel, Stored, Titled, Selecting

\* A click, or a message of a contact that is not loaded, when no call is under way.
LEMMA OrderedStart ==
  ASSUME Inv, Ordered, Idle, NEW c \in Call, NEW p \in Peer, selectPeer(c, p) \/ Incoming(c, p)
  PROVE  Ordered'
<1>1. /\ pc[c] = "idle" /\ pc'[c] \in {"fetch", "read", "clash"} /\ of'[c] = p
      /\ \A d \in Call : d # c => /\ pc'[d] = pc[d] /\ kind'[d] = kind[d] /\ of'[d] = of[d]
                                  /\ key'[d] = key[d] /\ verified'[d] = verified[d]
      /\ UNCHANGED <<pins, active>>
      /\ \/ kind'[c] = "select" /\ title' = p
         \/ kind'[c] = "incoming" /\ title' = title
  BY Typed DEF selectPeer, Incoming, Read, display
<1>2. \A d \in Call : d # c => pc[d] \in {"idle", "made"} /\ pc'[d] = pc[d]
  BY <1>1 DEF Idle
<1>3. active # NoCall => active \in Call /\ active # c
  BY <1>1, InUse
<1>4. Alone'
  BY <1>2 DEF Alone, Busy
<1>5. Fresh'
  <2>1. ASSUME pc'[c] = "read"
        PROVE  Matches(of[c], key[c])' /\ (verified'[c] <=> Pinned(of[c])' /\ pins'[of'[c]].verified)
    <3>1. CASE selectPeer(c, p)
      <4>1. pins' = pins /\ of'[c] = p /\ key'[c] = listed[p]
            /\ verified'[c] = (Pinned(p) /\ pins[p].verified) /\ Matches(p, listed[p])
        BY <3>1, <2>1, Typed DEF selectPeer, Read
      <4>2. QED
        BY <4>1 DEF Matches, Pinned
    <3>2. CASE Incoming(c, p)
      BY <2>1, <3>2, Typed DEF Incoming
    <3>3. QED
      BY <3>1, <3>2
  <2>2. QED
    BY <1>2, <2>1 DEF Fresh
<1>6. Held'
  BY <1>1 DEF Ordered, Held, Pinned
<1>7. Panel'
  BY <1>1, <1>2, <1>3 DEF Ordered, Panel, Stored
<1>8. Titled'
  <2>1. \A d \in Call : d # c => ~Selecting(d) /\ ~Selecting(d)'
    BY <1>2 DEF Selecting, Busy
  <2>2. CASE kind'[c] = "select" /\ title' = p
    BY <1>1, <2>1, <2>2 DEF Titled, Selecting, Busy
  <2>3. CASE kind'[c] = "incoming" /\ title' = title
    <3>1. ~Selecting(c) /\ ~Selecting(c)'
      BY <1>1, <2>3 DEF Selecting, Busy
    <3>2. QED
      BY <1>1, <1>3, <2>1, <2>3, <3>1 DEF Ordered, Titled
  <2>4. QED
    BY <1>1, <2>2, <2>3
<1>9. QED
  BY <1>4, <1>5, <1>6, <1>7, <1>8 DEF Ordered

\* The server answers the call of a message, which has read the pin.
LEMMA OrderedAnswer ==
  ASSUME Inv, Lines, Ordered, NEW c \in Call, pc[c] = "fetch",
         Read(c, of[c], serving[of[c]]), UNCHANGED <<pins, kind, active, title>>
  PROVE  Ordered'
<1>1. /\ kind[c] = "incoming" /\ pc'[c] \in {"read", "clash"} /\ UNCHANGED of
      /\ pc'[c] = "read" => Matches(of[c], key'[c])
      /\ key'[c] = serving[of[c]] /\ verified'[c] = (Pinned(of[c]) /\ pins[of[c]].verified)
      /\ \A d \in Call : d # c => pc'[d] = pc[d] /\ key'[d] = key[d] /\ verified'[d] = verified[d]
      /\ UNCHANGED <<pins, kind, active, title>>
  BY Typed DEF Read, Lines, OnlyIncomingFetch
<1>2. active # NoCall => active \in Call /\ active # c
  BY InUse
<1>3. Alone'
  BY <1>1 DEF Ordered, Alone, Busy
<1>4. Fresh'
  BY <1>1 DEF Ordered, Fresh, Matches, Pinned
<1>5. Held' /\ Panel'
  BY <1>1, <1>2 DEF Ordered, Held, Panel, Stored, Pinned
<1>6. Titled'
  BY <1>1 DEF Ordered, Titled, Selecting, Busy
<1>7. QED
  BY <1>3, <1>4, <1>5, <1>6 DEF Ordered

\* A call fails; the contact of a click is not shown.
LEMMA OrderedDrop ==
  ASSUME Inv, Ordered, NEW c \in Call, Drop(c), pc[c] \in {"fetch", "read", "clash"},
         active' = IF kind[c] = "select" THEN NoCall ELSE active, UNCHANGED <<pins, title>>
  PROVE  Ordered'
<1>1. /\ pc'[c] = "idle" /\ active' \in {active, NoCall} /\ UNCHANGED <<pins, title>>
      /\ \A d \in Call : d # c => /\ pc'[d] = pc[d] /\ kind'[d] = kind[d] /\ of'[d] = of[d]
                                  /\ key'[d] = key[d] /\ verified'[d] = verified[d]
  BY Typed DEF Drop
<1>2. active # NoCall => active \in Call /\ active # c
  BY InUse
<1>3. Alone'
  BY <1>1 DEF Ordered, Alone, Busy
<1>4. Fresh' /\ Held' /\ Panel'
  BY <1>1, <1>2 DEF Ordered, Fresh, Matches, Held, Panel, Stored, Pinned
<1>5. Titled'
  <2>1. \A d \in Call : d # c => (Selecting(d)' <=> Selecting(d))
    BY <1>1 DEF Selecting, Busy
  <2>2. ~Selecting(c)'
    BY <1>1 DEF Selecting, Busy
  <2>3. active' # NoCall => active' = active /\ ~Selecting(c)
    BY DEF Selecting
  <2>4. QED
    BY <1>1, <1>2, <2>1, <2>2, <2>3 DEF Ordered, Titled
<1>6. QED
  BY <1>3, <1>4, <1>5 DEF Ordered

\* What a call puts is what was pinned, or the first pin of the contact.
LEMMA OrderedPut ==
  ASSUME Inv, Ordered, NEW c \in Call, Put(c)
  PROVE  /\ Ordered'
         /\ Pinned(of[c]) => pins'[of[c]] # Unpinned /\ pins'[of[c]].key = pins[of[c]].key
<1>1. /\ pc[c] = "read" /\ pc' = [pc EXCEPT ![c] = "put"] /\ of[c] \in Peer
      /\ pins'[of[c]] = [key |-> key[c], verified |-> verified[c]]
      /\ \A p \in Peer : p # of[c] => pins'[p] = pins[p]
      /\ UNCHANGED <<kind, of, key, verified, active, title>>
  BY Typed DEF Put, display
<1>2. /\ Pinned(of[c]) => pins[of[c]].key = key[c]
      /\ verified[c] <=> Pinned(of[c]) /\ pins[of[c]].verified
  BY <1>1 DEF Ordered, Fresh, Matches
<1>3. pins'[of[c]] # Unpinned /\ pins'[of[c]].key = key[c] /\ pins'[of[c]].verified = verified[c]
  BY <1>1, Typed, PinsAssumption
<1>4. Alone'
  BY <1>1, Typed DEF Ordered, Alone, Busy
<1>5. Fresh'
  <2>1. \A d \in Call : pc'[d] # "read"
    BY <1>1, Typed DEF Ordered, Alone, Busy
  <2>2. QED
    BY <2>1 DEF Fresh
<1>6. Held'
  <2> SUFFICES ASSUME NEW d \in Call, pc'[d] \in {"put", "made"}
      PROVE pins'[of[d]] # Unpinned /\ pins'[of[d]].key = key[d]
    BY <1>1 DEF Held, Pinned
  <2>1. CASE d = c
    BY <1>3, <2>1
  <2>2. CASE d # c
    <3>1. pc[d] \in {"put", "made"} /\ of[d] \in Peer
      BY <1>1, <2>2, Typed
    <3>2. Pinned(of[d]) /\ pins[of[d]].key = key[d]
      BY <3>1 DEF Ordered, Held
    <3>3. QED
      BY <1>1, <1>2, <1>3, <3>1, <3>2 DEF Pinned
  <2>3. QED
    BY <2>1, <2>2
<1>7. Panel'
  <2>1. \A d \in Call : pc'[d] = "put" => d = c
    BY <1>1, Typed DEF Ordered, Alone, Busy
  <2>2. ASSUME active # NoCall, pins'[of[active]].verified PROVE verified[active]
    <3>1. active \in Call /\ pc[active] = "made" /\ of[active] \in Peer
      BY <2>2, InUse, Typed
    <3>2. CASE of[active] = of[c]
      <4>1. verified[c]
        BY <1>3, <2>2, <3>2
      <4>2. QED
        BY <1>2, <2>2, <3>2, <4>1 DEF Ordered, Panel
    <3>3. CASE of[active] # of[c]
      BY <1>1, <2>2, <3>1, <3>3 DEF Ordered, Panel
    <3>4. QED
      BY <3>2, <3>3
  <2>3. QED
    BY <1>1, <2>1, <2>2 DEF Panel, Stored
<1>8. Titled'
  <2>1. \A d \in Call : Selecting(d)' <=> Selecting(d)
    BY <1>1, Typed DEF Selecting, Busy
  <2>2. QED
    BY <1>1, <2>1 DEF Ordered, Titled
<1>9. QED
  BY <1>2, <1>3, <1>4, <1>5, <1>6, <1>7, <1>8 DEF Ordered

\* The object of a click becomes the active one under the title of its contact.
LEMMA OrderedMade ==
  ASSUME Inv, Lines, Ordered, NEW c \in Call, Made(c)
  PROVE  Ordered'
<1>1. pc[c] = "put" /\ Busy(c)
  BY LoadsMade DEF Busy
<1>2. /\ pc' = [pc EXCEPT ![c] = "made"] /\ UNCHANGED <<pins, kind, of, key, verified, title>>
      /\ active' = IF kind[c] = "select" THEN c ELSE active
  BY DEF Made
<1>3. \A d \in Call : ~Busy(d)'
  BY <1>1, <1>2, Typed DEF Ordered, Alone, Busy
<1>4. Alone' /\ Fresh'
  BY <1>3 DEF Alone, Fresh, Busy
<1>5. Held'
  BY <1>1, <1>2, Typed DEF Ordered, Held, Pinned
<1>6. pins[of[c]].verified => verified[c]
  <2>1. pins[of[c]] = [key |-> key[c], verified |-> verified[c]]
    BY <1>1 DEF Ordered, Panel, Stored
  <2>2. pins[of[c]].verified = verified[c]
    BY <2>1
  <2>3. QED
    BY <2>2
<1>7. Panel'
  BY <1>2, <1>3, <1>6 DEF Ordered, Panel, Busy
<1>8. Titled'
  <2>1. \A d \in Call : ~Selecting(d)'
    BY <1>3 DEF Selecting
  <2>2. CASE kind[c] = "select"
    BY <1>1, <1>2, <2>1, <2>2 DEF Ordered, Titled, Selecting
  <2>3. CASE kind[c] # "select"
    <3>1. \A d \in Call : ~Selecting(d)
      BY <1>1, <2>3 DEF Ordered, Alone, Selecting
    <3>2. QED
      BY <1>2, <2>1, <2>3, <3>1 DEF Ordered, Titled
  <2>4. QED
    BY <2>2, <2>3
<1>9. QED
  BY <1>4, <1>5, <1>7, <1>8 DEF Ordered

\* The verify button marks the pin of an object whose keys are pinned.
LEMMA OrderedMark ==
  ASSUME Inv, Lines, Ordered, Mark
  PROVE  /\ Idle => Ordered'
         /\ \A p \in Peer : Pinned(p) => pins'[p] # Unpinned /\ pins'[p].key = pins[p].key
<1>1. PICK c \in Call : c = offered /\ pc[c] = "made" /\ of[c] \in Peer
  BY InUse, Typed DEF Mark, Click
<1>2. /\ verified' = [verified EXCEPT ![c] = TRUE]
      /\ pins'[of[c]] = [key |-> key[c], verified |-> TRUE]
      /\ \A p \in Peer : p # of[c] => pins'[p] = pins[p]
      /\ UNCHANGED <<pc, kind, of, key, active, title>>
  BY <1>1, Typed DEF Mark, Click, display
<1>3. /\ pins'[of[c]] # Unpinned /\ pins'[of[c]].key = key[c]
      /\ Pinned(of[c]) /\ pins[of[c]].key = key[c]
  <2>1. [key |-> key[c], verified |-> TRUE] \in [key : Key, verified : BOOLEAN]
    BY <1>1, Typed
  <2>2. [key |-> key[c], verified |-> TRUE] # Unpinned
    BY <2>1, PinsAssumption
  <2>3. pins'[of[c]] # Unpinned /\ pins'[of[c]].key = key[c]
    BY <1>2, <2>2
  <2>4. QED
    BY <1>1, <2>3 DEF Ordered, Held
<1>4. \A p \in Peer : Pinned(p) => pins'[p] # Unpinned /\ pins'[p].key = pins[p].key
  BY <1>2, <1>3 DEF Pinned
<1>5. ASSUME Idle PROVE Ordered'
  <2>1. \A d \in Call : pc'[d] \in {"idle", "made"}
    BY <1>2, <1>5 DEF Idle
  <2>2. Alone' /\ Fresh'
    BY <2>1 DEF Alone, Fresh, Busy
  <2>3. Held'
    BY <1>2, <1>4, Typed DEF Ordered, Held, Pinned
  <2>4. Panel'
    <3>1. active' # NoCall => active' = c
      BY <1>1, <1>2, PinsAssumption DEF Lines, OfferIsActive
    <3>2. verified'[c] = TRUE
      BY <1>2, Typed
    <3>3. QED
      BY <1>2, <2>1, <3>1, <3>2 DEF Panel, Stored
  <2>5. Titled'
    BY <1>2 DEF Ordered, Titled, Selecting, Busy
  <2>6. QED
    BY <2>2, <2>3, <2>4, <2>5 DEF Ordered
<1>6. QED
  BY <1>4, <1>5

\* A put of the verify button that fails leaves the pins, and marks the object
\* that is shown, if one is.
LEMMA OrderedMarkFails ==
  ASSUME Inv, Lines, Ordered, MarkFails
  PROVE  Idle => Ordered'
<1>1. PICK c \in Call : c = offered /\ pc[c] = "made"
  BY InUse DEF MarkFails, Click
<1>2. /\ verified' = [verified EXCEPT ![c] = TRUE]
      /\ UNCHANGED <<pins, pc, kind, of, key, active, title>>
  BY <1>1 DEF MarkFails, Click, display
<1>3. SUFFICES ASSUME Idle PROVE Ordered'
  OBVIOUS
<1>4. \A d \in Call : pc'[d] \in {"idle", "made"}
  BY <1>2, <1>3 DEF Idle
<1>5. Alone' /\ Fresh'
  BY <1>4 DEF Alone, Fresh, Busy
<1>6. Held' /\ Titled'
  BY <1>2 DEF Ordered, Held, Pinned, Titled, Selecting, Busy
<1>7. Panel'
  <2>1. active # NoCall => active = c /\ verified'[c]
    BY <1>1, <1>2, Typed, PinsAssumption DEF Lines, OfferIsActive
  <2>2. QED
    BY <1>2, <1>4, <2>1 DEF Panel
<1>8. QED
  BY <1>5, <1>6, <1>7 DEF Ordered

\* A new session or a new page shows no contact.
LEMMA OrderedAnew ==
  ASSUME Ordered, (Relogin /\ Idle) \/ Reload
  PROVE  Ordered'
<1>1. active' = NoCall /\ \A c \in Call : pc'[c] \in {"idle", "made"}
  BY DEF Relogin, Reload, loads, Idle
<1>2. Held'
  BY DEF Ordered, Held, Relogin, Reload, loads, Pinned
<1>3. QED
  BY <1>1, <1>2 DEF Ordered, Alone, Busy, Fresh, Panel, Titled, Selecting

\* What overtook a call of loadPeer is not forgotten; what happens in line
\* finds no call under way.
LEMMA SerialEnds ==
  ASSUME Inv, [Next]_vars
  PROVE  /\ serial' => serial
         /\ serial' /\ (Mark \/ MarkFails \/ Relogin \/ \E c \in Call, p \in Peer : selectPeer(c, p) \/ Incoming(c, p))
                => Idle
<1>1. InLine => (serial' => serial /\ Idle)
  BY DEF InLine
<1>2. CASE Mark \/ MarkFails \/ Relogin \/ \E c \in Call, p \in Peer : selectPeer(c, p) \/ Incoming(c, p)
  BY <1>1, <1>2 DEF Mark, MarkFails, Click, Relogin, selectPeer, Incoming
<1>3. CASE ~(Mark \/ MarkFails \/ Relogin \/ \E c \in Call, p \in Peer : selectPeer(c, p) \/ Incoming(c, p))
  <2>1. serial' = serial
    BY <1>3 DEF Next, vars, refreshUsers, Reconnected, Reload, Rotate, Load, Answer, Refuse, Put, Made,
                Marked, Submit, Send
  <2>2. QED
    BY <1>3, <2>1
<1>4. QED
  BY <1>2, <1>3

\* Every step of a page in which nothing has overtaken a call of loadPeer keeps
\* the keys that are pinned, and the order unless it overtakes one.
LEMMA OrderedStep ==
  ASSUME Inv, Lines, Ordered, [Next]_vars
  PROVE  /\ serial' => Ordered'
         /\ \A p \in Peer : Pinned(p) => pins'[p] # Unpinned /\ pins'[p].key = pins[p].key
<1> DEFINE Stay == \A p \in Peer : Pinned(p) => pins'[p] # Unpinned /\ pins'[p].key = pins[p].key
<1>0. pins' = pins => Stay
  BY DEF Pinned
<1>1. CASE UNCHANGED vars \/ refreshUsers \/ Reconnected \/ (\E p \in Peer : Rotate(p))
           \/ (\E s \in Sender : Submit(s) \/ Send(s)) \/ (\E c \in Call : Marked(c))
  <2>1. UNCHANGED <<pins, pc, kind, of, key, verified, active, title>>
    BY <1>1 DEF vars, refreshUsers, Reconnected, Rotate, Submit, Send, Marked, loads, display
  <2>2. QED
    BY <1>0, <2>1, OrderedStays
<1>2. CASE Mark \/ MarkFails
  <2>1. MarkFails => pins' = pins
    BY DEF MarkFails
  <2>2. QED
    BY <1>0, <1>2, <2>1, OrderedMark, OrderedMarkFails, SerialEnds
<1>3. CASE Relogin \/ Reload
  <2>1. pins' = pins
    BY <1>3 DEF Relogin, Reload
  <2>2. QED
    BY <1>0, <1>3, <2>1, OrderedAnew, SerialEnds
<1>4. ASSUME NEW c \in Call, NEW p \in Peer, selectPeer(c, p) \/ Incoming(c, p)
      PROVE  (serial' => Ordered') /\ Stay
  <2>1. pins' = pins
    BY <1>4 DEF selectPeer, Incoming
  <2>2. QED
    BY <1>0, <1>4, <2>1, OrderedStart, SerialEnds
<1>5. ASSUME NEW c \in Call, Answer(c) PROVE Ordered' /\ Stay
  <2>1. pc[c] = "fetch" /\ UNCHANGED <<pins, active, title>> /\ kind[c] = "incoming"
    BY <1>5 DEF Answer, display, Lines, OnlyIncomingFetch
  <2>2. CASE Read(c, of[c], serving[of[c]]) /\ UNCHANGED kind
    BY <1>0, <2>1, <2>2, OrderedAnswer
  <2>3. CASE Drop(c)
    BY <1>0, <2>1, <2>3, OrderedDrop
  <2>4. QED
    BY <1>5, <2>2, <2>3 DEF Answer
<1>6. ASSUME NEW c \in Call, Refuse(c) PROVE Ordered' /\ Stay
  <2>1. /\ pc[c] \in {"read", "clash"} /\ Drop(c) /\ UNCHANGED <<pins, title>>
        /\ active' = IF kind[c] = "select" THEN NoCall ELSE active
    BY <1>6 DEF Refuse
  <2>2. QED
    BY <1>0, <2>1, OrderedDrop
<1>7. ASSUME NEW c \in Call, Put(c) PROVE Ordered' /\ Stay
  <2>1. \A p \in Peer : p # of[c] => pins'[p] = pins[p]
    BY <1>7, Typed DEF Put
  <2>2. QED
    BY <1>7, <2>1, OrderedPut DEF Pinned
<1>8. ASSUME NEW c \in Call, Made(c) PROVE Ordered' /\ Stay
  <2>1. pins' = pins
    BY <1>8 DEF Made
  <2>2. QED
    BY <1>0, <1>8, <2>1, OrderedMade
<1>9. QED
  BY <1>1, <1>2, <1>3, <1>4, <1>5, <1>6, <1>7, <1>8 DEF Next, Load

\* The order is kept as long as nothing overtakes a call of loadPeer.
LEMMA OrderStep == Inv /\ Lines /\ Order /\ [Next]_vars => Order'
BY OrderedStep, SerialEnds DEF Order

-----------------------------------------------------------------------------
\* The invariant holds in every reachable state.
LEMMA Invariance == Spec => []Inv
<1>1. Init => Inv
  BY InitInv
<1>2. Inv /\ [Next]_vars => Inv'
  BY NextInv
<1>3. QED
  BY <1>1, <1>2, PTL DEF Spec

\* So do the lines of puts and calls, and the order until it is broken.
LEMMA OrderInvariance == Spec => [](Inv /\ Lines /\ Order)
<1>1. Init => Lines /\ Order
  BY InitOrder
<1>2. Inv /\ Lines /\ Order /\ [Next]_vars => (Lines /\ Order)'
  BY LinesStep, OrderStep
<1>3. QED
  BY <1>1, <1>2, Invariance, PTL DEF Spec

\* Every variable of PeerPins keeps its type, and state.peers, state.activePeer
\* and a message under way refer only to objects that loadPeer has returned.
THEOREM PeerPinsTypeOK == Spec => []TypeOK
<1>1. Inv => TypeOK
  BY DEF Inv, Base
<1>2. QED
  BY <1>1, Invariance, PTL

\* Whatever overlaps, a message leaves the page encrypted only under keys of its
\* addressee whose fingerprint the user has confirmed (app.js 870-896).
THEOREM MessagesAreTrusted == Spec => []SentUnderConfirmedKeys
<1>1. Inv => SentUnderConfirmedKeys
  BY DEF Inv, Trust
<1>2. QED
  BY <1>1, Invariance, PTL

\* A pin marked as verified holds keys the user has confirmed, also after a
\* concurrent call of loadPeer has overwritten it (app.js 521-532).
THEOREM VerifiedPinsAreTrusted == Spec => []PinsAreConfirmed
<1>1. Inv => PinsAreConfirmed
  BY DEF Inv, Trust
<1>2. QED
  BY <1>1, Invariance, PTL

\* As long as nothing overtakes a call of loadPeer, what the panel says of the
\* active contact is true: its keys are the pinned ones, it is called verified if
\* the pin is, and only if the user confirmed the keys, also where a put of the
\* verify button failed; and once no call is under way the contact is the one in
\* the title (app.js 769-801, 832-834).
THEOREM PanelTellsTheTruth == Spec => []PanelIsTrue
<1>1. ASSUME Inv, Order PROVE PanelIsTrue
  <2>1. DisplayedIsPinned
    <3>1. SUFFICES ASSUME serial, active # NoCall
          PROVE  /\ Pinned(of[active]) /\ pins[of[active]].key = key[active]
                 /\ pins[of[active]].verified => verified[active]
                 /\ verified[active] => <<of[active], key[active]>> \in confirmed
      BY DEF DisplayedIsPinned
    <3>2. active \in Call /\ pc[active] = "made"
      BY <1>1, <3>1, InUse
    <3>3. Pinned(of[active]) /\ pins[of[active]].key = key[active]
      BY <1>1, <3>1, <3>2 DEF Order, Ordered, Held
    <3>4. pins[of[active]].verified => verified[active]
      BY <1>1, <3>1 DEF Order, Ordered, Panel
    <3>5. verified[active] => <<of[active], key[active]>> \in confirmed
      BY <1>1, <3>2 DEF Inv, Trust, FlagsAreConfirmed
    <3>6. QED
      BY <3>3, <3>4, <3>5
  <2>2. TitleIsActive
    BY <1>1 DEF Order, Ordered, Titled, Selecting, Busy, Idle, TitleIsActive
  <2>3. QED
    BY <2>1, <2>2 DEF PanelIsTrue
<1>2. QED
  BY <1>1, OrderInvariance, PTL

\* "No silent replacement" (OPERATIONS 163): no step of any part of the page
\* replaces keys that are pinned, unless a call of loadPeer was overtaken.
THEOREM PinsStay == Spec => SerialPinsStay
<1> DEFINE Stay == serial => \A p \in Peer : Pinned(p) => pins'[p] # Unpinned /\ pins'[p].key = pins[p].key
<1>1. Inv /\ Lines /\ Order /\ [Next]_vars => [Stay]_vars
  BY OrderedStep DEF Order
<1>2. QED
  BY <1>1, OrderInvariance, PTL DEF Spec, SerialPinsStay
=============================================================================
