---------------------------- MODULE MCDelivery ----------------------------
(***************************************************************************)
(* Instances of Delivery for TLC.                                          *)
(***************************************************************************)
EXTENDS Delivery, FiniteSets, TLC

CONSTANTS alice, bob, s1, s2, s3, m1, m2

\* A single message, for the liveness run.
OneMsg == {[msg |-> m1, from |-> alice, to |-> bob]}

\* A msg_id that each of two users takes for a message of theirs, and a second
\* message of one conversation.
Claimed == {[msg |-> m1, from |-> alice, to |-> bob], [msg |-> m1, from |-> bob, to |-> alice],
            [msg |-> m2, from |-> alice, to |-> bob]}

Names == User \cup {"stranger"}

Slots == Permutations({s1, s2, s3})

Frames == UNION {{inbox[s][k] : k \in DOMAIN inbox[s]} : s \in Socket}
Second == [type |-> "message", msg |-> m2, to |-> bob]

Few == Cardinality({s \in Socket : pc[s] # "gone" \/ Referenced(s)}) <= 2

\* Bounds.  As long as a second message is about, which follows one of alice,
\* there are two sessions at most; and so there are once bob has taken m1 first,
\* which is alice taking it first with the names swapped.
Narrow ==
    /\ Posted(m1) /\ row[m1].sender = bob => Few
    /\ Second \in Frames \/ Posted(m2) =>
          /\ Posted(m1) /\ row[m1].sender = alice
          /\ \A f \in Frames : f.type = "message" => f.to # alice
          /\ Few

\* Bound of the liveness run: the sender keeps to one tab, and loses its
\* connections only when the server goes down or its handler fails.
SenderIsSteady ==
    \A s \in Socket : user[s] = alice =>
        link[s] # "dead" /\ \A x \in Socket \ {s} : ~(link[s] = "up" /\ link[x] = "up" /\ user[x] = alice)
=============================================================================
