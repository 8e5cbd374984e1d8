----------------------------- MODULE LoginProofs -----------------------------
(***************************************************************************)
(* Proofs about the two ends of a login: LoginLimiter, which a call passes *)
(* first, and Tokens, what it hands out.  The two share no state and are   *)
(* proved one after the other, the limiter for any limit, window, stall    *)
(* and number of threads, the tokens for any users and persons, any        *)
(* configured TTL and any bounds.                                          *)
(*                                                                         *)
(* The limiter's bound on wrong passwords is not one on the bucket: it     *)
(* needs that each of them has a place there, or a call that is about to   *)
(* give it one, which pruning at the left end never takes away too early.  *)
(***************************************************************************)
EXTENDS LoginLimiter, Tokens, FiniteSetTheorems, SequenceTheorems, TLAPS

\* The parts of the type invariant that the bounds rest on.
BucketOK ==
    /\ attempts \in Seq(Age)
    /\ pc \in [Thread -> Stage]
    /\ age \in [Thread -> 0..MaxStall]

HistoryOK ==
    /\ wrong \in Seq(0..LOGIN_WINDOW_SECONDS - 1)
    /\ \A i, j \in 1..Len(wrong) : i <= j => wrong[i] >= wrong[j]
    /\ calm \in BOOLEAN

\* Every wrong password of the window is accounted for: it is in the bucket, or
\* the call that tried it is about to put it there, each in a place of its own.
OneEach(f, S, T) == f \in [S -> T] /\ \A i, j \in S : f[i] = f[j] => i = j

Recorded(done, place) ==
    /\ OneEach(place, done, 1..Len(attempts))
    /\ \A i \in done : attempts[place[i]] = wrong[i]

Underway(rest, call) ==
    /\ OneEach(call, rest, Thread)
    /\ \A i \in rest : pc[call[i]] = "failed" /\ age[call[i]] = wrong[i]

Accounted ==
    \E done \in SUBSET (1..Len(wrong)) :
        /\ \E place : Recorded(done, place)
        /\ \E call : Underway((1..Len(wrong)) \ done, call)

LimiterInv == BucketOK /\ BoundedBucket /\ HistoryOK /\ Accounted

-----------------------------------------------------------------------------
\* There are no more sources than places when each has a place of its own.
LEMMA OneEachBounds ==
  ASSUME NEW S, NEW T, IsFiniteSet(T), NEW f, OneEach(f, S, T)
  PROVE  IsFiniteSet(S) /\ Cardinality(S) \in Nat /\ Cardinality(S) <= Cardinality(T)
<1>1. f \in Injection(S, T)
  BY DEF OneEach, Injection, IsInjective
<1>2. QED
  BY <1>1, FS_Injection, FS_CardinalityType

\* There are n numbers from 1 to n.
LEMMA CardinalityUpTo ==
  ASSUME NEW n \in Nat
  PROVE  IsFiniteSet(1..n) /\ Cardinality(1..n) = n
BY FS_Interval

\* A set of indices that is closed downwards is an interval.
LEMMA LeadingIsInterval ==
  ASSUME NEW L \in Nat, NEW S \in SUBSET (1..L), \A i \in S : \A j \in 1..i : j \in S
  PROVE  Cardinality(S) \in 0..L /\ S = 1..Cardinality(S)
<1>1. IsFiniteSet(1..L) /\ Cardinality(1..L) = L
  BY FS_Interval
<1>2. IsFiniteSet(S) /\ Cardinality(S) \in Nat /\ Cardinality(S) <= L
  BY <1>1, FS_Subset, FS_CardinalityType
<1>3. ASSUME NEW i \in S PROVE i <= Cardinality(S)
  <2>1. 1..i \in SUBSET S /\ Cardinality(1..i) = i
    BY <1>3, FS_Interval
  <2>2. QED
    BY <1>2, <2>1, FS_Subset
<1>4. ASSUME NEW i \in 1..Cardinality(S), i \notin S PROVE FALSE
  <2>1. \A j \in S : j < i
    BY <1>2, <1>4
  <2>2. S \in SUBSET (1..(i - 1)) /\ IsFiniteSet(1..(i - 1)) /\ Cardinality(1..(i - 1)) = i - 1
    <3>1. i - 1 \in Nat /\ \A j \in S : j \in 1..(i - 1)
      BY <1>2, <1>4, <2>1
    <3>2. QED
      BY <3>1, FS_Interval
  <2>3. Cardinality(S) <= i - 1
    BY <2>2, FS_Subset
  <2>4. QED
    BY <1>2, <2>3
<1>5. \A i \in S : i \in 1..Cardinality(S)
  BY <1>2, <1>3
<1>6. \A i \in 1..Cardinality(S) : i \in S
  BY <1>4
<1>7. S = 1..Cardinality(S)
  BY <1>2, <1>5, <1>6, Zenon
<1>8. QED
  BY <1>2, <1>7

\* Pruning takes the first n failures away, which are all expired.
LEMMA PrunedIs ==
  ASSUME NEW s \in Seq(Age), NEW d
  PROVE  \E n \in 0..Len(s) :
            /\ Pruned(s, d) \in Seq(Age) /\ Len(Pruned(s, d)) = Len(s) - n
            /\ \A i \in 1..(Len(s) - n) : Pruned(s, d)[i] = s[i + n]
            /\ \A i \in 1..n : Expired(s[i], d)
<1>. DEFINE leaving == {i \in 1..Len(s) : \A j \in 1..i : Expired(s[j], d)}
<1>1. Len(s) \in Nat
  OBVIOUS
<1>2. leaving \in SUBSET (1..Len(s)) /\ \A i \in leaving : \A j \in 1..i : j \in leaving
  BY <1>1
<1>3. \A i \in leaving : Expired(s[i], d)
  OBVIOUS
<1>4. Pruned(s, d) = SubSeq(s, Cardinality(leaving) + 1, Len(s))
  BY Zenon DEF Pruned, leaving
<1>. HIDE DEF leaving
<1>5. PICK n \in 0..Len(s) : n = Cardinality(leaving) /\ leaving = 1..n
  BY <1>1, <1>2, LeadingIsInterval
<1>6. \A i \in (n + 1)..Len(s) : s[i] \in Age
  BY <1>1, <1>5
<1>7. Pruned(s, d) = SubSeq(s, n + 1, Len(s))
  BY <1>4, <1>5
<1>8. /\ SubSeq(s, n + 1, Len(s)) \in Seq(Age)
      /\ Len(SubSeq(s, n + 1, Len(s))) = Len(s) - n
      /\ \A i \in 1..(Len(s) - (n + 1) + 1) : SubSeq(s, n + 1, Len(s))[i] = s[(n + 1) + i - 1]
  <2>1. n + 1 \in Int /\ Len(s) \in Int /\ (n + 1 > Len(s) => Len(s) - n = 0)
    BY <1>1, <1>5
  <2>2. QED
    BY <1>1, <1>5, <1>6, <2>1, SubSeqProperties
<1>9. ASSUME NEW i \in 1..(Len(s) - n) PROVE Pruned(s, d)[i] = s[i + n]
  <2>1. i \in 1..(Len(s) - (n + 1) + 1) /\ (n + 1) + i - 1 = i + n
    BY <1>1, <1>5, <1>9
  <2>2. QED
    BY <1>7, <1>8, <2>1
<1>10. QED
  BY <1>3, <1>5, <1>7, <1>8, <1>9

\* Pruning stops at a failure that has not expired.
LEMMA PrunedStops ==
  ASSUME NEW s \in Seq(Age), NEW d, Len(Pruned(s, d)) > 0
  PROVE  ~Expired(Pruned(s, d)[1], d)
<1>. DEFINE leaving == {i \in 1..Len(s) : \A j \in 1..i : Expired(s[j], d)}
<1>1. Len(s) \in Nat
  OBVIOUS
<1>2. leaving \in SUBSET (1..Len(s)) /\ \A i \in leaving : \A j \in 1..i : j \in leaving
  BY <1>1
<1>3. /\ \A i \in leaving : Expired(s[i], d)
      /\ \A i \in 1..Len(s) : i \notin leaving => \E j \in 1..i : ~Expired(s[j], d)
  OBVIOUS
<1>4. Pruned(s, d) = SubSeq(s, Cardinality(leaving) + 1, Len(s))
  BY Zenon DEF Pruned, leaving
<1>. HIDE DEF leaving
<1>5. PICK n \in 0..Len(s) : n = Cardinality(leaving) /\ leaving = 1..n
  BY <1>1, <1>2, LeadingIsInterval
<1>6. Pruned(s, d) = SubSeq(s, n + 1, Len(s))
  BY <1>4, <1>5
<1>7. n + 1 \in 1..Len(s) /\ Pruned(s, d)[1] = s[n + 1]
  <2>1. n < Len(s)
    <3>1. SUFFICES ASSUME n = Len(s) PROVE FALSE
      BY <1>1
    <3>2. Len(SubSeq(s, n + 1, Len(s))) = 0
      BY <1>1, <3>1
    <3>3. Len(Pruned(s, d)) = 0
      BY <1>6, <3>2, Zenon
    <3>4. QED
      BY <3>3
  <2>2. /\ n + 1 \in 1..Len(s) /\ n + 1 <= Len(s) /\ 1 \in 1..(Len(s) - (n + 1) + 1)
        /\ \A i \in (n + 1)..Len(s) : s[i] \in Age
    BY <1>1, <2>1
  <2>3. SubSeq(s, n + 1, Len(s))[1] = s[n + 1]
    BY <1>1, <2>2
  <2>4. QED
    BY <1>6, <2>2, <2>3
<1>8. n + 1 \notin leaving
  <2>1. n + 1 \notin 1..n
    OBVIOUS
  <2>2. QED
    BY <1>5, <2>1, Zenon
<1>9. PICK j \in 1..(n + 1) : ~Expired(s[j], d)
  BY <1>3, <1>7, <1>8
<1>10. j \notin 1..n
  BY <1>3, <1>5, <1>9
<1>11. j = n + 1
  BY <1>1, <1>5, <1>9, <1>10
<1>12. QED
  BY <1>7, <1>9, <1>11

\* The calls that were allowed are some of the threads.
LEMMA PendingIsFinite ==
  /\ IsFiniteSet(Pending) /\ Cardinality(Pending) \in Nat
  /\ Cardinality(Pending) <= Cardinality(Thread) /\ Cardinality(Thread) \in Nat
  /\ \A t \in Thread : t \notin Pending => Cardinality(Pending) < Cardinality(Thread)
<1>1. Pending \in SUBSET Thread /\ IsFiniteSet(Thread)
  BY LimiterAssumption DEF Pending
<1>2. QED
  BY <1>1, FS_Subset, FS_CardinalityType

\* What accounts for the wrong passwords in the next state.
LEMMA AccountedNext ==
  ASSUME NEW done \in SUBSET (1..Len(wrong')), NEW place, NEW rest, NEW call,
         OneEach(place, done, 1..Len(attempts')),
         \A i \in done : attempts'[place[i]] = wrong'[i],
         rest = (1..Len(wrong')) \ done, OneEach(call, rest, Thread),
         \A i \in rest : pc'[call[i]] = "failed" /\ age'[call[i]] = wrong'[i]
  PROVE  Accounted'
<1>1. Recorded(done, place)' /\ Underway((1..Len(wrong)) \ done, call)'
  BY DEF Recorded, Underway, OneEach
<1>2. QED
  BY <1>1 DEF Accounted

\* There is nothing to account for when no wrong password was tried.
LEMMA NothingTried ==
  ASSUME Len(wrong) = 0
  PROVE  Accounted
<1>1. 1..Len(wrong) = {} /\ {} \in SUBSET (1..Len(wrong))
  OBVIOUS
<1>2. \A T : OneEach([i \in {} |-> i], {}, T)
  BY DEF OneEach
<1>3. Recorded({}, [i \in {} |-> i]) /\ Underway({}, [i \in {} |-> i])
  BY <1>2 DEF Recorded, Underway
<1>4. QED
  BY <1>1, <1>3 DEF Accounted

\* What has expired is not of the window: the rest of the bucket keeps every
\* recorded failure of the window, n places further left.
LEMMA PrunedKeepsPlaces ==
  ASSUME LimiterInv, NEW done \in SUBSET (1..Len(wrong)), NEW place, Recorded(done, place),
         NEW d \in Nat, NEW n \in 0..Len(attempts), \A i \in 1..n : Expired(attempts[i], d)
  PROVE  /\ \A i \in done : place[i] \in (n + 1)..Len(attempts)
         /\ OneEach([i \in done |-> place[i] - n], done, 1..(Len(attempts) - n))
<1>1. Len(attempts) \in Nat /\ Len(wrong) \in Nat
  BY DEF LimiterInv, BucketOK, HistoryOK
<1>2. ASSUME NEW i \in done PROVE place[i] \in (n + 1)..Len(attempts)
  <2>1. place[i] \in 1..Len(attempts) /\ attempts[place[i]] = wrong[i]
    BY <1>1, <1>2 DEF Recorded, OneEach
  <2>2. wrong[i] \in 0..LOGIN_WINDOW_SECONDS - 1
    BY <1>1, <1>2, LimiterAssumption DEF LimiterInv, HistoryOK
  <2>3. ~Expired(attempts[place[i]], d)
    BY <2>1, <2>2, LimiterAssumption DEF Expired
  <2>4. QED
    BY <1>1, <2>1, <2>3
<1>3. \A i, j \in done : place[i] = place[j] => i = j
  BY DEF Recorded, OneEach
<1>4. QED
  BY <1>1, <1>2, <1>3 DEF OneEach

\* A call is allowed only when the bucket, pruned, is not full.
LEMMA CheckStep ==
  ASSUME LimiterInv, NEW t \in Thread, Check(t)
  PROVE  LimiterInv'
<1>1. /\ pc[t] = "asked" /\ attempts' = Pruned(attempts, age[t]) /\ UNCHANGED <<age, wrong, calm>>
      /\ pc' = [pc EXCEPT ![t] = IF Len(attempts') >= LOGIN_MAX_ATTEMPTS THEN "idle" ELSE "verify"]
  BY DEF Check
<1>2. PICK n \in 0..Len(attempts) :
         /\ attempts' \in Seq(Age) /\ Len(attempts') = Len(attempts) - n
         /\ \A i \in 1..(Len(attempts) - n) : attempts'[i] = attempts[i + n]
         /\ \A i \in 1..n : Expired(attempts[i], age[t])
  BY <1>1, PrunedIs DEF LimiterInv, BucketOK
<1>3. Len(attempts) \in Nat /\ Len(attempts') \in Nat /\ Len(attempts') <= Len(attempts)
      /\ Len(wrong) \in Nat
  BY <1>2 DEF LimiterInv, BucketOK, HistoryOK
<1>4. BucketOK' /\ HistoryOK'
  BY <1>1, <1>2 DEF LimiterInv, BucketOK, Stage, HistoryOK
<1>5. BoundedBucket'
  <2>1. t \notin Pending
    BY <1>1 DEF Pending
  <2>2. CASE Len(attempts') >= LOGIN_MAX_ATTEMPTS
    <3>1. Pending' = Pending
      BY <1>1, <2>2 DEF Pending, LimiterInv, BucketOK
    <3>2. QED
      BY <1>3, <3>1, PendingIsFinite, LimiterAssumption DEF LimiterInv, BoundedBucket
  <2>3. CASE Len(attempts') < LOGIN_MAX_ATTEMPTS
    <3>1. Pending' = Pending \cup {t}
      BY <1>1, <1>3, <2>3, LimiterAssumption DEF Pending, LimiterInv, BucketOK
    <3>2. Cardinality(Pending') = Cardinality(Pending) + 1
      BY <2>1, <3>1, PendingIsFinite, FS_AddElement
    <3>3. Cardinality(Pending') <= Cardinality(Thread)
      BY <2>1, <3>2, PendingIsFinite
    <3>4. QED
      BY <1>3, <2>3, <3>2, <3>3, PendingIsFinite, LimiterAssumption DEF LimiterInv, BoundedBucket
  <2>4. QED
    BY <1>3, <2>2, <2>3, LimiterAssumption
<1>6. Accounted'
  <2>1. PICK done, place, call :
           /\ done \in SUBSET (1..Len(wrong))
           /\ Recorded(done, place) /\ Underway((1..Len(wrong)) \ done, call)
    BY DEF LimiterInv, Accounted
  <2>2. age[t] \in Nat
    BY LimiterAssumption DEF LimiterInv, BucketOK
  <2>. DEFINE moved == [i \in done |-> place[i] - n]
  <2>3. OneEach(moved, done, 1..Len(attempts')) /\ \A i \in done : place[i] \in (n + 1)..Len(attempts)
    BY <1>2, <2>1, <2>2, PrunedKeepsPlaces
  <2>4. \A i \in done : attempts'[moved[i]] = wrong[i]
    BY <1>2, <1>3, <2>1, <2>3 DEF Recorded, OneEach
  <2>5. \A u \in Thread : pc[u] = "failed" => pc'[u] = "failed"
    BY <1>1 DEF LimiterInv, BucketOK
  <2>6. /\ OneEach(call, (1..Len(wrong)) \ done, Thread)
        /\ \A i \in (1..Len(wrong)) \ done : pc'[call[i]] = "failed" /\ age'[call[i]] = wrong'[i]
    BY <1>1, <2>1, <2>5 DEF Underway, OneEach
  <2>. HIDE DEF moved
  <2>7. QED
    BY <1>1, <2>1, <2>3, <2>4, <2>6, AccountedNext
<1>7. QED
  BY <1>4, <1>5, <1>6 DEF LimiterInv

\* A wrong password is under way to the bucket.
LEMMA FailStep ==
  ASSUME LimiterInv, NEW t \in Thread, Fail(t)
  PROVE  LimiterInv'
<1>1. /\ pc[t] = "verify" /\ pc' = [pc EXCEPT ![t] = "failed"] /\ age' = [age EXCEPT ![t] = 0]
      /\ wrong' = Append(wrong, 0) /\ UNCHANGED <<attempts, calm>>
  BY DEF Fail
<1>2. 0 \in 0..LOGIN_WINDOW_SECONDS - 1 /\ 0 \in 0..MaxStall
  BY LimiterAssumption
<1>3. /\ wrong' \in Seq(0..LOGIN_WINDOW_SECONDS - 1) /\ Len(wrong) \in Nat
      /\ Len(wrong') = Len(wrong) + 1 /\ wrong'[Len(wrong) + 1] = 0
      /\ \A i \in 1..Len(wrong) : wrong'[i] = wrong[i] /\ wrong[i] >= 0
  BY <1>1, <1>2, LimiterAssumption DEF LimiterInv, HistoryOK
<1>4. BucketOK' /\ Pending' = Pending
  BY <1>1, <1>2 DEF LimiterInv, BucketOK, Stage, Pending
<1>5. BoundedBucket'
  BY <1>1, <1>4 DEF LimiterInv, BoundedBucket
<1>6. HistoryOK'
  BY <1>1, <1>3 DEF LimiterInv, HistoryOK
<1>7. Accounted'
  <2>1. PICK done, place, call :
           /\ done \in SUBSET (1..Len(wrong))
           /\ Recorded(done, place) /\ Underway((1..Len(wrong)) \ done, call)
    BY DEF LimiterInv, Accounted
  <2>. DEFINE rest == (1..Len(wrong)) \ done
              more == (1..Len(wrong')) \ done
              calls == [i \in more |-> IF i \in rest THEN call[i] ELSE t]
  <2>2. /\ done \in SUBSET (1..Len(wrong')) /\ OneEach(place, done, 1..Len(attempts'))
        /\ \A i \in done : attempts'[place[i]] = wrong'[i]
    BY <1>1, <1>3, <2>1 DEF Recorded
  <2>3. more = rest \cup {Len(wrong) + 1} /\ Len(wrong) + 1 \notin rest
    BY <1>3, <2>1
  <2>4. \A i \in rest : /\ call[i] \in Thread /\ pc[call[i]] = "failed" /\ age[call[i]] = wrong[i]
                        /\ call[i] # t
    BY <1>1, <2>1 DEF Underway, OneEach
  <2>5. \A i, j \in rest : call[i] = call[j] => i = j
    BY <2>1 DEF Underway, OneEach
  <2>6. OneEach(calls, more, Thread)
    BY <2>3, <2>4, <2>5 DEF OneEach
  <2>7. \A i \in more : pc'[calls[i]] = "failed" /\ age'[calls[i]] = wrong'[i]
    BY <1>1, <1>3, <2>3, <2>4 DEF LimiterInv, BucketOK
  <2>8. more = (1..Len(wrong')) \ done
    OBVIOUS
  <2>. HIDE DEF calls, more
  <2>9. QED
    BY <2>2, <2>6, <2>7, <2>8, AccountedNext
<1>8. QED
  BY <1>4, <1>5, <1>6, <1>7 DEF LimiterInv

\* A call that is over leaves the bucket at most one longer.
LEMMA EndBounded ==
  ASSUME LimiterInv, NEW t \in Pending, pc' = [pc EXCEPT ![t] = "idle"],
         Len(attempts') \in Nat, Len(attempts') <= Len(attempts) + 1
  PROVE  BoundedBucket'
<1>1. Len(attempts) \in Nat
  BY DEF LimiterInv, BucketOK
<1>2. Pending' = Pending \ {t}
  BY DEF Pending, LimiterInv, BucketOK
<1>3. Cardinality(Pending') = Cardinality(Pending) - 1
  BY <1>2, PendingIsFinite, FS_RemoveElement
<1>4. QED
  BY <1>1, <1>3, PendingIsFinite, LimiterAssumption DEF LimiterInv, BoundedBucket

\* What was under way is recorded at the end of the bucket.
LEMMA RecordStep ==
  ASSUME LimiterInv, NEW t \in Thread, Record(t)
  PROVE  LimiterInv'
<1>1. /\ pc[t] = "failed" /\ pc' = [pc EXCEPT ![t] = "idle"] /\ UNCHANGED <<age, wrong, calm>>
      /\ attempts' = Append(Pruned(attempts, age[t]), age[t])
  BY DEF Record
<1>2. age[t] \in Nat /\ age[t] \in Age
  BY LimiterAssumption DEF LimiterInv, BucketOK, Age, Oldest
<1>3. PICK n \in 0..Len(attempts) :
         /\ Pruned(attempts, age[t]) \in Seq(Age)
         /\ Len(Pruned(attempts, age[t])) = Len(attempts) - n
         /\ \A i \in 1..(Len(attempts) - n) : Pruned(attempts, age[t])[i] = attempts[i + n]
         /\ \A i \in 1..n : Expired(attempts[i], age[t])
  BY PrunedIs DEF LimiterInv, BucketOK
<1>. DEFINE last == Len(attempts) - n + 1
<1>4. /\ Len(attempts) \in Nat /\ Len(wrong) \in Nat
      /\ attempts' \in Seq(Age) /\ Len(attempts') = last /\ attempts'[last] = age[t]
      /\ \A i \in 1..(Len(attempts) - n) : attempts'[i] = attempts[i + n]
  <2>. DEFINE kept == Pruned(attempts, age[t])
  <2>1. kept \in Seq(Age) /\ Len(kept) = Len(attempts) - n
        /\ \A i \in 1..(Len(attempts) - n) : kept[i] = attempts[i + n]
    BY <1>3
  <2>2. attempts' = Append(kept, age[t])
    BY <1>1
  <2>. HIDE DEF kept
  <2>3. QED
    BY <1>2, <2>1, <2>2 DEF LimiterInv, BucketOK, HistoryOK
<1>5. BucketOK' /\ HistoryOK'
  BY <1>1, <1>4 DEF LimiterInv, BucketOK, Stage, HistoryOK
<1>6. BoundedBucket'
  <2>1. t \in Pending /\ Len(attempts') \in Nat /\ Len(attempts') <= Len(attempts) + 1
    BY <1>1, <1>4 DEF Pending
  <2>2. QED
    BY <1>1, <2>1, EndBounded
<1>7. Accounted'
  <2>1. PICK done, place, call :
           /\ done \in SUBSET (1..Len(wrong))
           /\ Recorded(done, place) /\ Underway((1..Len(wrong)) \ done, call)
    BY DEF LimiterInv, Accounted
  <2>. DEFINE rest  == (1..Len(wrong)) \ done
              tried == {i \in rest : call[i] = t}
              more  == done \cup tried
              moved == [i \in done |-> place[i] - n]
              put   == [i \in more |-> IF i \in done THEN moved[i] ELSE last]
              left  == [i \in rest \ tried |-> call[i]]
  <2>2. OneEach(moved, done, 1..(Len(attempts) - n)) /\ \A i \in done : place[i] \in (n + 1)..Len(attempts)
    BY <1>2, <1>3, <2>1, PrunedKeepsPlaces
  <2>3. \A i \in rest : call[i] \in Thread /\ pc[call[i]] = "failed" /\ age[call[i]] = wrong[i]
    BY <2>1 DEF Underway, OneEach
  <2>4. \A i, j \in rest : call[i] = call[j] => i = j
    BY <2>1 DEF Underway, OneEach
  <2>5. \A i \in done : moved[i] \in 1..(Len(attempts) - n) /\ \A j \in done : moved[i] = moved[j] => i = j
    BY <2>2 DEF OneEach
  <2>6. OneEach(put, more, 1..Len(attempts'))
    <3>1. \A i \in more : put[i] \in 1..Len(attempts')
      BY <1>4, <2>5
    <3>2. ASSUME NEW i \in more, NEW j \in more, put[i] = put[j] PROVE i = j
      <4>1. CASE i \in done /\ j \in done
        BY <2>5, <3>2, <4>1
      <4>2. CASE i \notin done /\ j \notin done
        BY <2>4, <4>2
      <4>3. CASE i \in done /\ j \notin done
        BY <1>4, <2>5, <3>2, <4>3
      <4>4. CASE i \notin done /\ j \in done
        BY <1>4, <2>5, <3>2, <4>4
      <4>5. QED
        BY <4>1, <4>2, <4>3, <4>4
    <3>3. QED
      BY <3>1, <3>2 DEF OneEach
  <2>7. \A i \in more : attempts'[put[i]] = wrong[i]
    <3>1. ASSUME NEW i \in done PROVE attempts'[put[i]] = wrong[i]
      BY <1>4, <2>1, <2>2, <2>5 DEF Recorded
    <3>2. ASSUME NEW i \in tried PROVE attempts'[put[i]] = wrong[i]
      BY <1>4, <2>3
    <3>3. QED
      BY <3>1, <3>2
  <2>8. more \in SUBSET (1..Len(wrong)) /\ (1..Len(wrong)) \ more = rest \ tried
    BY <2>1
  <2>9. OneEach(left, rest \ tried, Thread)
    BY <2>3, <2>4 DEF OneEach
  <2>10. \A i \in rest \ tried : pc'[left[i]] = "failed" /\ age'[left[i]] = wrong'[i]
    BY <1>1, <2>3 DEF LimiterInv, BucketOK
  <2>11. rest \ tried = (1..Len(wrong')) \ more /\ more \in SUBSET (1..Len(wrong'))
    BY <1>1, <2>8
  <2>12. \A i \in more : attempts'[put[i]] = wrong'[i]
    BY <1>1, <2>7
  <2>. HIDE DEF rest, tried, more, put, left
  <2>13. QED
    BY <2>6, <2>9, <2>10, <2>11, <2>12, AccountedNext
<1>8. QED
  BY <1>5, <1>6, <1>7 DEF LimiterInv

\* A success empties the bucket and what is counted against it.
LEMMA ClearStep ==
  ASSUME LimiterInv, NEW t \in Thread, Clear(t)
  PROVE  LimiterInv'
<1>1. /\ pc[t] = "passed" /\ pc' = [pc EXCEPT ![t] = "idle"] /\ UNCHANGED <<age, calm>>
      /\ attempts' = <<>> /\ wrong' = <<>>
  BY DEF Clear
<1>2. attempts' \in Seq(Age) /\ Len(attempts') = 0 /\ Len(attempts) \in Nat
      /\ wrong' \in Seq(0..LOGIN_WINDOW_SECONDS - 1) /\ Len(wrong') = 0
  BY <1>1 DEF LimiterInv, BucketOK
<1>3. BucketOK' /\ HistoryOK'
  BY <1>1, <1>2 DEF LimiterInv, BucketOK, Stage, HistoryOK
<1>4. BoundedBucket'
  <2>1. t \in Pending /\ Len(attempts') \in Nat /\ Len(attempts') <= Len(attempts) + 1
    BY <1>1, <1>2 DEF Pending
  <2>2. QED
    BY <1>1, <2>1, EndBounded
<1>5. Accounted'
  <2>1. 1..Len(wrong') = {} /\ {} \in SUBSET (1..Len(wrong'))
    BY <1>2
  <2>2. OneEach([i \in {} |-> i], {}, 1..Len(attempts')) /\ OneEach([i \in {} |-> i], {}, Thread)
    BY DEF OneEach
  <2>3. QED
    BY <2>1, <2>2, AccountedNext
<1>6. QED
  BY <1>3, <1>4, <1>5 DEF LimiterInv

\* A tick makes every age one more, and wrong passwords leave the window.
LEMMA TickStep ==
  ASSUME LimiterInv, Tick
  PROVE  LimiterInv'
<1>. DEFINE last == LOGIN_WINDOW_SECONDS - 1
            over == {i \in 1..Len(wrong) : wrong[i] = last}
<1>1. /\ attempts' = [i \in 1..Len(attempts) |-> IF attempts[i] < Oldest THEN attempts[i] + 1 ELSE Oldest]
      /\ age' = [t \in Thread |-> IF pc[t] \in {"asked", "failed"} THEN age[t] + 1 ELSE 0]
      /\ wrong' = [i \in 1..(Len(wrong) - Cardinality(over)) |-> wrong[i + Cardinality(over)] + 1]
      /\ \A t \in Thread : pc[t] \in {"asked", "failed"} => age[t] < MaxStall
      /\ UNCHANGED <<pc, calm>>
  BY DEF Tick
<1>2. /\ MaxStall \in Nat \ {0} /\ LOGIN_WINDOW_SECONDS \in Nat \ {0}
      /\ Len(attempts) \in Nat /\ Len(wrong) \in Nat
      /\ \A i \in 1..Len(wrong) : wrong[i] \in 0..last
      /\ \A i \in 1..Len(attempts) : attempts[i] \in 0..Oldest
  <2>1. /\ MaxStall \in Nat \ {0} /\ LOGIN_WINDOW_SECONDS \in Nat \ {0}
        /\ Len(attempts) \in Nat /\ Len(wrong) \in Nat
    BY LimiterAssumption DEF LimiterInv, BucketOK, HistoryOK
  <2>2. \A i \in 1..Len(attempts) : attempts[i] \in 0..Oldest
    BY <2>1 DEF LimiterInv, BucketOK, Age, Oldest
  <2>3. \A i \in 1..Len(wrong) : wrong[i] \in 0..last
    BY <2>1 DEF LimiterInv, HistoryOK
  <2>4. QED
    BY <2>1, <2>2, <2>3
<1>3. PICK n \in 0..Len(wrong) : n = Cardinality(over) /\ over = 1..n
  <2>1. over \in SUBSET (1..Len(wrong)) /\ \A i \in over : \A j \in 1..i : j \in over
    BY <1>2 DEF LimiterInv, HistoryOK
  <2>. HIDE DEF over
  <2>2. QED
    BY <1>2, <2>1, LeadingIsInterval
<1>. HIDE DEF over
<1>4. wrong' = [i \in 1..(Len(wrong) - n) |-> wrong[i + n] + 1]
  BY <1>1, <1>3
<1>5. ASSUME NEW i \in 1..(Len(wrong) - n)
      PROVE  i + n \in 1..Len(wrong) /\ wrong[i + n] \in 0..last /\ wrong[i + n] # last
  <2>1. i + n \in 1..Len(wrong) /\ i + n \notin 1..n
    BY <1>2, <1>5
  <2>2. QED
    BY <1>2, <1>3, <2>1 DEF over
<1>6. /\ wrong' \in Seq(0..last) /\ Len(wrong') = Len(wrong) - n
      /\ \A i \in 1..Len(wrong') : wrong'[i] = wrong[i + n] + 1
  <2>1. Len(wrong) - n \in Nat
    BY <1>2
  <2>2. ASSUME NEW i \in 1..(Len(wrong) - n) PROVE wrong[i + n] + 1 \in 0..last
    <3>1. wrong[i + n] \in 0..last /\ wrong[i + n] # last
      BY <1>5, <2>2
    <3>2. QED
      BY <1>2, <3>1
  <2>3. QED
    BY <1>4, <2>1, <2>2
<1>7. attempts' \in Seq(Age) /\ Len(attempts') = Len(attempts)
  <2>1. \A i \in 1..Len(attempts) : (IF attempts[i] < Oldest THEN attempts[i] + 1 ELSE Oldest) \in Age
    BY <1>2 DEF Age, Oldest
  <2>2. QED
    BY <1>1, <1>2, <2>1
<1>8. BucketOK'
  BY <1>1, <1>2, <1>7 DEF LimiterInv, BucketOK
<1>9. BoundedBucket'
  <2>1. Pending' = Pending
    BY <1>1 DEF Pending
  <2>2. QED
    BY <1>7, <2>1 DEF LimiterInv, BoundedBucket
<1>10. HistoryOK'
  <2>1. ASSUME NEW i \in 1..Len(wrong'), NEW j \in 1..Len(wrong'), i <= j PROVE wrong'[i] >= wrong'[j]
    <3>1. i + n \in 1..Len(wrong) /\ j + n \in 1..Len(wrong) /\ i + n <= j + n
      <4>1. Len(wrong') = Len(wrong) - n
        BY <1>6
      <4>2. QED
        BY <1>2, <2>1, <4>1
    <3>2. \A k, m \in 1..Len(wrong) : k <= m => wrong[k] >= wrong[m]
      BY DEF LimiterInv, HistoryOK
    <3>3. wrong[i + n] >= wrong[j + n]
      BY <3>1, <3>2
    <3>4. wrong'[i] = wrong[i + n] + 1 /\ wrong'[j] = wrong[j + n] + 1
      BY <1>6
    <3>5. wrong[i + n] \in 0..last /\ wrong[j + n] \in 0..last
      BY <1>2, <3>1
    <3>6. QED
      BY <1>2, <3>3, <3>4, <3>5
  <2>2. QED
    BY <1>1, <1>6, <2>1 DEF LimiterInv, HistoryOK
<1>11. Accounted'
  <2>1. PICK done, place, call :
           /\ done \in SUBSET (1..Len(wrong))
           /\ Recorded(done, place) /\ Underway((1..Len(wrong)) \ done, call)
    BY DEF LimiterInv, Accounted
  <2>. DEFINE still == {i \in 1..Len(wrong') : i + n \in done}
              rest  == (1..Len(wrong')) \ still
              put   == [i \in still |-> place[i + n]]
              calls == [i \in rest |-> call[i + n]]
  <2>2. \A i \in still : /\ i + n \in done /\ wrong'[i] = wrong[i + n] + 1 /\ wrong[i + n] \in 0..last
                         /\ i + n \in 1..Len(wrong) /\ i \in 1..Len(wrong')
    BY <1>2, <1>5, <1>6
  <2>3. \A i \in rest : /\ i + n \in (1..Len(wrong)) \ done /\ wrong'[i] = wrong[i + n] + 1
                        /\ i \in 1..Len(wrong')
    BY <1>2, <1>5, <1>6
  <2>4. \A i \in done : /\ place[i] \in 1..Len(attempts) /\ attempts[place[i]] = wrong[i]
                        /\ \A j \in done : place[i] = place[j] => i = j
    BY <2>1 DEF Recorded, OneEach
  <2>5. \A i \in (1..Len(wrong)) \ done :
           /\ call[i] \in Thread /\ pc[call[i]] = "failed" /\ age[call[i]] = wrong[i]
           /\ \A j \in (1..Len(wrong)) \ done : call[i] = call[j] => i = j
    BY <2>1 DEF Underway, OneEach
  <2>6. OneEach(put, still, 1..Len(attempts'))
    <3>1. \A i \in still : put[i] \in 1..Len(attempts')
      BY <1>7, <2>2, <2>4
    <3>2. \A i, j \in still : put[i] = put[j] => i = j
      BY <1>2, <1>6, <2>2, <2>4
    <3>3. QED
      BY <3>1, <3>2 DEF OneEach
  <2>7. ASSUME NEW i \in still PROVE attempts'[put[i]] = wrong'[i]
    <3>1. put[i] \in 1..Len(attempts) /\ attempts[put[i]] = wrong[i + n] /\ wrong[i + n] \in 0..last
      BY <2>2, <2>4
    <3>2. attempts[put[i]] < Oldest
      BY <1>2, <3>1 DEF Oldest
    <3>3. QED
      BY <1>1, <2>2, <3>1, <3>2
  <2>8. still \in SUBSET (1..Len(wrong'))
    OBVIOUS
  <2>9. OneEach(calls, rest, Thread)
    <3>1. \A i \in rest : calls[i] \in Thread
      BY <2>3, <2>5
    <3>2. ASSUME NEW i \in rest, NEW j \in rest, calls[i] = calls[j] PROVE i = j
      <4>1. i + n \in (1..Len(wrong)) \ done /\ j + n \in (1..Len(wrong)) \ done
            /\ call[i + n] = call[j + n] /\ i \in Nat /\ j \in Nat
        BY <1>2, <2>3, <3>2
      <4>2. i + n = j + n
        BY <2>5, <4>1
      <4>3. QED
        BY <1>2, <4>1, <4>2
    <3>3. QED
      BY <3>1, <3>2 DEF OneEach
  <2>10. ASSUME NEW i \in rest PROVE pc'[calls[i]] = "failed" /\ age'[calls[i]] = wrong'[i]
    <3>1. calls[i] \in Thread /\ pc[calls[i]] = "failed" /\ age[calls[i]] = wrong[i + n]
      BY <2>3, <2>5
    <3>2. QED
      BY <1>1, <2>3, <3>1
  <2>. HIDE DEF still, put, calls
  <2>11. QED
    BY <2>6, <2>7, <2>8, <2>9, <2>10, AccountedNext
<1>12. QED
  BY <1>8, <1>9, <1>10, <1>11 DEF LimiterInv

\* A call moves on before or after the two tests.
LEMMA QuietStep ==
  ASSUME LimiterInv, UNCHANGED <<attempts, wrong>>, calm' \in BOOLEAN,
         pc' \in [Thread -> Stage], age' \in [Thread -> 0..MaxStall], Pending' = Pending,
         \A t \in Thread : pc[t] = "failed" => pc'[t] = "failed" /\ age'[t] = age[t]
  PROVE  LimiterInv'
<1>1. BucketOK' /\ BoundedBucket' /\ HistoryOK'
  BY DEF LimiterInv, BucketOK, BoundedBucket, HistoryOK
<1>2. Accounted'
  <2>1. PICK done, place, call :
           /\ done \in SUBSET (1..Len(wrong))
           /\ Recorded(done, place) /\ Underway((1..Len(wrong)) \ done, call)
    BY DEF LimiterInv, Accounted
  <2>2. Recorded(done, place)'
    BY <2>1 DEF Recorded
  <2>3. Underway((1..Len(wrong)) \ done, call)'
    BY <2>1 DEF Underway, OneEach
  <2>4. QED
    BY <2>1, <2>2, <2>3 DEF Accounted
<1>3. QED
  BY <1>1, <1>2 DEF LimiterInv

\* Every step keeps the invariant.
LEMMA LimiterNextInv == LimiterInv /\ [Next]_vars => LimiterInv'
<1> SUFFICES ASSUME LimiterInv, [Next]_vars PROVE LimiterInv'
  OBVIOUS
<1>1. CASE UNCHANGED vars \/ Settle
  BY <1>1, QuietStep DEF vars, Settle, LimiterInv, BucketOK, HistoryOK, Pending
<1>2. ASSUME NEW t \in Thread, Ask(t) \/ Pass(t) PROVE LimiterInv'
  <2>1. Pending' = Pending
    BY <1>2 DEF Ask, Pass, Pending, LimiterInv, BucketOK
  <2>2. 0 \in 0..MaxStall
    BY LimiterAssumption
  <2>3. pc' \in [Thread -> Stage] /\ age' \in [Thread -> 0..MaxStall]
    BY <1>2, <2>2 DEF Ask, Pass, LimiterInv, BucketOK, Stage
  <2>4. UNCHANGED <<attempts, wrong, calm>> /\ calm \in BOOLEAN
    BY <1>2 DEF Ask, Pass, LimiterInv, HistoryOK
  <2>5. \A u \in Thread : pc[u] = "failed" => pc'[u] = "failed" /\ age'[u] = age[u]
    BY <1>2 DEF Ask, Pass, LimiterInv, BucketOK
  <2>6. QED
    BY <2>1, <2>3, <2>4, <2>5, QuietStep
<1>3. QED
  BY <1>1, <1>2, TickStep, CheckStep, FailStep, RecordStep, ClearStep DEF Next, Call

\* Nothing is recorded or tried at first.
LEMMA LimiterInitInv == Init => LimiterInv
<1> SUFFICES ASSUME Init PROVE LimiterInv
  OBVIOUS
<1>1. attempts = <<>> /\ wrong = <<>> /\ Len(wrong) = 0 /\ Len(attempts) = 0
  BY DEF Init
<1>2. BucketOK
  BY LimiterAssumption DEF Init, BucketOK, Stage
<1>3. HistoryOK
  <2>1. wrong \in Seq(0..LOGIN_WINDOW_SECONDS - 1)
    BY <1>1
  <2>2. 1..Len(wrong) = {}
    BY <1>1
  <2>3. QED
    BY <2>1, <2>2 DEF Init, HistoryOK
<1>4. Pending = {}
  BY DEF Init, Pending
<1>5. BoundedBucket
  BY <1>1, <1>4, FS_EmptySet, FS_CardinalityType, LimiterAssumption DEF BoundedBucket
<1>6. Accounted
  BY <1>1, NothingTried
<1>7. QED
  BY <1>2, <1>3, <1>5, <1>6 DEF LimiterInv

-----------------------------------------------------------------------------
\* The invariant holds in every reachable state.
LEMMA LimiterInvariance == Spec => []LimiterInv
BY LimiterInitInv, LimiterNextInv, PTL DEF Spec

\* The bucket and the wrong passwords of the window keep their types, and the
\* bucket is finite.
THEOREM LoginLimiterTypeOK == Spec => []TypeOK
<1>1. ASSUME LimiterInv PROVE TypeOK
  <2>1. Len(attempts) <= LOGIN_MAX_ATTEMPTS + Cardinality(Thread)
    BY <1>1, PendingIsFinite, LimiterAssumption DEF LimiterInv, BucketOK, BoundedBucket
  <2>2. QED
    BY <1>1, <2>1 DEF LimiterInv, BucketOK, HistoryOK, TypeOK
<1>2. QED
  BY <1>1, LimiterInvariance, PTL

\* However many calls run at once, and in whatever order their clocks enter the
\* deque, fewer passwords than the limit and one for each thread are recorded,
\* and fewer are tried within a window (main.py 92-108).
THEOREM LimitIsKept == Spec => []LimitHolds
<1>1. ASSUME LimiterInv PROVE WindowBound
  <2>1. PICK done, place, call :
           /\ done \in SUBSET (1..Len(wrong))
           /\ Recorded(done, place) /\ Underway((1..Len(wrong)) \ done, call)
    BY <1>1 DEF LimiterInv, Accounted
  <2>. DEFINE rest == (1..Len(wrong)) \ done
  <2>2. Len(attempts) \in Nat /\ Len(wrong) \in Nat
    BY <1>1 DEF LimiterInv, BucketOK, HistoryOK
  <2>3. /\ IsFiniteSet(1..Len(wrong)) /\ Cardinality(1..Len(wrong)) = Len(wrong)
        /\ IsFiniteSet(1..Len(attempts)) /\ Cardinality(1..Len(attempts)) = Len(attempts)
    BY <2>2, CardinalityUpTo
  <2>4. IsFiniteSet(done) /\ Cardinality(done) \in Nat /\ Cardinality(done) <= Len(attempts)
    BY <2>1, <2>3, OneEachBounds DEF Recorded
  <2>5. IsFiniteSet(rest) /\ Cardinality(rest) \in Nat /\ Cardinality(rest) <= Cardinality(Pending)
    <3>1. OneEach(call, rest, Pending)
      BY <2>1 DEF Underway, OneEach, Pending
    <3>2. QED
      BY <3>1, PendingIsFinite, OneEachBounds
  <2>6. Cardinality(done) + Cardinality(rest) = Len(wrong)
    <3>1. done \cap rest = {} /\ done \cup rest = 1..Len(wrong)
      BY <2>1
    <3>2. /\ Cardinality(done \cup rest) = Cardinality(done) + Cardinality(rest) - Cardinality(done \cap rest)
          /\ Cardinality(done \cap rest) = 0
      BY <2>4, <2>5, <3>1, FS_Union, FS_EmptySet
    <3>3. Cardinality(done \cup rest) = Len(wrong)
      BY <2>3, <3>1, Zenon
    <3>. HIDE DEF rest
    <3>4. QED
      BY <2>2, <2>4, <2>5, <3>2, <3>3
  <2>7. QED
    BY <1>1, <2>2, <2>4, <2>5, <2>6, PendingIsFinite, LimiterAssumption DEF LimiterInv, BoundedBucket, WindowBound
<1>2. LimiterInv => LimitHolds
  BY <1>1 DEF LimiterInv, LimitHolds
<1>3. QED
  BY <1>2, LimiterInvariance, PTL

-----------------------------------------------------------------------------
\* The disorder stays bounded in what pruning leaves.
LEMMA PrunedDisorder ==
  ASSUME BucketOK, DisorderIsBounded, NEW d
  PROVE  LET kept == Pruned(attempts, d)
         IN  /\ kept \in Seq(Age)
             /\ \A i, j \in 1..Len(kept) : i < j => kept[j] <= kept[i] + MaxStall
<1>. DEFINE kept == Pruned(attempts, d)
<1>1. PICK n \in 0..Len(attempts) :
         /\ kept \in Seq(Age) /\ Len(kept) = Len(attempts) - n
         /\ \A i \in 1..(Len(attempts) - n) : kept[i] = attempts[i + n]
  BY PrunedIs DEF BucketOK
<1>. HIDE DEF kept
<1>2. Len(attempts) \in Nat
  BY DEF BucketOK
<1>3. ASSUME NEW i \in 1..Len(kept), NEW j \in 1..Len(kept), i < j
      PROVE  kept[j] <= kept[i] + MaxStall
  <2>1. i + n \in 1..Len(attempts) /\ j + n \in 1..Len(attempts) /\ i + n < j + n
    BY <1>1, <1>2, <1>3
  <2>2. kept[i] = attempts[i + n] /\ kept[j] = attempts[j + n]
    BY <1>1, <1>3
  <2>3. QED
    BY <2>1, <2>2 DEF DisorderIsBounded
<1>4. QED
  BY <1>1, <1>3 DEF kept

\* Every step keeps the disorder bounded.
LEMMA DisorderStep ==
  ASSUME BucketOK, DisorderIsBounded, [Next]_vars
  PROVE  DisorderIsBounded'
<1>1. CASE UNCHANGED attempts
  BY <1>1 DEF DisorderIsBounded
<1>2. ASSUME NEW t \in Thread, Check(t) PROVE DisorderIsBounded'
  <2>1. attempts' = Pruned(attempts, age[t])
    BY <1>2 DEF Check
  <2>2. QED
    BY <2>1, PrunedDisorder DEF DisorderIsBounded
<1>3. ASSUME NEW t \in Thread, Record(t) PROVE DisorderIsBounded'
  <2>. DEFINE kept == Pruned(attempts, age[t])
  <2>1. attempts' = Append(kept, age[t]) /\ age[t] \in 0..MaxStall
    BY <1>3 DEF Record, BucketOK
  <2>2. /\ kept \in Seq(Age)
        /\ \A i, j \in 1..Len(kept) : i < j => kept[j] <= kept[i] + MaxStall
    BY PrunedDisorder
  <2>. HIDE DEF kept
  <2>3. /\ Len(kept) \in Nat /\ Len(attempts') = Len(kept) + 1
        /\ attempts'[Len(kept) + 1] = age[t]
        /\ \A i \in 1..Len(kept) : attempts'[i] = kept[i] /\ kept[i] \in Age
    BY <2>1, <2>2
  <2>4. ASSUME NEW i \in 1..Len(attempts'), NEW j \in 1..Len(attempts'), i < j
        PROVE  attempts'[j] <= attempts'[i] + MaxStall
    <3>1. i \in 1..Len(kept)
      BY <2>3, <2>4
    <3>2. CASE j \in 1..Len(kept)
      BY <2>2, <2>3, <2>4, <3>1, <3>2
    <3>3. CASE j = Len(kept) + 1
      <4>1. attempts'[j] = age[t] /\ attempts'[i] \in Age
        BY <2>3, <3>1, <3>3
      <4>2. QED
        BY <2>1, <4>1, LimiterAssumption DEF Age, Oldest
    <3>4. QED
      BY <2>3, <2>4, <3>2, <3>3
  <2>5. QED
    BY <2>4 DEF DisorderIsBounded
<1>4. ASSUME NEW t \in Thread, Clear(t) PROVE DisorderIsBounded'
  <2>1. attempts' = <<>>
    BY <1>4 DEF Clear
  <2>2. QED
    BY <2>1 DEF DisorderIsBounded
<1>5. CASE Tick
  <2>1. Len(attempts) \in Nat /\ \A i \in 1..Len(attempts) : attempts[i] \in Age
    BY DEF BucketOK
  <2>2. /\ Len(attempts') = Len(attempts)
        /\ \A i \in 1..Len(attempts) :
              attempts'[i] = IF attempts[i] < Oldest THEN attempts[i] + 1 ELSE Oldest
    BY <1>5, <2>1 DEF Tick
  <2>3. ASSUME NEW i \in 1..Len(attempts), NEW j \in 1..Len(attempts), i < j
        PROVE  attempts'[j] <= attempts'[i] + MaxStall
    <3>1. attempts[i] \in 0..Oldest /\ attempts[j] \in 0..Oldest /\ Oldest \in Nat /\ MaxStall \in Nat
      BY <2>1, LimiterAssumption DEF Age, Oldest
    <3>2. attempts[j] <= attempts[i] + MaxStall
      BY <2>3 DEF DisorderIsBounded
    <3>3. QED
      BY <2>2, <3>1, <3>2
  <2>4. QED
    BY <2>2, <2>3 DEF DisorderIsBounded
<1>6. QED
  BY <1>1, <1>2, <1>3, <1>4, <1>5 DEF Next, Call, Settle, Ask, Fail, Pass, vars

\* The disorder is bounded in every reachable state.
LEMMA Disorder == Spec => [](BucketOK /\ DisorderIsBounded)
<1>1. Init => DisorderIsBounded
  BY DEF Init, DisorderIsBounded
<1>2. LimiterInv => BucketOK
  BY DEF LimiterInv
<1>3. BucketOK /\ DisorderIsBounded /\ [Next]_vars => DisorderIsBounded'
  BY DisorderStep
<1>4. QED
  BY <1>1, <1>2, <1>3, LimiterInvariance, PTL DEF Spec

\* Nobody is refused for failures that are long past (main.py 92-99): pruning
\* stops at the first failure of the window, and what it leaves behind that one
\* is older by a stall at most.
THEOREM RefusalIsForCause == Spec => RefusalsAreDue
<1> DEFINE Due == \A t \in Thread : pc[t] = "asked" /\ pc'[t] = "idle" =>
      /\ Len(attempts') >= LOGIN_MAX_ATTEMPTS
      /\ \A i \in 1..Len(attempts') : attempts'[i] - age[t] < LOGIN_WINDOW_SECONDS + MaxStall
<1>1. ASSUME BucketOK, DisorderIsBounded, Next, NEW t \in Thread,
             pc[t] = "asked", pc'[t] = "idle"
      PROVE  /\ Len(attempts') >= LOGIN_MAX_ATTEMPTS
             /\ \A i \in 1..Len(attempts') : attempts'[i] - age[t] < LOGIN_WINDOW_SECONDS + MaxStall
  <2>1. Check(t)
    <3>1. /\ pc \in [Thread -> Stage] /\ pc' # pc
      BY <1>1 DEF BucketOK
    <3>2. ~Tick /\ ~Settle
      BY <3>1 DEF Tick, Settle
    <3>3. PICK u \in Thread : Call(u)
      BY <1>1, <3>2 DEF Next
    <3>4. u = t
      BY <1>1, <3>1, <3>3 DEF Call, Ask, Check, Fail, Record, Pass, Clear
    <3>5. QED
      BY <1>1, <3>3, <3>4 DEF Call, Ask, Fail, Record, Pass, Clear
  <2>2. attempts' = Pruned(attempts, age[t])
    BY <2>1 DEF Check
  <2>3. Len(attempts') >= LOGIN_MAX_ATTEMPTS
    BY <1>1, <2>1 DEF Check, BucketOK
  <2>4. /\ attempts' \in Seq(Age)
        /\ \A i, j \in 1..Len(attempts') : i < j => attempts'[j] <= attempts'[i] + MaxStall
    BY <1>1, <2>2, PrunedDisorder
  <2>5. Len(attempts') > 0 /\ 1 \in 1..Len(attempts')
    BY <2>3, <2>4, LimiterAssumption
  <2>6. ~Expired(attempts'[1], age[t])
    BY <1>1, <2>2, <2>5, PrunedStops DEF BucketOK
  <2>7. age[t] \in Nat /\ \A i \in 1..Len(attempts') : attempts'[i] \in Nat
    BY <1>1, <2>4, LimiterAssumption DEF BucketOK, Age, Oldest
  <2>8. ASSUME NEW i \in 1..Len(attempts')
        PROVE  attempts'[i] - age[t] < LOGIN_WINDOW_SECONDS + MaxStall
    <3>1. attempts'[1] - age[t] < LOGIN_WINDOW_SECONDS
      BY <2>5, <2>6, <2>7, LimiterAssumption DEF Expired
    <3>2. i = 1 \/ 1 < i
      BY <2>4
    <3>3. attempts'[i] <= attempts'[1] + MaxStall
      BY <2>4, <2>5, <2>7, <3>2, LimiterAssumption
    <3>4. QED
      BY <2>5, <2>7, <3>1, <3>3, LimiterAssumption
  <2>9. QED
    BY <2>3, <2>8
<1>2. BucketOK /\ DisorderIsBounded /\ [Next]_vars => [Due]_vars
  BY <1>1 DEF Due
<1>3. Spec => [][Due]_vars
  BY <1>2, Disorder, PTL DEF Spec
<1>4. QED
  BY <1>3 DEF RefusalsAreDue

-----------------------------------------------------------------------------
\* Tokens.

USE TokensAssumption

\* What a token says of the time it was issued, and whose accounts it can
\* outlive: only those a restore took away.
Dated ==
    /\ \A t \in tokens : t.exp = t.iat + TTL
    /\ ~stepped => /\ restored <= now
                   /\ \A t \in tokens : t.iat <= now

Owned ==
    ~stepped => \A t \in tokens : accounts[t.sub] # t.to => restored >= 0 /\ t.iat <= restored

Visited ==
    ~stepped => \A s \in sockets : accounts[s.user] # s.by => restored >= 0 /\ s.since < restored + TTL

TokensInv == TokensOK /\ Dated /\ Owned /\ Visited

\* Whatever the environment asks for, the TTL is within its bounds.
LEMMA TTLIsBounded == TTL \in Nat /\ TTL \in MinTTL .. MaxTTL
BY DEF TTL, Clamp

\* There are no accounts and no tokens at first.
LEMMA TokensInitInv == TokensInit => TokensInv
<1>1. SUFFICES ASSUME TokensInit PROVE TokensInv
  OBVIOUS
<1>2. now = 0 /\ restored = -1 /\ tokens = {} /\ sockets = {}
  BY <1>1 DEF TokensInit
<1>3. restored \in Nat \cup {-1} /\ restored <= now
  BY <1>2
<1>4. accounts \in [User -> Person \cup {Nobody}] /\ backup \in [User -> Person \cup {Nobody}]
  BY <1>1 DEF TokensInit
<1>5. now \in Nat /\ secret \in Nat /\ stepped \in BOOLEAN
  BY <1>1 DEF TokensInit
<1>6. TokensOK
  BY <1>2, <1>3, <1>4, <1>5 DEF TokensOK
<1>7. QED
  BY <1>2, <1>3, <1>6 DEF TokensInv, Dated, Owned, Visited

\* A token is issued for the TTL, to the person whose account it is.
LEMMA IssueInv ==
    ASSUME TokensInv, NEW u \in User, NEW p \in Person, Issue(u, p),
           accounts' \in [User -> Person \cup {Nobody}], accounts'[u] = p,
           \A v \in User : accounts'[v] = accounts[v] \/ accounts[v] = Nobody,
           UNCHANGED <<clock, secret, backup, restored, sockets>>
    PROVE  TokensInv'
<1> DEFINE new == [sub |-> u, to |-> p, iat |-> now, exp |-> now + TTL, key |-> secret]
<1>1. tokens' = tokens \cup {new}
  BY DEF Issue
<1>2. UNCHANGED <<now, stepped, secret, backup, restored, sockets>>
  BY DEF clock
<1>3. new \in Token /\ new.exp - new.iat = TTL
  BY TTLIsBounded DEF TokensInv, TokensOK, Token
<1>4. TokensOK'
  BY <1>1, <1>2, <1>3, TTLIsBounded DEF TokensInv, TokensOK
<1>5. Dated'
  BY <1>1, <1>2, TTLIsBounded DEF TokensInv, TokensOK, Dated
<1>6. Owned'
  BY <1>1, <1>2 DEF TokensInv, TokensOK, Owned, Token
<1>7. Visited'
  BY <1>2 DEF TokensInv, TokensOK, Visited, Socket
<1>8. QED
  BY <1>4, <1>5, <1>6, <1>7 DEF TokensInv

\* The process is started again, and its sockets are closed.
LEMMA StartInv ==
    ASSUME TokensInv, NEW s \in Nat, Start(s),
           UNCHANGED <<now, stepped, backup, tokens>>,
           \/ UNCHANGED <<accounts, restored>>
           \/ accounts' = backup /\ restored' = now
    PROVE  TokensInv'
<1>1. TokensOK'
  BY DEF Start, TokensInv, TokensOK
<1>2. Dated'
  BY DEF TokensInv, TokensOK, Dated
<1>3. Owned'
  BY DEF TokensInv, TokensOK, Dated, Owned, Token
<1>4. QED
  BY <1>1, <1>2, <1>3 DEF Start, TokensInv, Visited

\* Every step keeps the invariant.
LEMMA TokensInvStep == TokensInv /\ [TokensNext]_tokenVars => TokensInv'
<1>1. SUFFICES ASSUME TokensInv, [TokensNext]_tokenVars PROVE TokensInv'
  OBVIOUS
<1>2. Fresh \subseteq Nat /\ secret \in Nat
  BY <1>1 DEF Fresh, TokensInv, TokensOK
<1>3. ASSUME NEW u \in User, NEW p \in Person, Register(u, p) PROVE TokensInv'
  <2>1. /\ accounts' \in [User -> Person \cup {Nobody}] /\ accounts'[u] = p
        /\ \A v \in User : accounts'[v] = accounts[v] \/ accounts[v] = Nobody
    BY <1>1, <1>3 DEF Register, TokensInv, TokensOK
  <2>2. QED
    BY <1>1, <1>3, <2>1, IssueInv DEF Register
<1>4. ASSUME NEW u \in User, NEW p \in Person, Login(u, p) PROVE TokensInv'
  <2>1. UNCHANGED accounts /\ accounts \in [User -> Person \cup {Nobody}] /\ accounts[u] = p
    BY <1>1, <1>4 DEF Login, data, TokensInv, TokensOK
  <2>2. QED
    BY <1>1, <1>4, <2>1, IssueInv DEF Login, data
<1>5. ASSUME NEW t \in tokens, Connect(t) PROVE TokensInv'
  <2> DEFINE new == [user |-> t.sub, by |-> t.to, since |-> now]
  <2>1. sockets' = sockets \cup {new} /\ UNCHANGED <<now, stepped, secret, accounts, backup, restored, tokens>>
    BY <1>5 DEF Connect, clock, data
  <2>2. new \in Socket /\ t \in Token
    BY <1>1 DEF TokensInv, TokensOK, Token, Socket
  <2>3. TokensOK' /\ Dated' /\ Owned'
    BY <1>1, <2>1, <2>2 DEF TokensInv, TokensOK, Dated, Owned
  <2>4. ~(t.exp <= now) /\ t.exp = t.iat + TTL
    BY <1>1, <1>5 DEF Connect, Accepted, Valid, TokensInv, Dated
  <2>5. ~stepped /\ accounts[t.sub] # t.to => restored >= 0 /\ now < restored + TTL
    BY <1>1, <2>2, <2>4, TTLIsBounded DEF TokensInv, TokensOK, Owned, Token
  <2>6. Visited'
    BY <1>1, <2>1, <2>5 DEF TokensInv, Visited
  <2>7. QED
    BY <2>3, <2>6 DEF TokensInv
<1>6. ASSUME NEW s \in sockets, Disconnect(s) PROVE TokensInv'
  BY <1>1, <1>6 DEF Disconnect, clock, data, TokensInv, TokensOK, Dated, Owned, Visited
<1>7. CASE Advance
  <2>1. now' = now + 1 /\ UNCHANGED <<stepped, secret, accounts, backup, restored, tokens, sockets>>
    BY <1>7 DEF Advance, data
  <2>2. TokensOK' /\ Owned' /\ Visited'
    BY <1>1, <2>1 DEF TokensInv, TokensOK, Owned, Visited
  <2>3. Dated'
    BY <1>1, <2>1 DEF TokensInv, TokensOK, Dated, Token
  <2>4. QED
    BY <2>2, <2>3 DEF TokensInv
<1>8. CASE SetBack
  BY <1>1, <1>8 DEF SetBack, data, TokensInv, TokensOK, Dated, Owned, Visited
<1>9. CASE Restart
  <2>1. PICK s \in Nat : Start(s)
    BY <1>2, <1>9 DEF Restart
  <2>2. QED
    BY <1>1, <1>9, <2>1, StartInv DEF Restart, clock, data
<1>10. CASE Rotate
  <2>1. PICK s \in Nat : Start(s)
    BY <1>2, <1>10 DEF Rotate
  <2>2. QED
    BY <1>1, <1>10, <2>1, StartInv DEF Rotate, clock, data
<1>11. CASE Backup
  BY <1>1, <1>11 DEF Backup, clock, TokensInv, TokensOK, Dated, Owned, Visited
<1>12. CASE Restore
  <2>1. PICK s \in Nat : Start(s)
    BY <1>2, <1>12 DEF Restore
  <2>2. QED
    BY <1>1, <1>12, <2>1, StartInv DEF Restore, clock
<1>13. CASE UNCHANGED tokenVars
  BY <1>1, <1>13 DEF tokenVars, clock, data, TokensInv, TokensOK, Dated, Owned, Visited
<1>14. QED
  BY <1>1, <1>3, <1>4, <1>5, <1>6, <1>7, <1>8, <1>9, <1>10, <1>11, <1>12, <1>13 DEF TokensNext

\* The invariant holds for ever.
LEMMA TokensInvariance == TokensSpec => []TokensInv
BY TokensInitInv, TokensInvStep, PTL DEF TokensSpec

\* Every variable keeps its type, and tokens are issued for no other lifetime.
THEOREM TokensTypeOK == TokensSpec => []TokensOK
<1>1. TokensInv => TokensOK
  BY DEF TokensInv
<1>2. QED
  BY <1>1, TokensInvariance, PTL

\* The server accepts what it issues until it expires, for any configured TTL.
THEOREM TokensAreHonoured == TokensSpec => []IssuedAreAccepted
<1>1. ASSUME TokensInv PROVE IssuedAreAccepted
  <2>1. ASSUME NEW t \in tokens, t.key = secret, now < t.exp, ~stepped, accounts[t.sub] # Nobody
        PROVE  Accepted(t)
    <3>1. t \in Token /\ t.exp - t.iat \in MinTTL .. MaxTTL /\ t.iat <= now
      BY <1>1, <2>1 DEF TokensInv, TokensOK, Dated
    <3>2. ~(t.exp <= now) /\ ~(t.iat > now + Leeway) /\ ~(t.exp - t.iat > MaxLife)
      BY <1>1, <2>1, <3>1 DEF TokensInv, TokensOK, Token
    <3>3. QED
      BY <2>1, <3>2 DEF Accepted, Valid
  <2>2. QED
    BY <2>1 DEF IssuedAreAccepted
<1>2. QED
  BY <1>1, TokensInvariance, PTL

\* After a restore a name is acted for by its old holder for one TTL at most.
THEOREM OldHoldersExpire == TokensSpec => []StrangersExpire
<1>1. ASSUME TokensInv PROVE StrangersExpire
  <2>1. ASSUME NEW t \in tokens, ~stepped, Accepted(t), accounts[t.sub] # t.to
        PROVE  restored >= 0 /\ now < restored + TTL
    <3>1. restored >= 0 /\ t.iat <= restored /\ t.exp = t.iat + TTL /\ ~(t.exp <= now)
      BY <1>1, <2>1 DEF TokensInv, Dated, Owned, Accepted, Valid
    <3>2. t \in Token /\ now \in Nat /\ restored \in Int
      BY <1>1 DEF TokensInv, TokensOK
    <3>3. QED
      BY <3>1, <3>2, TTLIsBounded DEF Token
  <2>2. QED
    BY <1>1, <2>1 DEF TokensInv, Visited, StrangersExpire
<1>2. QED
  BY <1>1, TokensInvariance, PTL
=============================================================================
