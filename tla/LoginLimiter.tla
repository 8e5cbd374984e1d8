---------------------------- MODULE LoginLimiter ----------------------------
(***************************************************************************)
(* The login limiter of app/main.py: _login_allowed, _record_login_failure *)
(* and _clear_login_failures, as the login handler calls them from the     *)
(* threads that FastAPI runs it in.                                        *)
(*                                                                         *)
(* One bucket of _login_attempts is modelled, that of one address and one  *)
(* user: buckets share nothing but the lock.  The lock covers a bucket's   *)
(* pruning and its test or append, not the time between two of them, nor   *)
(* the reading of the clock: a thread may read it and get the lock later,  *)
(* after threads that read it later.                                       *)
(*                                                                         *)
(* Instead of the times when something happened the model keeps their      *)
(* ages, in ticks, which Tick advances; nothing is told apart beyond the   *)
(* age that any thread sees as expired.                                    *)
(***************************************************************************)
EXTENDS Integers, Sequences, FiniteSets

CONSTANTS
    Thread,                 \* concurrent calls of login for the bucket
    LOGIN_MAX_ATTEMPTS,
    LOGIN_WINDOW_SECONDS,   \* in ticks
    MaxStall                \* bound: ticks from reading the clock to the lock

ASSUME LimiterAssumption ==
    /\ IsFiniteSet(Thread) /\ Thread # {}
    /\ LOGIN_MAX_ATTEMPTS \in Nat /\ LOGIN_MAX_ATTEMPTS >= 2
    /\ LOGIN_WINDOW_SECONDS \in Nat \ {0}
    /\ MaxStall \in Nat \ {0}

VARIABLES
    attempts,   \* the deque of failures: the age of each
    pc,         \* where each call is
    age,        \* the age of the time it read last
    wrong,      \* history: ages of the wrong passwords tried since the last
                \* success in the last LOGIN_WINDOW_SECONDS, the oldest first
    calm        \* TRUE once nobody tries a wrong password any more

vars == <<attempts, pc, age, wrong, calm>>

\* "asked": the clock of line 91 is read; "verify": allowed, the password is
\* being checked; "failed": it was wrong, the clock of line 103 is read;
\* "passed": it was right.
Stage == {"idle", "asked", "verify", "failed", "passed"}

Oldest == LOGIN_WINDOW_SECONDS + MaxStall
Age    == 0..Oldest

Init ==
    /\ attempts = <<>>
    /\ pc = [t \in Thread |-> "idle"]
    /\ age = [t \in Thread |-> 0]
    /\ wrong = <<>>
    /\ calm = FALSE

\* A failure of age a is out of the window for a thread whose clock is d old.
Expired(a, d) == a - d >= LOGIN_WINDOW_SECONDS

\* Mutant: once the first failure is expired the bucket starts anew.
PrunedAll(s, d) == IF s # <<>> /\ Expired(s[1], d) THEN <<>> ELSE s

\* Lines 94-95 and 106-107: expired failures leave at the left end.
Pruned(s, d) ==
    LET leaving == {i \in 1..Len(s) : \A j \in 1..i : Expired(s[j], d)}
    IN  SubSeq(s, Cardinality(leaving) + 1, Len(s))

-----------------------------------------------------------------------------
\* The call starts and reads the clock (91).
Ask(t) ==
    /\ pc[t] = "idle"
    /\ pc' = [pc EXCEPT ![t] = "asked"]
    /\ age' = [age EXCEPT ![t] = 0]
    /\ UNCHANGED <<attempts, wrong, calm>>

\* Mutants of Check: allows one more; counts the refused call in place of the
\* oldest failure; never refuses.
CheckLate(t) ==
    /\ pc[t] = "asked"
    /\ attempts' = Pruned(attempts, age[t])
    /\ pc' = [pc EXCEPT ![t] = IF Len(attempts') > LOGIN_MAX_ATTEMPTS THEN "idle" ELSE "verify"]
    /\ UNCHANGED <<age, wrong, calm>>

CheckCounting(t) ==
    /\ pc[t] = "asked"
    /\ LET kept == Pruned(attempts, age[t])
       IN  IF Len(kept) >= LOGIN_MAX_ATTEMPTS
           THEN attempts' = Append(Tail(kept), age[t]) /\ pc' = [pc EXCEPT ![t] = "idle"]
           ELSE attempts' = kept /\ pc' = [pc EXCEPT ![t] = "verify"]
    /\ UNCHANGED <<age, wrong, calm>>

CheckNothing(t) ==
    /\ pc[t] = "asked"
    /\ attempts' = Pruned(attempts, age[t])
    /\ pc' = [pc EXCEPT ![t] = "verify"]
    /\ UNCHANGED <<age, wrong, calm>>

\* Lines 92-99: a refused call ends with status 429 and is not counted.
Check(t) ==
    /\ pc[t] = "asked"
    /\ attempts' = Pruned(attempts, age[t])
    /\ pc' = [pc EXCEPT ![t] = IF Len(attempts') >= LOGIN_MAX_ATTEMPTS THEN "idle" ELSE "verify"]
    /\ UNCHANGED <<age, wrong, calm>>

\* Lines 411-412: the password is wrong, and the clock is read again (103).
Fail(t) ==
    /\ pc[t] = "verify" /\ ~calm
    /\ pc' = [pc EXCEPT ![t] = "failed"]
    /\ age' = [age EXCEPT ![t] = 0]
    /\ wrong' = Append(wrong, 0)
    /\ UNCHANGED <<attempts, calm>>

\* Lines 104-108, and status 401.
Record(t) ==
    /\ pc[t] = "failed"
    /\ attempts' = Append(Pruned(attempts, age[t]), age[t])
    /\ pc' = [pc EXCEPT ![t] = "idle"]
    /\ UNCHANGED <<age, wrong, calm>>

\* The password is right.
Pass(t) ==
    /\ pc[t] = "verify"
    /\ pc' = [pc EXCEPT ![t] = "passed"]
    /\ UNCHANGED <<attempts, age, wrong, calm>>

\* Line 113: the bucket is dropped, with what other calls recorded in it.
Clear(t) ==
    /\ pc[t] = "passed"
    /\ attempts' = <<>>
    /\ wrong' = <<>>
    /\ pc' = [pc EXCEPT ![t] = "idle"]
    /\ UNCHANGED <<age, calm>>

\* Time passes; it does not outrun a thread that is about to take the lock.
Tick ==
    /\ \A t \in Thread : pc[t] \in {"asked", "failed"} => age[t] < MaxStall
    /\ attempts' = [i \in 1..Len(attempts) |->
                       IF attempts[i] < Oldest THEN attempts[i] + 1 ELSE Oldest]
    /\ age' = [t \in Thread |-> IF pc[t] \in {"asked", "failed"} THEN age[t] + 1 ELSE 0]
    /\ wrong' = LET over == {i \in 1..Len(wrong) : wrong[i] = LOGIN_WINDOW_SECONDS - 1}
                    n    == Cardinality(over)
                IN  [i \in 1..(Len(wrong) - n) |-> wrong[i + n] + 1]
    /\ UNCHANGED <<pc, calm>>

Settle == calm' = TRUE /\ UNCHANGED <<attempts, pc, age, wrong>>

Call(t) == Ask(t) \/ Check(t) \/ Fail(t) \/ Record(t) \/ Pass(t) \/ Clear(t)

Next == Tick \/ Settle \/ \E t \in Thread : Call(t)

Spec == Init /\ [][Next]_vars

\* Time passes, every thread runs, and the user tries again after a refusal.
FairSpec == Spec /\ WF_vars(Tick) /\ WF_vars(Settle) /\ \A t \in Thread : WF_vars(Call(t))

-----------------------------------------------------------------------------
\* Every variable keeps its type; the bucket is finite.
TypeOK ==
    /\ attempts \in Seq(Age) /\ Len(attempts) <= LOGIN_MAX_ATTEMPTS + Cardinality(Thread)
    /\ pc \in [Thread -> Stage]
    /\ age \in [Thread -> 0..MaxStall]
    /\ wrong \in Seq(0..LOGIN_WINDOW_SECONDS - 1)
    /\ calm \in BOOLEAN

\* Calls that were allowed and whose outcome is not in the bucket yet.
Pending == {t \in Thread : pc[t] \in {"verify", "failed", "passed"}}

\* The test of line 96 and the append of line 108 are two critical sections:
\* every other thread may pass the test before the bucket is full, no more.
BoundedBucket == Len(attempts) + Cardinality(Pending) < LOGIN_MAX_ATTEMPTS + Cardinality(Thread)

\* What the limiter is for: with no success in between, fewer than
\* LOGIN_MAX_ATTEMPTS + |Thread| wrong passwords are tried in any window,
\* although times enter the deque out of order and leave it at one end only.
WindowBound == Len(wrong) < LOGIN_MAX_ATTEMPTS + Cardinality(Thread)

\* The limit holds of what is recorded and of what was tried.
LimitHolds == BoundedBucket /\ WindowBound

\* Failures enter the deque out of order, but none is older than one to its left
\* by more than a thread may stall between its clock and the lock.
DisorderIsBounded ==
    \A i, j \in 1..Len(attempts) : i < j => attempts[j] <= attempts[i] + MaxStall

\* A refusal is for cause (96-98): LOGIN_MAX_ATTEMPTS failures are in the bucket,
\* each less than a window and a stall older than the clock of the refused call,
\* although only those at the left end were looked at (94-95).
RefusalsAreDue == [][\A t \in Thread : pc[t] = "asked" /\ pc'[t] = "idle" =>
    /\ Len(attempts') >= LOGIN_MAX_ATTEMPTS
    /\ \A i \in 1..Len(attempts') : attempts'[i] - age[t] < LOGIN_WINDOW_SECONDS + MaxStall]_vars

\* A refusal is for a time: once nobody tries wrong passwords, a user with the
\* right one who keeps trying, and is refused, gets in.
LockoutEnds == calm ~> \E t \in Thread : pc[t] = "passed"
=============================================================================
