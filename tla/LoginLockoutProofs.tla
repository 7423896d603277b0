------------------------- MODULE LoginLockoutProofs -------------------------
(***************************************************************************)
(* Theorems about LoginLockout, for any number of threads, any limits and  *)
(* both databases.  LockStands is a property of steps; what makes it hold  *)
(* is that a login about to succeed has seen no lock that still runs, and  *)
(* that time does not go back.                                             *)
(***************************************************************************)
EXTENDS LoginLockout, TLAPS

\* A login that found its password right has loaded no lock, or one that is over.
SeenLocksAreOver ==
    \A t \in Threads : attempt[t].pc = "right" => attempt[t].lockedUntil <= now

IInv == TypeOK /\ SeenLocksAreOver

\* A login that ends leaves a thread that serves nobody, whatever it answers.
LEMMA EndsKeeps ==
    ASSUME IInv, NEW t \in Threads, NEW answer \in Answers, Ends(t, answer)
    PROVE  /\ attempt' \in [Threads -> Attempt]
           /\ answered' \subseteq Answers
           /\ \A u \in Threads : attempt'[u].pc = "right" =>
                attempt[u].pc = "right" /\ attempt'[u].lockedUntil = attempt[u].lockedUntil
  <1>1. NoAttempt \in Attempt /\ NoAttempt.pc = "idle"
    BY LockoutAssumption DEF NoAttempt, Attempt, Null, MaxCount
  <1>2. attempt' = [attempt EXCEPT ![t] = NoAttempt] /\ attempt \in [Threads -> Attempt]
    BY DEF Ends, IInv, TypeOK
  <1>3. attempt' \in [Threads -> Attempt]
    BY <1>1, <1>2
  <1>4. answered' \subseteq Answers
    BY DEF Ends, IInv, TypeOK
  <1>5. ASSUME NEW u \in Threads, attempt'[u].pc = "right"
        PROVE  attempt[u].pc = "right" /\ attempt'[u].lockedUntil = attempt[u].lockedUntil
    BY <1>1, <1>2, <1>5
  <1> QED BY <1>3, <1>4, <1>5

\* Nothing is locked at first and nobody logs in.
LEMMA InitInv == Init => IInv
  <1> SUFFICES ASSUME Init PROVE IInv
    OBVIOUS
  <1>1. NoAttempt \in Attempt /\ NoAttempt.pc = "idle"
    BY LockoutAssumption DEF NoAttempt, Attempt, Null, MaxCount
  <1>2. TypeOK
    BY <1>1, LockoutAssumption DEF Init, TypeOK, Null, MaxCount
  <1>3. SeenLocksAreOver
    BY <1>1 DEF Init, SeenLocksAreOver
  <1> QED BY <1>2, <1>3 DEF IInv

\* The count a failure stores is one the column can hold.
LEMMA CountType == \A n \in Nat : Count(n) \in 0 .. MaxCount
  BY LockoutAssumption DEF Count, MaxCount

\* Time passes: what was over stays over.
LEMMA TickInv == IInv /\ Tick => IInv'
  <1> SUFFICES ASSUME IInv, Tick PROVE IInv'
    OBVIOUS
  <1>1. TypeOK'
    <2>1. now' \in 1 .. MaxNow
      BY LockoutAssumption DEF IInv, TypeOK, Tick
    <2> QED BY <2>1 DEF IInv, TypeOK, Tick
  <1>2. ASSUME NEW t \in Threads, attempt'[t].pc = "right"
        PROVE  attempt'[t].lockedUntil <= now'
    <2>1. attempt[t].lockedUntil \in Int /\ now \in Int
      BY DEF IInv, TypeOK, Attempt
    <2>2. attempt[t].lockedUntil <= now
      BY <1>2 DEF Tick, IInv, SeenLocksAreOver
    <2> QED BY <2>1, <2>2 DEF Tick
  <1> QED BY <1>1, <1>2 DEF IInv, SeenLocksAreOver

\* A login that loads the account has decided nothing yet.
LEMMA LoadInv ==
    ASSUME IInv, NEW t \in Threads, NEW right \in BOOLEAN, Load(t, right)
    PROVE  IInv'
  <1> DEFINE new == [pc |-> "loaded", right |-> right, failed |-> failed, lockedUntil |-> lockedUntil]
  <1>1. new \in Attempt /\ new.pc = "loaded"
    BY DEF IInv, TypeOK, Attempt
  <1>2. attempt' = [attempt EXCEPT ![t] = new]
    BY DEF Load
  <1> HIDE DEF new
  <1>3. attempt' \in [Threads -> Attempt]
    BY <1>1, <1>2 DEF IInv, TypeOK
  <1>4. TypeOK'
    BY <1>3 DEF IInv, TypeOK, Load
  <1>5. SeenLocksAreOver'
    BY <1>1, <1>2 DEF IInv, TypeOK, SeenLocksAreOver, Load
  <1> QED BY <1>4, <1>5 DEF IInv

\* The check lets a login pass only if the lock it loaded is over, and not at
\* all if it can not compare the times.
LEMMA ChecksInv ==
    ASSUME IInv, NEW t \in Threads, Checks(t)
    PROVE  IInv'
  <1> DEFINE a == attempt[t]
  <1>1. a \in Attempt /\ a.lockedUntil \in Nat /\ now \in Nat
    BY LockoutAssumption DEF IInv, TypeOK, Attempt
  <1>2. CASE \E answer \in {"error", "locked"} : Ends(t, answer)
    <2>1. PICK answer \in Answers : Ends(t, answer)
      BY <1>2 DEF Answers
    <2> QED BY <2>1, EndsKeeps DEF Checks, IInv, TypeOK, SeenLocksAreOver
  <1>3. CASE /\ a.lockedUntil = Null \/ a.lockedUntil <= now
             /\ attempt' = [attempt EXCEPT ![t].pc = IF a.right THEN "right" ELSE "wrong"]
             /\ UNCHANGED answered
    <2> DEFINE new == [a EXCEPT !.pc = IF a.right THEN "right" ELSE "wrong"]
    <2>1. new \in Attempt /\ new.lockedUntil = a.lockedUntil
      BY <1>1 DEF Attempt
    <2>2. attempt' = [attempt EXCEPT ![t] = new]
      BY <1>3
    <2>3. a.lockedUntil <= now
      BY <1>1, <1>3 DEF Null
    <2> HIDE DEF new, a
    <2>4. attempt' \in [Threads -> Attempt]
      BY <2>1, <2>2 DEF IInv, TypeOK
    <2>5. TypeOK'
      BY <1>3, <2>4 DEF IInv, TypeOK, Checks
    <2>6. SeenLocksAreOver'
      BY <2>1, <2>2, <2>3 DEF IInv, TypeOK, SeenLocksAreOver, Checks
    <2> QED BY <2>5, <2>6 DEF IInv
  <1> QED BY <1>2, <1>3 DEF Checks

\* A wrong password ends its login; its lock lies within the bounds of time.
LEMMA FailureInv ==
    ASSUME IInv, NEW t \in Threads, CommitFailure(t)
    PROVE  IInv'
  <1>1. Ends(t, "invalid") /\ "invalid" \in Answers
    BY DEF CommitFailure, Answers
  <1>2. attempt[t].failed + 1 \in Nat
    BY LockoutAssumption DEF IInv, TypeOK, Attempt, MaxCount
  <1>3. failed' \in 0 .. MaxCount
    BY <1>2, CountType DEF CommitFailure
  <1>4. lockedUntil' \in 0 .. MaxNow + Lockout
    BY LockoutAssumption DEF CommitFailure, IInv, TypeOK
  <1>5. now' = now
    BY DEF CommitFailure
  <1> QED BY <1>1, <1>3, <1>4, <1>5, EndsKeeps DEF IInv, TypeOK, SeenLocksAreOver

\* A right one ends its login too.
LEMMA SuccessInv ==
    ASSUME IInv, NEW t \in Threads, CommitSuccess(t)
    PROVE  IInv'
  <1>1. Ends(t, "welcome") /\ "welcome" \in Answers
    BY DEF CommitSuccess, Answers
  <1>2. failed' \in 0 .. MaxCount /\ lockedUntil' \in 0 .. MaxNow + Lockout
    BY LockoutAssumption DEF CommitSuccess, IInv, TypeOK, Null, MaxCount
  <1>3. now' = now
    BY DEF CommitSuccess
  <1> QED BY <1>1, <1>2, <1>3, EndsKeeps DEF IInv, TypeOK, SeenLocksAreOver

\* The invariant, from its lemmas action by action.
LEMMA StepInv == IInv /\ [Next]_vars => IInv'
  <1> SUFFICES ASSUME IInv, [Next]_vars PROVE IInv'
    OBVIOUS
  <1>1. CASE Tick
    BY <1>1, TickInv
  <1>2. ASSUME NEW t \in Threads, Login(t) PROVE IInv'
    BY <1>2, LoadInv, ChecksInv, FailureInv, SuccessInv DEF Login
  <1>3. CASE UNCHANGED vars
    BY <1>3 DEF vars, IInv, TypeOK, SeenLocksAreOver
  <1> QED BY <1>1, <1>2, <1>3 DEF Next

\* In every state the columns and threads hold what they can, and no login about
\* to succeed has seen a lock that still runs.
THEOREM Invariance == Spec => []IInv
  BY InitInv, StepInv, PTL DEF Spec

\* Type correctness.
THEOREM TypeCorrect == Spec => []TypeOK
  <1>1. IInv => TypeOK
    BY DEF IInv
  <1> QED BY <1>1, Invariance, PTL

\* A step that lifts a running lock is the commit of a login that loaded an
\* earlier lock and found it over.
LEMMA LiftingStep ==
    ASSUME IInv, [Next]_vars, lockedUntil > now, lockedUntil' = Null
    PROVE  \E t \in Threads :
              /\ attempt[t].pc = "right" /\ attempt'[t].pc = "idle"
              /\ attempt[t].lockedUntil \in 1 .. now
  <1>1. now \in 1 .. MaxNow /\ lockedUntil \in Nat /\ lockedUntil # Null
    BY LockoutAssumption DEF IInv, TypeOK, Null
  <1>2. CASE Tick
    BY <1>1, <1>2 DEF Tick
  <1>3. CASE UNCHANGED vars
    BY <1>1, <1>3 DEF vars
  <1>4. ASSUME NEW t \in Threads, NEW right \in BOOLEAN, Load(t, right) PROVE FALSE
    BY <1>1, <1>4 DEF Load
  <1>5. ASSUME NEW t \in Threads, Checks(t) PROVE FALSE
    BY <1>1, <1>5 DEF Checks
  <1>6. ASSUME NEW t \in Threads, CommitFailure(t) PROVE FALSE
    BY <1>1, <1>6, LockoutAssumption DEF CommitFailure, Null
  <1>7. ASSUME NEW t \in Threads, CommitSuccess(t)
        PROVE  /\ attempt[t].pc = "right" /\ attempt'[t].pc = "idle"
               /\ attempt[t].lockedUntil \in 1 .. now
    <2>1. attempt[t].pc = "right"
      BY <1>7 DEF CommitSuccess
    <2>2. attempt[t].lockedUntil # Null
      BY <1>1, <1>7 DEF CommitSuccess
    <2>3. attempt[t].lockedUntil <= now /\ attempt[t].lockedUntil \in Nat
      BY <2>1, LockoutAssumption DEF IInv, TypeOK, SeenLocksAreOver, Attempt
    <2>4. attempt'[t].pc = "idle"
      BY <1>7 DEF CommitSuccess, Ends, NoAttempt, IInv, TypeOK
    <2> QED BY <1>1, <2>1, <2>2, <2>3, <2>4 DEF Null
  <1> QED BY <1>2, <1>3, <1>4, <1>5, <1>6, <1>7 DEF Next, Login

\* However many logins overlap, with right and wrong passwords and at whatever
\* times, a running lock is lifted only by one that loaded an earlier lock.
THEOREM RunningLockStands == Spec => LockStands
  <1>1. IInv /\ [Next]_vars =>
          [lockedUntil > now /\ lockedUntil' = Null =>
             \E t \in Threads :
                /\ attempt[t].pc = "right" /\ attempt'[t].pc = "idle"
                /\ attempt[t].lockedUntil \in 1 .. now]_vars
    BY LiftingStep
  <1> QED BY <1>1, Invariance, PTL DEF Spec, LockStands

=============================================================================
