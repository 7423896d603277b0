---------------------------- MODULE LoginLockout ----------------------------
(***************************************************************************)
(* Logins to the Flask application for one account, on the four threads of *)
(* its server.  A login loads the user's row, decides by what it loaded,   *)
(* and commits the columns it changed: attempts that overlap overwrite one *)
(* another's counts.  Enough wrong passwords lock the account for a while. *)
(*                                                                         *)
(* The rate limit in front only removes attempts and is left out, and so   *)
(* are the rows of login_audit, which nothing reads.                       *)
(*                                                                         *)
(* SQLite returns the times it stored without their zone, PostgreSQL with  *)
(* it; Python does not compare the one kind with the other.                *)
(***************************************************************************)
EXTENDS Integers

CONSTANTS
    Threads,
    MaxFailed,    \* MAX_FAILED_LOGINS
    Lockout,      \* ACCOUNT_LOCKOUT_MINUTES, in ticks
    NaiveTimes,   \* the database is SQLite
    MaxNow        \* bound: ticks

ASSUME LockoutAssumption ==
    /\ MaxFailed \in Nat \ {0}
    /\ Lockout \in Nat \ {0}
    /\ NaiveTimes \in BOOLEAN
    /\ MaxNow \in Nat \ {0}

VARIABLES
    now,
    failed,       \* failed_login_attempts
    lockedUntil,  \* locked_until, or Null
    attempt,      \* the login each thread serves
    answered      \* history: how attempts were answered so far

vars == <<now, failed, lockedUntil, attempt, answered>>

-----------------------------------------------------------------------------
Null == 0

\* Counts beyond this one change nothing more.
MaxCount == MaxFailed + 1
Count(n) == IF n < MaxCount THEN n ELSE MaxCount

Answers == {"welcome", "invalid", "locked", "error"}

\* right: the password is; failed, lockedUntil: the columns as loaded.
Attempt == [pc: {"idle", "loaded", "wrong", "right"}, right: BOOLEAN,
            failed: 0 .. MaxCount, lockedUntil: 0 .. MaxNow + Lockout]

NoAttempt == [pc |-> "idle", right |-> FALSE, failed |-> 0, lockedUntil |-> Null]

Init ==
    /\ now = 1
    /\ failed = 0
    /\ lockedUntil = Null
    /\ attempt = [t \in Threads |-> NoAttempt]
    /\ answered = {}

Ends(t, answer) ==
    /\ attempt' = [attempt EXCEPT ![t] = NoAttempt]
    /\ answered' = answered \cup {answer}

-----------------------------------------------------------------------------
Tick ==
    /\ now < MaxNow
    /\ now' = now + 1
    /\ UNCHANGED <<failed, lockedUntil, attempt, answered>>

Load(t, right) ==
    /\ attempt[t].pc = "idle"
    /\ attempt' = [attempt EXCEPT ![t] =
         [pc |-> "loaded", right |-> right, failed |-> failed, lockedUntil |-> lockedUntil]]
    /\ UNCHANGED <<now, failed, lockedUntil, answered>>

\* A stored lock, past or not, is compared with the current time, which raises
\* if the one has no zone.
Checks(t) ==
    LET a == attempt[t] IN
    /\ a.pc = "loaded"
    /\ \/ a.lockedUntil # Null /\ NaiveTimes /\ Ends(t, "error")
       \/ a.lockedUntil > now /\ ~NaiveTimes /\ Ends(t, "locked")
       \/ /\ a.lockedUntil = Null \/ (a.lockedUntil <= now /\ ~NaiveTimes)
          /\ attempt' = [attempt EXCEPT ![t].pc = IF a.right THEN "right" ELSE "wrong"]
          /\ UNCHANGED answered
    /\ UNCHANGED <<now, failed, lockedUntil>>

\* MUTANT: a lock that runs is prolonged.
CommitFailureProlongs(t) ==
    /\ attempt[t].pc = "wrong"
    /\ failed' = Count(attempt[t].failed + 1)
    /\ lockedUntil' = IF failed' < MaxFailed THEN lockedUntil
                      ELSE (IF lockedUntil > now THEN lockedUntil ELSE now) + Lockout
    /\ Ends(t, "invalid")
    /\ UNCHANGED now

\* The count as loaded is incremented; it is not reset when a lock is over.
CommitFailure(t) ==
    /\ attempt[t].pc = "wrong"
    /\ failed' = Count(attempt[t].failed + 1)
    /\ lockedUntil' = IF failed' >= MaxFailed THEN now + Lockout ELSE lockedUntil
    /\ Ends(t, "invalid")
    /\ UNCHANGED now

\* MUTANT: all columns are written.
CommitSuccessAll(t) ==
    /\ attempt[t].pc = "right"
    /\ failed' = 0
    /\ lockedUntil' = Null
    /\ Ends(t, "welcome")
    /\ UNCHANGED now

\* Both columns are cleared; SQLAlchemy writes those that were not clear when
\* they were loaded.
CommitSuccess(t) ==
    /\ attempt[t].pc = "right"
    /\ failed' = IF attempt[t].failed = 0 THEN failed ELSE 0
    /\ lockedUntil' = IF attempt[t].lockedUntil = Null THEN lockedUntil ELSE Null
    /\ Ends(t, "welcome")
    /\ UNCHANGED now

-----------------------------------------------------------------------------
Login(t) ==
    \/ \E right \in BOOLEAN : Load(t, right)
    \/ Checks(t) \/ CommitFailure(t) \/ CommitSuccess(t)

Next == Tick \/ \E t \in Threads : Login(t)

Spec == Init /\ [][Next]_vars

-----------------------------------------------------------------------------
(* Properties. *)

\* Every variable holds what its column or thread can hold.
TypeOK ==
    /\ now \in 1 .. MaxNow
    /\ failed \in 0 .. MaxCount
    /\ lockedUntil \in 0 .. MaxNow + Lockout
    /\ attempt \in [Threads -> Attempt]
    /\ answered \subseteq Answers

\* A lock that still runs is lifted only by a login that had loaded an earlier
\* lock, found it over, and was overtaken by the wrong password that set this
\* one: a login that loaded an account without a lock never lifts one.
LockStands ==
    [][lockedUntil > now /\ lockedUntil' = Null =>
         \E t \in Threads :
            /\ attempt[t].pc = "right" /\ attempt'[t].pc = "idle"
            /\ attempt[t].lockedUntil \in 1 .. now]_vars

\* What the application's test expects of an attempt on a locked account: it is
\* answered with a page that says so, or throttled, and never with an error.
AttemptsAreAnswered == "error" \notin answered

=============================================================================
