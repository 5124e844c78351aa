----------------------------- MODULE LoginGuard -----------------------------
(***************************************************************************)
(* The lockout of one e-mail address after failed logins                    *)
(* (services/ratelimit.py, used by services/auth_service.py): a counter     *)
(* and a lock in Redis, updated without a transaction.  Every Redis call    *)
(* and the password check are steps; attempts overlap and may die.          *)
(***************************************************************************)
EXTENDS FiniteSets, Naturals

CONSTANTS
    Attempt,     \* logins for the address that may overlap
    Threshold,   \* LOGIN_LOCK_THRESHOLD
    MaxCrashes,  \* bound: attempts that die while they record a failure
    MaxFails     \* bound: the counter at which no attempt begins any more

VARIABLES
    fails,     \* login_fail:<email>, 0 when the key does not exist
    timed,     \* that key has a time to live
    locked,    \* login_locked:<email> exists
    pc,        \* where each attempt is
    count,     \* what INCR answered it
    guesses,   \* history: wrong passwords tried since a counter or a lock ran
               \* out or a login succeeded
    crashes    \* history: attempts that died while they recorded a failure, and
               \* may have left a counter that never expires

vars == <<fails, timed, locked, pc, count, guesses, crashes>>

Leave(a) ==
    /\ pc' = [pc EXCEPT ![a] = "idle"]
    /\ count' = [count EXCEPT ![a] = 0]

\* assert_not_locked
AssertNotLocked(a) ==
    /\ pc[a] = "idle" /\ ~locked
    /\ fails < MaxFails
    /\ pc' = [pc EXCEPT ![a] = "passed"]
    /\ UNCHANGED <<fails, timed, locked, count, guesses, crashes>>

\* A wrong password, or a wrong code after the right one.
WrongPassword(a) ==
    /\ pc[a] = "passed"
    /\ pc' = [pc EXCEPT ![a] = "failed"]
    /\ guesses' = guesses + 1
    /\ UNCHANGED <<fails, timed, locked, count, crashes>>

\* A disabled account, or no code where one is needed: neither a failure nor a
\* success.
Undecided(a) ==
    /\ pc[a] = "passed"
    /\ Leave(a)
    /\ UNCHANGED <<fails, timed, locked, guesses, crashes>>

\* clear_login_failures: one DEL of both keys.
RightPassword(a) ==
    /\ pc[a] = "passed"
    /\ fails' = 0 /\ timed' = FALSE /\ locked' = FALSE
    /\ guesses' = 0
    /\ Leave(a)
    /\ UNCHANGED crashes

\* record_login_failure: INCR
CountFailure(a) ==
    /\ pc[a] = "failed"
    /\ fails' = fails + 1
    /\ count' = [count EXCEPT ![a] = fails + 1]
    /\ pc' = [pc EXCEPT ![a] = "counted"]
    /\ UNCHANGED <<timed, locked, guesses, crashes>>

\* This failure created the counter.
FirstFailure(n) == n = 1

\* record_login_failure: EXPIRE, by the failure that created the counter.
ExpireCounter(a) ==
    /\ pc[a] = "counted"
    /\ timed' = IF FirstFailure(count[a]) THEN fails # 0 ELSE timed
    /\ pc' = [pc EXCEPT ![a] = "timed"]
    /\ UNCHANGED <<fails, locked, count, guesses, crashes>>

\* Faulty variant: the lock takes one failure more.
ReachesLater(n) == n > Threshold

Reaches(n) == n >= Threshold

\* record_login_failure: SET login_locked; the attempt is answered.
LockAddress(a) ==
    /\ pc[a] = "timed"
    /\ locked' = (locked \/ Reaches(count[a]))
    /\ Leave(a)
    /\ UNCHANGED <<fails, timed, guesses, crashes>>

\* The api process dies while it records a failure.
Crash(a) ==
    /\ pc[a] \in {"failed", "counted", "timed"}
    /\ crashes < MaxCrashes
    /\ crashes' = crashes + 1
    /\ Leave(a)
    /\ UNCHANGED <<fails, timed, locked, guesses>>

\* LOGIN_LOCK_SECONDS after the first failure, or after the lock was set.
CounterExpires ==
    /\ timed
    /\ fails' = 0 /\ timed' = FALSE /\ guesses' = 0
    /\ UNCHANGED <<locked, pc, count, crashes>>

LockExpires ==
    /\ locked
    /\ locked' = FALSE /\ guesses' = 0
    /\ UNCHANGED <<fails, timed, pc, count, crashes>>

---------------------------------------------------------------------------
Init ==
    /\ fails = 0 /\ timed = FALSE /\ locked = FALSE
    /\ pc = [a \in Attempt |-> "idle"]
    /\ count = [a \in Attempt |-> 0]
    /\ guesses = 0 /\ crashes = 0

Next ==
    \/ \E a \in Attempt :
          \/ AssertNotLocked(a) \/ WrongPassword(a) \/ Undecided(a) \/ RightPassword(a)
          \/ CountFailure(a) \/ ExpireCounter(a) \/ LockAddress(a) \/ Crash(a)
    \/ CounterExpires \/ LockExpires

Spec == Init /\ [][Next]_vars

---------------------------------------------------------------------------
(* Properties. *)

\* However many logins run at once, an address takes no more wrong passwords
\* before it locks than the threshold, plus one for every other attempt that was
\* past the lock check, plus those whose record died with their process.
GuessesBounded == guesses <= Threshold - 1 + Cardinality(Attempt) + crashes

=============================================================================
