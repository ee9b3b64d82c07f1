----------------------------- MODULE LoginGuard -----------------------------
(***************************************************************************)
(* Login of one account: the limiter over the audit log, the failed-attempt *)
(* counter and the lock.  A login is a chain of short READ COMMITTED        *)
(* transactions, each one step here, and logins interleave between them.    *)
(* Whether the tenant is suspended or the user unknown or disabled is not   *)
(* state: at every point where the code learns it, both answers are taken.  *)
(***************************************************************************)
EXTENDS Integers, FiniteSets, FiniteSetsExt

CONSTANTS
  Clients,      \* logins that may be in flight at once
  PasswordThreshold, PinThreshold,  \* failures that lock the account
  LockWindow,   \* lockWindowMs, in ticks
  RateWindow,   \* rateLimitWindowMs, in ticks
  RateLimit,    \* the smaller of ipRateLimit and accountRateLimit
  MaxClock, MaxAttempts  \* bounds: time, counter

VARIABLES
  clock,     \* now
  account,   \* failed_login_attempts and locked_until
  failures,  \* auth_audit_log: failed attempts per mode and time
  login,     \* the logins in flight
  guesses    \* history: the failures that were not refused by the limiter

vars == <<clock, account, failures, login, guesses>>

Modes == {"password", "pin"}
Times == 0 .. MaxClock
Idle  == [pc |-> "idle", mode |-> "password", right |-> FALSE, read |-> 0]

Init ==
  /\ clock = 0
  /\ account = [attempts |-> 0, lockedUntil |-> 0]
  /\ failures = [m \in Modes |-> [t \in Times |-> 0]]
  /\ login = [c \in Clients |-> Idle]
  /\ guesses = [m \in Modes |-> [t \in Times |-> 0]]

InWindow(log, mode) ==
  FoldSet(LAMBDA t, n : n + log[mode][t], 0, {t \in Times : t > clock - RateWindow})

(* count_recent_auth_failures, for one address and one identifier. *)
countRecentFailures(mode) == InWindow(failures, mode)

(* recordAttempt, success = false; only counts up to the limit matter. *)
recordAttempt(mode) ==
  failures' = [failures EXCEPT ![mode][clock] = IF @ < RateLimit THEN @ + 1 ELSE @]

Threshold(mode) == IF mode = "password" THEN PasswordThreshold ELSE PinThreshold

isLocked(until) == until > clock

Goto(c, pc) == login' = [login EXCEPT ![c].pc = pc]
Done(c)     == login' = [login EXCEPT ![c] = Idle]

(* Slip: the limiter is not consulted. *)
StartUnlimited(c, mode, right) ==
  /\ login[c].pc = "idle"
  /\ account.attempts + Cardinality({d \in Clients : login[d].pc # "idle"}) < MaxAttempts
  /\ login' = [login EXCEPT ![c].pc = "lookup", ![c].mode = mode, ![c].right = right]
  /\ UNCHANGED <<clock, account, failures, guesses>>

(* The limiter is read before anything else.  Bound: every login in flight  *)
(* may still be counted.                                                    *)
Start(c, mode, right) ==
  /\ login[c].pc = "idle"
  /\ account.attempts + Cardinality({d \in Clients : login[d].pc # "idle"}) < MaxAttempts
  /\ login' = [login EXCEPT ![c].mode = mode, ![c].right = right,
       ![c].pc = IF countRecentFailures(mode) >= RateLimit THEN "limited" ELSE "lookup"]
  /\ UNCHANGED <<clock, account, failures, guesses>>

(* A refused attempt is itself recorded as a failure. *)
RecordLimited(c) ==
  /\ login[c].pc = "limited"
  /\ recordAttempt(login[c].mode)
  /\ Done(c)
  /\ UNCHANGED <<clock, account, guesses>>

(* findByEmail, findByPinIdentifier. An unknown or disabled user, and every *)
(* user of a suspended tenant, is refused whatever the secret.              *)
Lookup(c, usable) ==
  /\ login[c].pc = "lookup"
  /\ login' = [login EXCEPT ![c].pc = IF usable THEN "verify" ELSE "refuse",
                            ![c].read = IF usable THEN account.lockedUntil ELSE 0]
  /\ UNCHANGED <<clock, account, failures, guesses>>

(* Slip: the lock that the lookup returned is not consulted. *)
DecideIgnoringLock(c) ==
  /\ login[c].pc = "verify"
  /\ Goto(c, IF login[c].right THEN "accept" ELSE "count")
  /\ UNCHANGED <<clock, account, failures, guesses>>

(* The secret is verified first, then the lock as it was read.  A wrong     *)
(* secret on an account that is not blocked is counted.                     *)
Decide(c) ==
  LET blocked == isLocked(login[c].read)
  IN /\ login[c].pc = "verify"
     /\ Goto(c, IF blocked THEN "refuse" ELSE IF login[c].right THEN "accept" ELSE "count")
     /\ UNCHANGED <<clock, account, failures, guesses>>

(* The UPDATE of registerFailedAttempt: the lock is set when the new count  *)
(* reaches the limit of this mode and no lock is running.                   *)
FailedAttempt(acc, limit) ==
  [attempts |-> acc.attempts + 1,
   lockedUntil |-> IF acc.attempts + 1 >= limit /\ ~isLocked(acc.lockedUntil)
                   THEN clock + LockWindow ELSE acc.lockedUntil]

(* Not counted when the tenant was suspended meanwhile. *)
CountFailure(c, suspended) ==
  /\ login[c].pc = "count"
  /\ account' = IF suspended THEN account ELSE FailedAttempt(account, Threshold(login[c].mode))
  /\ Goto(c, "refuse")
  /\ UNCHANGED <<clock, failures, guesses>>

(* The uniform 401, recorded. *)
Refuse(c) ==
  /\ login[c].pc = "refuse"
  /\ recordAttempt(login[c].mode)
  /\ guesses' = [guesses EXCEPT ![login[c].mode][clock] = @ + 1]
  /\ Done(c)
  /\ UNCHANGED <<clock, account>>

(* registerSuccessfulLogin: counter and lock are reset in one UPDATE. *)
Accept(c, suspended) ==
  /\ login[c].pc = "accept"
  /\ account' = IF suspended THEN account ELSE [attempts |-> 0, lockedUntil |-> 0]
  /\ Goto(c, IF suspended THEN "refuse" ELSE "store")
  /\ UNCHANGED <<clock, failures, guesses>>

(* The refresh token is stored (see TokenFamilies) and the success recorded.*)
Store(c, suspended) ==
  /\ login[c].pc = "store"
  /\ IF suspended THEN Goto(c, "refuse") ELSE Done(c)
  /\ UNCHANGED <<clock, account, failures, guesses>>

Tick ==
  /\ clock < MaxClock
  /\ clock' = clock + 1
  /\ UNCHANGED <<account, failures, login, guesses>>

Step(c) ==
  \/ RecordLimited(c) \/ Decide(c) \/ Refuse(c)
  \/ \E b \in BOOLEAN : Lookup(c, b) \/ CountFailure(c, b) \/ Accept(c, b) \/ Store(c, b)

Next ==
  \/ Tick
  \/ \E c \in Clients : \/ \E mode \in Modes, right \in BOOLEAN : Start(c, mode, right)
                        \/ Step(c)

-----------------------------------------------------------------------------
(* Properties *)

(* A running lock is lifted only by a login that had read the account       *)
(* before the lock was set ("SET failed_login_attempts = 0, locked_until =  *)
(* NULL" does not look again).                                              *)
LockOutlivesLogins ==
  [][isLocked(account.lockedUntil) /\ account'.lockedUntil = 0
       => \E c \in Clients : login[c].pc = "accept" /\ login'[c].pc = "store"
                             /\ login[c].read # account.lockedUntil]_vars

(* The limiter is read before an attempt and written after it, so attempts  *)
(* in flight overrun it, but never by more than they are.                   *)
OverrunBounded ==
  \A m \in Modes : InWindow(guesses, m) < RateLimit + Cardinality(Clients)
=============================================================================
