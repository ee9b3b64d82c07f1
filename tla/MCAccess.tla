------------------------------ MODULE MCAccess ------------------------------
(* Small instances of the components that decide who may do what: logins,      *)
(* manager overrides, role administration, authorization.                        *)
(* They share no state here, so that a behaviour exercises one of them, its     *)
(* focus, while the others stand still.                                          *)
EXTENDS OverrideLimiter, RoleAdmin, TLC

VARIABLES focus, time,
          account, failures, login, guesses,
          member, held, cache, check, last

Grant(s, c) == [scope |-> s, cap |-> c]

Login == INSTANCE LoginGuard WITH
           clock <- time, Clients <- {1, 2}, PasswordThreshold <- 2, PinThreshold <- 1, LockWindow <- 1,
           RateWindow <- 1, RateLimit <- 1, MaxClock <- 1, MaxAttempts <- 3
Gate == INSTANCE Authorization WITH
          clock <- time, Checks <- {1, 2}, Branches <- {"b1", "b2"},
          RoleSets <- {{Grant("tenant", 1), Grant("b1", 2)}, {}}, Amounts <- {1, 2},
          MaxEntries <- 1, Ttl <- 1, MaxRead <- 1, MaxClock <- 2

(* A state some way in: a1 has left m1's counter one failure short of the lock *)
(* when its window ended, and a2 has opened the next window.                    *)
Late ==
  LET failed(a, t) == [actor |-> a, manager |-> "m1", at |-> t, outcome |-> "failed"]
      counted(n, t) == [failures |-> n, windowStartedAt |-> t, lockedUntil |-> None]
  IN /\ clock = 2
     /\ actor = [a \in Actors |-> IF a = "a1" THEN counted(2, 0) ELSE counted(1, 2)]
     /\ manager = [m \in Managers |-> IF m = "m1" THEN counted(1, 2) ELSE Fresh]
     /\ attempts = <<failed("a1", 0), failed("a1", 1), failed("a2", 2)>>
     /\ events = {}
     /\ tx = [c \in Challenges |-> NoTx]

(* From the start, one actor over two managers; from there on, two actors who *)
(* meet on one manager.                                                         *)
Bounded ==
  LET open == {c \in Challenges : tx'[c].pc # "idle"}
  IN IF focus = "override"
     THEN /\ \A c \in open : tx'[c].actor = "a1"
          /\ Cardinality(open) <= 2 /\ Len(attempts') + Cardinality(open) <= 4 /\ clock' <= 3
     ELSE \A c \in open : tx'[c].manager = "m1"

Symmetry == Permutations(Challenges)

loginVars == <<account, failures, login, guesses>>
overrideVars == <<clock, actor, manager, attempts, events, tx>>
gateVars == <<member, held, cache, check, last>>
MCvars == <<focus, time, loginVars, overrideVars, roleVars, gateVars>>

MCInit ==
  /\ focus \in {"login", "override", "late", "roles", "gate"}
  /\ IF focus = "late" THEN Late ELSE Init
  /\ Login!Init /\ RoleInit /\ Gate!Init
  /\ focus # "roles" => assigned[1].user = 11
  /\ focus # "gate" => held = {}

MCNext ==
  /\ UNCHANGED focus
  /\ IF focus = "login" THEN Login!Next ELSE UNCHANGED loginVars
  /\ IF focus \in {"override", "late"} THEN Next /\ Bounded ELSE UNCHANGED overrideVars
  /\ IF focus = "roles" THEN RoleNext ELSE UNCHANGED roleVars
  /\ IF focus = "gate" THEN Gate!Next ELSE UNCHANGED gateVars
  /\ focus \notin {"login", "gate"} => UNCHANGED time

MCSpec == MCInit /\ [][MCNext]_MCvars

-----------------------------------------------------------------------------
(* A running lock is lifted only by a login that had read the account before   *)
(* the lock was set (registerSuccessfulLogin).                                  *)
LockOutlivesLogins == Login!LockOutlivesLogins

(* Attempts in flight overrun the rate limit by no more than they are          *)
(* (countRecentFailures, recordAttempt).                                        *)
OverrunBounded == Login!OverrunBounded

(* What is allowed was in force less than an entry's lifetime and the longest  *)
(* read ago (permissionCheck, the L1 cache).                                    *)
AllowedWasInForce == Gate!AllowedWasInForce
=============================================================================
