--------------------------- MODULE OverrideLimiter ---------------------------
(***************************************************************************)
(* The live PIN challenge of a manager override and its two counters: one   *)
(* per target manager, one per initiating actor across all managers.  A     *)
(* challenge is one transaction that locks the actor's row, then the        *)
(* manager's.  Its clock is the start of the transaction, which may be long *)
(* before it gets the locks.                                                *)
(***************************************************************************)
EXTENDS Integers, Sequences, FiniteSets

CONSTANTS
  Challenges,   \* transactions that may be in flight at once
  Actors, Managers,
  ManagerThreshold, ActorThreshold,  \* failures that lock
  CountWindow, ManagerLock, ActorLock,  \* in ticks
  MaxWait,      \* ticks that the lock and statement timeouts leave a challenge
  MaxClock, MaxAttempts  \* bounds: time, rows of the ledger

ASSUME LimitsAreNumbers ==
  /\ ManagerThreshold \in Nat /\ ActorThreshold \in Nat
  /\ CountWindow \in Nat /\ ManagerLock \in Nat /\ ActorLock \in Nat /\ MaxWait \in Nat

(* 5 failures, a lock of the window's 15 minutes, timeouts of seconds. *)
ASSUME LockCoversWindow ==
  ManagerThreshold >= 2 /\ MaxWait <= CountWindow /\ CountWindow <= ManagerLock

VARIABLES
  clock,    \* now
  actor,    \* manager_override_actor_lockout_state
  manager,  \* manager_override_lockout_state
  attempts, \* manager_override_attempts in the order of commit
  events,   \* audit_log: the actor locks that were announced
  tx        \* the challenges in flight

vars == <<clock, actor, manager, attempts, events, tx>>

None == -1   \* NULL
Fresh == [failures |-> 0, windowStartedAt |-> None, lockedUntil |-> None]
NoTx  == [pc |-> "idle"]

Init ==
  /\ clock = 0
  /\ actor = [a \in Actors |-> Fresh]
  /\ manager = [m \in Managers |-> Fresh]
  /\ attempts = <<>>
  /\ events = {}
  /\ tx = [c \in Challenges |-> NoTx]

isActiveLock(state, now) == state.lockedUntil > now

(* A failure in the open window counts on; after it a new window starts. *)
advanceWindow(state, now) ==
  IF state.windowStartedAt = None \/ now - state.windowStartedAt >= CountWindow
  THEN [failures |-> 1, windowStartedAt |-> now]
  ELSE [failures |-> state.failures + 1, windowStartedAt |-> state.windowStartedAt]

(* The UPDATE of a counter after a failure. *)
Failed(state, now, threshold, lock) ==
  LET next == advanceWindow(state, now)
  IN [failures |-> next.failures, windowStartedAt |-> next.windowStartedAt,
      lockedUntil |-> IF next.failures >= threshold THEN now + lock ELSE state.lockedUntil]

appendAttempt(c, outcome) ==
  attempts' = Append(attempts, [actor |-> tx[c].actor, manager |-> tx[c].manager,
                                at |-> tx[c].now, outcome |-> outcome])

(* COMMIT or ROLLBACK *)
EndTx(c) == tx' = [tx EXCEPT ![c] = NoTx]

(* BEGIN. Bound: every challenge in flight appends one row. *)
Begin(c, a, m) ==
  /\ tx[c].pc = "idle"
  /\ Len(attempts) + Cardinality({d \in Challenges : tx[d].pc # "idle"}) < MaxAttempts
  /\ tx' = [tx EXCEPT ![c] = [pc |-> "begun", actor |-> a, manager |-> m, now |-> clock]]
  /\ UNCHANGED <<clock, actor, manager, attempts, events>>

HoldsActor(a)   == \E d \in Challenges : tx[d].pc \in {"actor", "both"} /\ tx[d].actor = a
HoldsManager(m) == \E d \in Challenges : tx[d].pc = "both" /\ tx[d].manager = m

(* Slip: the lock of the actor is not looked at. *)
LockActorUnread(c) ==
  /\ tx[c].pc = "begun"
  /\ ~HoldsActor(tx[c].actor)
  /\ tx' = [tx EXCEPT ![c].pc = "actor"]
  /\ UNCHANGED <<clock, actor, manager, attempts, events>>

(* Step 1: the actor's row is locked; a locked actor is refused at once.    *)
LockActor(c) ==
  LET a == tx[c].actor
  IN /\ tx[c].pc = "begun"
     /\ ~HoldsActor(a)
     /\ IF isActiveLock(actor[a], tx[c].now)
        THEN appendAttempt(c, "rejected_locked") /\ EndTx(c)
        ELSE tx' = [tx EXCEPT ![c].pc = "actor"] /\ UNCHANGED attempts
     /\ UNCHANGED <<clock, actor, manager, events>>

(* Slip: the lock of the manager is not looked at. *)
LockManagerUnread(c) ==
  LET m == tx[c].manager
  IN /\ tx[c].pc = "actor"
     /\ ~HoldsManager(m)
     /\ tx' = [tx EXCEPT ![c].pc = "both"]
     /\ UNCHANGED <<clock, actor, manager, attempts, events>>

(* Step 2: then the manager's row. *)
LockManager(c) ==
  LET m == tx[c].manager
  IN /\ tx[c].pc = "actor"
     /\ ~HoldsManager(m)
     /\ IF isActiveLock(manager[m], tx[c].now)
        THEN appendAttempt(c, "rejected_locked") /\ EndTx(c)
        ELSE tx' = [tx EXCEPT ![c].pc = "both"] /\ UNCHANGED attempts
     /\ UNCHANGED <<clock, actor, manager, events>>

(* The rows of the actor since its window began, this transaction's too.    *)
tried(a, since) == {attempts'[i].manager : i \in {j \in DOMAIN attempts' :
                      attempts'[j].actor = a /\ attempts'[j].at >= since}}

(* Steps 6 and 7: the actor's counter, and the event when it locks.         *)
CountActor(a, now) ==
  LET next == Failed(actor[a], now, ActorThreshold, ActorLock)
      managers == tried(a, next.windowStartedAt)
  IN /\ actor' = [actor EXCEPT ![a] = next]
     /\ events' = IF next.failures >= ActorThreshold
                  THEN events \cup {[actor |-> a, count |-> next.failures, row |-> Len(attempts'),
                                     since |-> next.windowStartedAt, managers |-> managers]}
                  ELSE events

(* Steps 3 to 7, under both locks.  An unknown or inactive manager counts   *)
(* as a wrong PIN.  A success resets the manager's counter only.            *)
Verify(c, right) ==
  LET a == tx[c].actor
      m == tx[c].manager
      now == tx[c].now
  IN /\ tx[c].pc = "both"
     /\ appendAttempt(c, IF right THEN "succeeded" ELSE "failed")
     /\ IF right
        THEN manager' = [manager EXCEPT ![m] = Fresh] /\ UNCHANGED <<actor, events>>
        ELSE /\ manager' = [manager EXCEPT ![m] = Failed(@, now, ManagerThreshold, ManagerLock)]
             /\ CountActor(a, now)
     /\ EndTx(c)
     /\ UNCHANGED clock

(* A statement fails, or waits for a row longer than lock_timeout allows:   *)
(* all is rolled back, and nobody learns whether the PIN was right.         *)
Abort(c) ==
  /\ tx[c].pc # "idle"
  /\ EndTx(c)
  /\ UNCHANGED <<clock, actor, manager, attempts, events>>

Tick ==
  /\ clock < MaxClock
  /\ \A c \in Challenges : tx[c].pc # "idle" => clock - tx[c].now < MaxWait
  /\ clock' = clock + 1
  /\ UNCHANGED <<actor, manager, attempts, events, tx>>

Step(c) == LockActor(c) \/ LockManager(c) \/ Abort(c) \/ \E right \in BOOLEAN : Verify(c, right)

Next ==
  \/ Tick
  \/ \E c \in Challenges : \/ \E a \in Actors, m \in Managers : Begin(c, a, m)
                           \/ Step(c)

Spec == Init /\ [][Next]_vars

-----------------------------------------------------------------------------
(* Properties *)

(* However the challenges of several actors interleave on the rows of an     *)
(* actor and of a manager, at most 3T - 4 of those begun within one counting *)
(* window's length try a wrong PIN on a manager, no right one in between, T   *)
(* being the threshold: T - 2 in a window that opened earlier, T - 1 in the   *)
(* next, and T - 1 that waited for the manager's row and are counted in a     *)
(* window opened by a challenge that began after them (advanceWindow goes by  *)
(* the start of the transaction, and the windows are fixed).                  *)
GuessesPerManager ==
  \A m \in Managers :
    LET on(outcome) == {i \in DOMAIN attempts : attempts[i].manager = m /\ attempts[i].outcome = outcome}
        unbroken == {i \in on("failed") : \A j \in on("succeeded") : j < i}
    IN \A t \in 0 .. MaxClock :
         Cardinality({i \in unbroken : attempts[i].at \in t .. t + CountWindow - 1})
           <= 3 * ManagerThreshold - 4

(* A PIN is never verified while a lock runs, on the clock of the moment    *)
(* and not only on that of the transaction.                                 *)
NoVerifyWhileLocked ==
  [][\A c \in Challenges : tx[c].pc = "both" /\ tx'[c].pc = "idle"
       => /\ ~isActiveLock(actor[tx[c].actor], clock)
          /\ ~isActiveLock(manager[tx[c].manager], clock)]_vars
=============================================================================
