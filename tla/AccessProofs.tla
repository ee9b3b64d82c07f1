---------------------------- MODULE AccessProofs -----------------------------
(***************************************************************************)
(* Proofs about the components that decide who may do what: the limiter of  *)
(* manager overrides and role administration.                               *)
(***************************************************************************)
EXTENDS OverrideLimiter, RoleAdmin, FiniteSetTheorems, TLAPS

-----------------------------------------------------------------------------
(* Manager overrides: a challenge decides on the clock of its beginning,    *)
(* and the rows it has locked make that decision still right when the PIN   *)
(* is verified.                                                             *)

Counter == [failures : Int, windowStartedAt : Int, lockedUntil : Int]
TxRow == [pc : {"begun", "actor", "both"}, actor : Actors, manager : Managers, now : Int]

TypeOK ==
  /\ clock \in Int
  /\ actor \in [Actors -> Counter]
  /\ manager \in [Managers -> Counter]
  /\ tx \in [Challenges -> {NoTx} \cup TxRow]

HasActor(c)   == tx[c].pc \in {"actor", "both"}
HasManager(c) == tx[c].pc = "both"

(* A challenge began in the past. *)
BegunBefore == \A c \in Challenges : tx[c].pc \in {"begun", "actor", "both"} => tx[c].now <= clock

(* The rows a challenge has locked are its own, and were not locked out when *)
(* it began.                                                                 *)
ActorLocked ==
  /\ \A c \in Challenges : HasActor(c) => actor[tx[c].actor].lockedUntil <= tx[c].now
  /\ \A c, d \in Challenges : HasActor(c) /\ HasActor(d) /\ tx[c].actor = tx[d].actor => c = d

ManagerLocked ==
  /\ \A c \in Challenges : HasManager(c) => manager[tx[c].manager].lockedUntil <= tx[c].now
  /\ \A c, d \in Challenges : HasManager(c) /\ HasManager(d) /\ tx[c].manager = tx[d].manager => c = d

LockInv == TypeOK /\ BegunBefore /\ ActorLocked /\ ManagerLocked

LEMMA LockInit == Init => LockInv
<1> SUFFICES ASSUME Init PROVE LockInv
  OBVIOUS
<1>1. TypeOK
  BY DEF Init, TypeOK, Fresh, None, Counter
<1>2. \A c \in Challenges : tx[c].pc = "idle"
  BY DEF Init, NoTx
<1> QED
  BY <1>1, <1>2 DEF LockInv, BegunBefore, ActorLocked, ManagerLocked, HasActor, HasManager

LEMMA FailedCounter ==
  ASSUME NEW state \in Counter, NEW now \in Int, NEW threshold, NEW lock \in Nat
  PROVE  Failed(state, now, threshold, lock) \in Counter
BY DEF Failed, advanceWindow, Counter

(* A step of one challenge leaves the others alone. *)
OnlyTx(c) == /\ tx' \in [Challenges -> {NoTx} \cup TxRow]
             /\ \A d \in Challenges : d # c => tx'[d] = tx[d]

LEMMA LockStep == LockInv /\ [Next]_vars => LockInv'
<1> SUFFICES ASSUME LockInv, [Next]_vars PROVE LockInv'
  OBVIOUS
<1> USE DEF LockInv
<1>1. CASE Tick
  <2>1. clock' = clock + 1 /\ actor' = actor /\ manager' = manager /\ tx' = tx
    BY <1>1 DEF Tick
  <2>2. BegunBefore'
    BY <2>1 DEF BegunBefore, TypeOK, TxRow, NoTx
  <2> QED
    BY <2>1, <2>2 DEF TypeOK, ActorLocked, ManagerLocked, HasActor, HasManager
<1>2. ASSUME NEW c \in Challenges, NEW a \in Actors, NEW m \in Managers, Begin(c, a, m)
      PROVE  LockInv'
  <2>1. clock' = clock /\ actor' = actor /\ manager' = manager
    BY <1>2 DEF Begin
  <2>2. OnlyTx(c) /\ tx'[c].pc = "begun" /\ tx'[c].now = clock
    BY <1>2 DEF Begin, TypeOK, TxRow, OnlyTx
  <2>3. TypeOK' /\ BegunBefore'
    BY <2>1, <2>2 DEF TypeOK, BegunBefore, OnlyTx
  <2> QED
    BY <2>1, <2>2, <2>3 DEF ActorLocked, ManagerLocked, HasActor, HasManager, OnlyTx
<1>3. ASSUME NEW c \in Challenges, LockActor(c)
      PROVE  LockInv'
  <2>1. clock' = clock /\ actor' = actor /\ manager' = manager
    BY <1>3 DEF LockActor
  <2>2. tx[c] \in TxRow /\ tx[c].pc = "begun" /\ \A d \in Challenges : HasActor(d) => tx[d].actor # tx[c].actor
    BY <1>3 DEF LockActor, TypeOK, NoTx, HoldsActor, HasActor
  <2>3. CASE isActiveLock(actor[tx[c].actor], tx[c].now)
    <3>1. OnlyTx(c) /\ tx'[c].pc = "idle"
      BY <1>3, <2>3 DEF LockActor, EndTx, TypeOK, NoTx, OnlyTx
    <3> QED
      BY <2>1, <3>1 DEF TypeOK, BegunBefore, ActorLocked, ManagerLocked, HasActor, HasManager, OnlyTx
  <2>4. CASE ~isActiveLock(actor[tx[c].actor], tx[c].now)
    <3>1. /\ OnlyTx(c) /\ tx'[c].pc = "actor" /\ tx'[c].actor = tx[c].actor
          /\ tx'[c].manager = tx[c].manager /\ tx'[c].now = tx[c].now
      BY <1>3, <2>2, <2>4 DEF LockActor, TypeOK, TxRow, OnlyTx
    <3>2. actor[tx[c].actor].lockedUntil <= tx[c].now
      BY <2>2, <2>4 DEF isActiveLock, TypeOK, TxRow, Counter
    <3>3. TypeOK' /\ BegunBefore'
      BY <2>1, <2>2, <3>1 DEF TypeOK, BegunBefore, OnlyTx
    <3>4. ActorLocked'
      BY <2>1, <2>2, <3>1, <3>2 DEF ActorLocked, HasActor, OnlyTx
    <3> QED
      BY <2>1, <3>1, <3>3, <3>4 DEF ManagerLocked, HasManager, OnlyTx
  <2> QED
    BY <2>3, <2>4
<1>4. ASSUME NEW c \in Challenges, LockManager(c)
      PROVE  LockInv'
  <2>1. clock' = clock /\ actor' = actor /\ manager' = manager
    BY <1>4 DEF LockManager
  <2>2. tx[c] \in TxRow /\ tx[c].pc = "actor" /\ \A d \in Challenges : HasManager(d) => tx[d].manager # tx[c].manager
    BY <1>4 DEF LockManager, TypeOK, NoTx, HoldsManager, HasManager
  <2>3. CASE isActiveLock(manager[tx[c].manager], tx[c].now)
    <3>1. OnlyTx(c) /\ tx'[c].pc = "idle"
      BY <1>4, <2>3 DEF LockManager, EndTx, TypeOK, NoTx, OnlyTx
    <3> QED
      BY <2>1, <3>1 DEF TypeOK, BegunBefore, ActorLocked, ManagerLocked, HasActor, HasManager, OnlyTx
  <2>4. CASE ~isActiveLock(manager[tx[c].manager], tx[c].now)
    <3>1. /\ OnlyTx(c) /\ tx'[c].pc = "both" /\ tx'[c].actor = tx[c].actor
          /\ tx'[c].manager = tx[c].manager /\ tx'[c].now = tx[c].now
      BY <1>4, <2>2, <2>4 DEF LockManager, TypeOK, TxRow, OnlyTx
    <3>2. manager[tx[c].manager].lockedUntil <= tx[c].now
      BY <2>2, <2>4 DEF isActiveLock, TypeOK, TxRow, Counter
    <3>3. TypeOK' /\ BegunBefore'
      BY <2>1, <2>2, <3>1 DEF TypeOK, BegunBefore, OnlyTx
    <3>4. ActorLocked'
      BY <2>1, <2>2, <3>1 DEF ActorLocked, HasActor, OnlyTx
    <3>5. ManagerLocked'
      BY <2>1, <2>2, <3>1, <3>2 DEF ManagerLocked, HasManager, OnlyTx
    <3> QED
      BY <3>3, <3>4, <3>5
  <2> QED
    BY <2>3, <2>4
<1>5. ASSUME NEW c \in Challenges, NEW right \in BOOLEAN, Verify(c, right)
      PROVE  LockInv'
  <2> DEFINE a == tx[c].actor
             m == tx[c].manager
  <2>1. clock' = clock /\ OnlyTx(c) /\ tx'[c].pc = "idle"
    BY <1>5 DEF Verify, EndTx, TypeOK, NoTx, OnlyTx
  <2>2. tx[c] \in TxRow /\ HasActor(c) /\ HasManager(c)
    BY <1>5 DEF Verify, TypeOK, NoTx, HasActor, HasManager
  <2>3. a \in Actors /\ m \in Managers /\ tx[c].now \in Int
    BY <2>2 DEF TxRow
  <2>4. /\ actor' \in [Actors -> Counter]
        /\ \A b \in Actors : b # a => actor'[b] = actor[b]
    <3>1. CASE right
      BY <1>5, <3>1 DEF Verify, TypeOK
    <3>2. CASE ~right
      <4>1. Failed(actor[a], tx[c].now, ActorThreshold, ActorLock) \in Counter
        BY <2>3, FailedCounter, LimitsAreNumbers DEF TypeOK
      <4>2. actor' = [actor EXCEPT ![a] = Failed(actor[a], tx[c].now, ActorThreshold, ActorLock)]
        BY <1>5, <3>2 DEF Verify, CountActor
      <4> QED
        BY <2>3, <4>1, <4>2 DEF TypeOK
    <3> QED
      BY <3>1, <3>2
  <2>5. /\ manager' \in [Managers -> Counter]
        /\ \A n \in Managers : n # m => manager'[n] = manager[n]
    <3>1. CASE right
      <4>1. Fresh \in Counter
        BY DEF Fresh, None, Counter
      <4> QED
        BY <1>5, <2>3, <3>1, <4>1 DEF Verify, TypeOK
    <3>2. CASE ~right
      <4>1. Failed(manager[m], tx[c].now, ManagerThreshold, ManagerLock) \in Counter
        BY <2>3, FailedCounter, LimitsAreNumbers DEF TypeOK
      <4>2. manager' = [manager EXCEPT ![m] = Failed(manager[m], tx[c].now, ManagerThreshold, ManagerLock)]
        BY <1>5, <3>2 DEF Verify
      <4> QED
        BY <2>3, <4>1, <4>2 DEF TypeOK
    <3> QED
      BY <3>1, <3>2
  <2>6. TypeOK' /\ BegunBefore'
    BY <2>1, <2>4, <2>5 DEF TypeOK, BegunBefore, OnlyTx
  <2>7. \A d \in Challenges : HasActor(d)' => d # c /\ HasActor(d) /\ tx[d].actor # a /\ tx[d].actor \in Actors
    BY <2>1, <2>2 DEF ActorLocked, HasActor, OnlyTx, TypeOK, TxRow, NoTx
  <2>8. ActorLocked'
    BY <2>1, <2>4, <2>7 DEF ActorLocked, HasActor, OnlyTx
  <2>9. \A d \in Challenges : HasManager(d)' => d # c /\ HasManager(d) /\ tx[d].manager # m /\ tx[d].manager \in Managers
    BY <2>1, <2>2 DEF ManagerLocked, HasManager, OnlyTx, TypeOK, TxRow, NoTx
  <2>10. ManagerLocked'
    BY <2>1, <2>5, <2>9 DEF ManagerLocked, HasManager, OnlyTx
  <2> QED
    BY <2>6, <2>8, <2>10
<1>6. ASSUME NEW c \in Challenges, Abort(c)
      PROVE  LockInv'
  <2>1. clock' = clock /\ actor' = actor /\ manager' = manager /\ OnlyTx(c) /\ tx'[c].pc = "idle"
    BY <1>6 DEF Abort, EndTx, TypeOK, NoTx, OnlyTx
  <2> QED
    BY <2>1 DEF TypeOK, BegunBefore, ActorLocked, ManagerLocked, HasActor, HasManager, OnlyTx
<1>7. CASE UNCHANGED vars
  BY <1>7 DEF vars, TypeOK, BegunBefore, ActorLocked, ManagerLocked, HasActor, HasManager
<1> QED
  BY <1>1, <1>2, <1>3, <1>4, <1>5, <1>6, <1>7 DEF Next, Step

VerifyStep ==
  \A c \in Challenges : tx[c].pc = "both" /\ tx'[c].pc = "idle"
       => /\ ~isActiveLock(actor[tx[c].actor], clock)
          /\ ~isActiveLock(manager[tx[c].manager], clock)

LEMMA LocksStillRight == LockInv => VerifyStep
<1> SUFFICES ASSUME LockInv, NEW c \in Challenges, tx[c].pc = "both"
             PROVE  /\ ~isActiveLock(actor[tx[c].actor], clock)
                    /\ ~isActiveLock(manager[tx[c].manager], clock)
  BY DEF VerifyStep
<1>1. tx[c] \in TxRow
  BY DEF LockInv, TypeOK, NoTx
<1>2. /\ actor[tx[c].actor].lockedUntil <= tx[c].now
      /\ manager[tx[c].manager].lockedUntil <= tx[c].now
      /\ tx[c].now <= clock
  BY DEF LockInv, BegunBefore, ActorLocked, ManagerLocked, HasActor, HasManager
<1>3. /\ actor[tx[c].actor].lockedUntil \in Int /\ manager[tx[c].manager].lockedUntil \in Int
      /\ tx[c].now \in Int /\ clock \in Int
  BY <1>1 DEF LockInv, TypeOK, TxRow, Counter
<1> QED
  BY <1>2, <1>3 DEF isActiveLock

(* runChallenge: for any number of actors, managers and challenges in       *)
(* flight, and any limits, no PIN is verified while a lockout of the actor   *)
(* or of the manager runs, although a challenge looks at the clock only when *)
(* its transaction begins.                                                   *)
THEOREM VerifiesUnlocked == Spec => NoVerifyWhileLocked
BY LockInit, LockStep, LocksStillRight, PTL DEF Spec, NoVerifyWhileLocked, VerifyStep

-----------------------------------------------------------------------------
(* Role administration: the locked rows stay active, so that a removal      *)
(* allowed on them is allowed by the atomic rule.                           *)

SessionRow == [pc : {"wait", "locked", "decide"}, op : {"drop", "disable"}, target : Users \cup Int,
          ids : SUBSET Int, holders : SUBSET Users]

Rows == [user : Users, active : BOOLEAN]

SessionsTyped ==
  /\ assigned = [i \in DOMAIN assigned |-> assigned[i]]
  /\ DOMAIN assigned \subseteq Int
  /\ IsFiniteSet(DOMAIN assigned)
  /\ \A i \in DOMAIN assigned : assigned[i] \in Rows
  /\ enabled \subseteq Users
  /\ session \in [Sessions -> {NoSession} \cup SessionRow]

Running(s) == session[s].pc \in {"wait", "locked", "decide"}
Holding(s) == session[s].pc \in {"locked", "decide"}

(* The assignment a removal is about is in its snapshot while it is active:  *)
(* no assignment becomes active again.                                       *)
TargetSeen ==
  \A s \in Sessions : Running(s) /\ session[s].op = "drop" /\ session[s].target \in Active
                         => session[s].target \in session[s].ids

(* Locked rows are active and have one holder. *)
LocksHold ==
  /\ \A s \in Sessions : Holding(s) => session[s].ids \subseteq Active
  /\ \A s, t \in Sessions : s # t /\ Holding(s) /\ Holding(t) => session[s].ids \cap session[t].ids = {}

(* Unless an assignment was made meanwhile, a disableUser has them all, and  *)
(* the accounts it read are those of the moment it decides.                  *)
DisableSees ==
  \A s \in Sessions : ~raced /\ Running(s) /\ session[s].op = "disable" =>
    /\ Active \subseteq session[s].ids
    /\ session[s].pc = "decide" /\ Active # {} => session[s].holders = Roster!Holders \cap enabled

RoleInv == SessionsTyped /\ TargetSeen /\ LocksHold /\ DisableSees

-----------------------------------------------------------------------------
LEMMA NewRow == ASSUME NEW u \in Users PROVE Roster!Row(u) \in Rows /\ Roster!Row(u).active
BY DEF Roster!Row, Rows

LEMMA RoleStarts == RoleInit => RoleInv
<1> SUFFICES ASSUME RoleInit PROVE RoleInv
  OBVIOUS
<1>1. PICK u \in Users : assigned = [i \in {1} |-> Roster!Row(u)]
  BY DEF RoleInit, Roster!Init
<1>2. IsFiniteSet(DOMAIN assigned)
  BY Zenon, <1>1, FS_Singleton
<1>3. \A s \in Sessions : ~Running(s) /\ ~Holding(s)
  BY DEF RoleInit, NoSession, Running, Holding
<1>4. SessionsTyped
  BY <1>1, <1>2, NewRow DEF RoleInit, SessionsTyped
<1> QED
  BY <1>3, <1>4 DEF RoleInv, TargetSeen, LocksHold, DisableSees

(* What the operations do to the rows and to the active ones. *)
LEMMA AssignedRows ==
  ASSUME SessionsTyped, NEW i \in 1 .. MaxIds, NEW u \in Users, Roster!assignUserRole(i, u)
  PROVE  /\ assigned' = [j \in DOMAIN assigned' |-> assigned'[j]]
         /\ DOMAIN assigned' \subseteq Int
         /\ IsFiniteSet(DOMAIN assigned')
         /\ \A j \in DOMAIN assigned' : assigned'[j] \in Rows
         /\ Active' = Active \cup {i}
<1>1. assigned' = [j \in DOMAIN assigned \cup {i} |->
                     IF j = i THEN Roster!Row(u) ELSE assigned[j]]
  BY DEF Roster!assignUserRole, Roster!Assigned
<1>2. DOMAIN assigned' = DOMAIN assigned \cup {i} /\ i \in Int
  BY <1>1
<1>3. IsFiniteSet(DOMAIN assigned')
  <2>1. IsFiniteSet(DOMAIN assigned \cup {i})
    BY Zenon, FS_AddElement DEF SessionsTyped
  <2> QED
    BY <1>2, <2>1
<1>4. \A j \in DOMAIN assigned' : assigned'[j] \in Rows
  BY <1>1, <1>2, NewRow DEF SessionsTyped
<1>5. Active' = Active \cup {i}
  BY <1>1, <1>2, NewRow DEF Active, Roster!activeSuperAdminAssignmentIds, Roster!assignUserRole
<1> QED
  BY <1>1, <1>2, <1>3, <1>4, <1>5 DEF SessionsTyped

LEMMA DroppedRows ==
  ASSUME SessionsTyped, NEW t, NEW rows, rows \in {Roster!Removed(assigned, t), Roster!Deactivated(assigned, t)},
         assigned' = rows
  PROVE  /\ assigned' = [j \in DOMAIN assigned' |-> assigned'[j]]
         /\ DOMAIN assigned' \subseteq DOMAIN assigned
         /\ IsFiniteSet(DOMAIN assigned')
         /\ \A j \in DOMAIN assigned' : assigned'[j] \in Rows /\ assigned'[j].user = assigned[j].user
         /\ Active' = Active \ {t}
<1>1. CASE rows = Roster!Removed(assigned, t)
  <2>1. DOMAIN assigned' \subseteq DOMAIN assigned
    BY <1>1 DEF Roster!Removed
  <2>2. IsFiniteSet(DOMAIN assigned')
    BY <2>1, FS_Subset DEF SessionsTyped
  <2> QED
    BY <1>1, <2>1, <2>2 DEF SessionsTyped, Active, Roster!activeSuperAdminAssignmentIds, Roster!Removed
<1>2. CASE rows = Roster!Deactivated(assigned, t)
  <2>1. DOMAIN assigned' = DOMAIN assigned /\ assigned' = [j \in DOMAIN assigned' |-> assigned'[j]]
    BY <1>2 DEF Roster!Deactivated
  <2>2. ASSUME NEW j \in DOMAIN assigned
        PROVE  /\ assigned'[j] \in Rows
               /\ assigned'[j].user = assigned[j].user
               /\ assigned'[j].active <=> assigned[j].active /\ j # t
    <3>1. assigned[j] \in Rows
      BY DEF SessionsTyped
    <3>2. CASE j = t
      <4>1. assigned'[j] = [assigned[j] EXCEPT !.active = FALSE]
        BY <1>2, <3>2 DEF Roster!Deactivated
      <4> QED
        BY Zenon, <3>1, <3>2, <4>1 DEF Rows
    <3>3. CASE j # t
      <4>1. assigned'[j] = assigned[j]
        BY <1>2, <3>3 DEF Roster!Deactivated
      <4> QED
        BY <3>1, <3>3, <4>1
    <3> QED
      BY <3>2, <3>3
  <2>3. Active' = Active \ {t}
    BY <2>1, <2>2 DEF Active, Roster!activeSuperAdminAssignmentIds
  <2>4. \A j \in DOMAIN assigned' : assigned'[j] \in Rows /\ assigned'[j].user = assigned[j].user
    BY <2>1, <2>2
  <2> QED
    BY <2>1, <2>3, <2>4 DEF SessionsTyped
<1> QED
  BY <1>1, <1>2

(* A step of one session leaves the transactions of the others alone. *)
OnlySession(s) == /\ session' \in [Sessions -> {NoSession} \cup SessionRow]
             /\ \A t \in Sessions : t # s => session'[t] = session[t]

LEMMA RoleKeeps == RoleInv /\ [RoleNext]_roleVars => RoleInv'
<1> SUFFICES ASSUME RoleInv, [RoleNext]_roleVars PROVE RoleInv'
  OBVIOUS
<1> USE DEF RoleInv
<1>1. ASSUME NEW i \in 1 .. MaxIds, NEW u \in Users, assignUserRole(i, u)
      PROVE  RoleInv'
  <2>1. Active' = Active \cup {i} /\ session' = session /\ enabled' = enabled
    BY <1>1, AssignedRows DEF assignUserRole
  <2>2. SessionsTyped'
    BY <1>1, <2>1, AssignedRows DEF assignUserRole, SessionsTyped
  <2>3. \A s \in Sessions : Running(s) => session[s].target # i /\ session[s].pc # "idle"
    BY <1>1 DEF assignUserRole, Running
  <2>4. TargetSeen'
    BY <2>1, <2>3 DEF TargetSeen, Running
  <2>5. LocksHold'
    BY <2>1 DEF LocksHold, Holding
  <2>6. \A s \in Sessions : Running(s) /\ session[s].op = "disable" => raced'
    BY Zenon, <1>1, <2>3 DEF assignUserRole
  <2>7. DisableSees'
    BY <2>1, <2>6 DEF DisableSees, Running
  <2> QED
    BY <2>2, <2>4, <2>5, <2>7
<1>2. ASSUME NEW s \in Sessions, NEW op \in {"drop", "disable"}, NEW target \in Users \cup Int,
             BeginTx(s, op, target)
      PROVE  RoleInv'
  <2>1. assigned' = assigned /\ enabled' = enabled /\ raced' = raced /\ Active' = Active
    BY <1>2 DEF BeginTx, Active
  <2>2. Active \subseteq Int
    BY DEF SessionsTyped, Active, Roster!activeSuperAdminAssignmentIds
  <2>3. OnlySession(s)
    BY <1>2, <2>2 DEF BeginTx, SessionsTyped, SessionRow, OnlySession
  <2>4. session'[s].ids = Active /\ session'[s].pc = "wait" /\ session'[s].op = op
    BY <1>2 DEF BeginTx, SessionsTyped
  <2>5. SessionsTyped'
    BY <2>1, <2>3 DEF SessionsTyped, OnlySession
  <2>6. TargetSeen'
    BY <2>1, <2>3, <2>4 DEF TargetSeen, Running, OnlySession
  <2>7. LocksHold'
    BY <2>1, <2>3, <2>4 DEF LocksHold, Holding, OnlySession
  <2>8. DisableSees'
    BY <2>1, <2>3, <2>4 DEF DisableSees, Running, OnlySession, Roster!Holders, Active
  <2> QED
    BY <2>5, <2>6, <2>7, <2>8
<1>3. ASSUME NEW s \in Sessions, LockRows(s)
      PROVE  RoleInv'
  <2>1. assigned' = assigned /\ enabled' = enabled /\ raced' = raced /\ Active' = Active
    BY <1>3 DEF LockRows, Active
  <2>2. session[s] \in SessionRow
    BY <1>3 DEF LockRows, SessionsTyped, NoSession
  <2>3. OnlySession(s)
    BY Zenon, <1>3, <2>2 DEF LockRows, SessionsTyped, SessionRow, OnlySession
  <2>4. /\ session'[s].ids = session[s].ids \cap Active
        /\ session'[s].op = session[s].op /\ session'[s].target = session[s].target
        /\ session'[s].pc = IF session[s].op = "disable" THEN "locked" ELSE "decide"
    BY <1>3, <2>2 DEF LockRows, SessionsTyped, SessionRow
  <2>5. SessionsTyped'
    BY <2>1, <2>3 DEF SessionsTyped, OnlySession
  <2>6. TargetSeen'
    BY <1>3, <2>1, <2>3, <2>4 DEF TargetSeen, Running, OnlySession, LockRows
  <2>7. \A t \in Sessions \ {s} : Holding(t) => session[s].ids \cap session[t].ids = {}
    BY <1>3 DEF LockRows, Locked, Holding
  <2>8. LocksHold'
    BY <2>1, <2>3, <2>4, <2>7 DEF LocksHold, Holding, OnlySession
  <2>9. DisableSees'
    BY <1>3, <2>1, <2>3, <2>4 DEF DisableSees, Running, OnlySession, Roster!Holders, Active, LockRows
  <2> QED
    BY <2>5, <2>6, <2>8, <2>9
<1>4. ASSUME NEW s \in Sessions, ReadAccounts(s)
      PROVE  RoleInv'
  <2>1. assigned' = assigned /\ enabled' = enabled /\ raced' = raced /\ Active' = Active
    BY <1>4 DEF ReadAccounts, Active
  <2>2. session[s] \in SessionRow
    BY <1>4 DEF ReadAccounts, SessionsTyped, NoSession
  <2>3. OnlySession(s)
    BY Zenon, <1>4, <2>2 DEF ReadAccounts, SessionsTyped, SessionRow, OnlySession
  <2>4. /\ session'[s].ids = session[s].ids
        /\ session'[s].op = session[s].op /\ session'[s].target = session[s].target
        /\ session'[s].pc = "decide" /\ Running(s) /\ Holding(s)
        /\ session'[s].holders = {assigned[i].user : i \in session[s].ids} \cap enabled
    BY <1>4, <2>2 DEF ReadAccounts, SessionsTyped, SessionRow, Running, Holding
  <2>5. SessionsTyped'
    BY <2>1, <2>3 DEF SessionsTyped, OnlySession
  <2>6. TargetSeen'
    BY <2>1, <2>3, <2>4 DEF TargetSeen, Running, OnlySession
  <2>7. LocksHold'
    BY <2>1, <2>3, <2>4 DEF LocksHold, Holding, OnlySession
  <2>8. ~raced /\ session[s].op = "disable" => session[s].ids = Active
    <3>1. session[s].ids \subseteq Active
      BY <2>4 DEF LocksHold
    <3>2. ~raced /\ session[s].op = "disable" => Active \subseteq session[s].ids
      BY <2>4 DEF DisableSees
    <3> QED
      BY Zenon, <3>1, <3>2
  <2>9. Roster!Holders' = Roster!Holders
    BY <2>1 DEF Roster!Holders
  <2>10. ~raced /\ session[s].op = "disable" => session'[s].holders = Roster!Holders \cap enabled
    BY <2>4, <2>8 DEF Roster!Holders, Active
  <2>11. DisableSees'
    BY <2>1, <2>3, <2>4, <2>8, <2>9, <2>10 DEF DisableSees, Running, OnlySession
  <2> QED
    BY <2>5, <2>6, <2>7, <2>11
<1>5. ASSUME NEW s \in Sessions, disableUser(s)
      PROVE  RoleInv'
  <2>1. assigned' = assigned /\ raced' = raced /\ Active' = Active /\ Roster!Holders' = Roster!Holders
    BY <1>5 DEF disableUser, Active, Roster!Holders
  <2>2. OnlySession(s) /\ session'[s].pc = "idle" /\ enabled' \subseteq enabled
    BY <1>5 DEF disableUser, CommitTx, SessionsTyped, OnlySession, NoSession
  <2>3. SessionsTyped'
    BY <2>1, <2>2 DEF SessionsTyped, OnlySession
  <2>4. TargetSeen' /\ LocksHold'
    BY <2>1, <2>2 DEF TargetSeen, LocksHold, Running, Holding, OnlySession
  (* Two of them that hold all the active rows can do so only when there are none. *)
  <2>5. \A t \in Sessions : ~raced /\ t # s /\ session[t].pc = "decide" /\ session[t].op = "disable" => Active = {}
    BY <1>5 DEF disableUser, DisableSees, LocksHold, Running, Holding
  <2>6. DisableSees'
    BY <2>1, <2>2, <2>5 DEF DisableSees, Running, OnlySession
  <2> QED
    BY <2>3, <2>4, <2>6
<1>6. ASSUME NEW s \in Sessions, NEW rows,
             rows \in {Roster!Removed(assigned, session[s].target), Roster!Deactivated(assigned, session[s].target)},
             Drop(s, rows)
      PROVE  RoleInv'
  <2>1. OnlySession(s) /\ session'[s].pc = "idle" /\ enabled' = enabled /\ raced' = raced
    BY <1>6 DEF Drop, CommitTx, SessionsTyped, OnlySession, NoSession
  <2>2. CASE assigned' = assigned
    <3>1. Active' = Active /\ Roster!Holders' = Roster!Holders
      BY <2>2 DEF Active, Roster!Holders
    <3>2. SessionsTyped'
      BY <2>1, <2>2 DEF SessionsTyped, OnlySession
    <3> QED
      BY <2>1, <3>1, <3>2 DEF TargetSeen, LocksHold, DisableSees, Running, Holding, OnlySession
  <2>3. CASE assigned' = rows
    <3>1. Active' = Active \ {session[s].target}
      BY <1>6, <2>3, DroppedRows
    <3>2. SessionsTyped'
      BY <1>6, <2>1, <2>3, DroppedRows DEF SessionsTyped, OnlySession
    <3>3. session[s].target \in Active => session[s].target \in session[s].ids
      BY <1>6 DEF Drop, TargetSeen, Running
    <3>4. \A t \in Sessions : t # s /\ Holding(t) /\ session[s].target \in Active => session[s].target \notin session[t].ids
      BY <1>6, <3>3 DEF Drop, LocksHold, Holding
    <3>5. TargetSeen' /\ LocksHold'
      BY <2>1, <3>1, <3>4 DEF TargetSeen, LocksHold, Running, Holding, OnlySession
    (* A row dropped under the eyes of a disableUser was not an active one. *)
    <3>6. \A t \in Sessions : t # s /\ ~raced /\ session[t].pc = "decide" /\ session[t].op = "disable"
            => session[s].target \notin Active
      BY <3>4 DEF DisableSees, Running, Holding
    <3>7. session[s].target \notin Active => Roster!Holders' = Roster!Holders
      <4>1. SUFFICES ASSUME session[s].target \notin Active PROVE Roster!Holders' = Roster!Holders
        OBVIOUS
      <4>2. Active' = Active
        BY <3>1, <4>1
      <4>3. \A i \in Active : assigned'[i].user = assigned[i].user
        BY <1>6, <2>3, <4>2, DroppedRows DEF Active, Roster!activeSuperAdminAssignmentIds
      <4> QED
        BY <4>2, <4>3 DEF Roster!Holders, Active
    <3>8. DisableSees'
      BY <2>1, <3>1, <3>6, <3>7 DEF DisableSees, Running, OnlySession
    <3> QED
      BY <3>2, <3>5, <3>8
  <2> QED
    BY <1>6, <2>2, <2>3 DEF Drop
<1>7. CASE UNCHANGED roleVars
  BY <1>7 DEF roleVars, SessionsTyped, TargetSeen, LocksHold, DisableSees, Running, Holding, Active, Roster!Holders
<1> QED
  <2>1. DOMAIN assigned \subseteq Users \cup Int
    BY DEF SessionsTyped
  <2> QED
    BY <1>1, <1>2, <1>3, <1>4, <1>5, <1>6, <1>7, <2>1
       DEF RoleNext, RoleStep, removeUserRoleAssignment, deactivateUserRoleAssignment

-----------------------------------------------------------------------------
(* isLastActiveMember, in the words of the library's theorems on finite sets. *)
LEMMA LastMember ==
  ASSUME NEW S, NEW x, IsFiniteSet(S)
  PROVE  Roster!isLastActiveMember(S, x) <=> S = {x}
<1>1. Roster!Cardinality(S) = Cardinality(S)
  BY DEF Roster!Cardinality, Roster!IsFiniteSet, Cardinality, IsFiniteSet
<1> QED
  BY <1>1, FS_Singleton DEF Roster!isLastActiveMember

(* What is last among all the active rows is last among the locked ones, so *)
(* that a removal allowed on these is allowed on all.                       *)
LEMMA LastOfLocked ==
  ASSUME RoleInv, NEW s \in Sessions, session[s].pc = "decide", session[s].op = "drop",
         Roster!isLastActiveMember(Active, session[s].target)
  PROVE  Roster!isLastActiveMember(session[s].ids, session[s].target)
<1>1. IsFiniteSet(Active)
  <2>1. Active \subseteq DOMAIN assigned
    BY DEF Active, Roster!activeSuperAdminAssignmentIds
  <2> QED
    BY <2>1, FS_Subset DEF RoleInv, SessionsTyped
<1>2. Active = {session[s].target}
  BY <1>1, LastMember
<1>3. session[s].target \in session[s].ids /\ session[s].ids \subseteq Active
  BY <1>2 DEF RoleInv, TargetSeen, LocksHold, Running, Holding
<1>4. session[s].ids = {session[s].target} /\ IsFiniteSet({session[s].target})
  BY Zenon, <1>2, <1>3, FS_Singleton
<1> QED
  BY <1>4, LastMember

(* Each step of the locking transactions is a step of the atomic rule, or    *)
(* leaves the rows alone.                                                    *)
LEMMA RosterStep == RoleInv /\ [RoleNext]_roleVars => [Roster!Next]_assigned
<1> SUFFICES ASSUME RoleInv, [RoleNext]_roleVars, assigned' # assigned PROVE Roster!Next
  OBVIOUS
<1>1. ASSUME NEW i \in 1 .. MaxIds, NEW u \in Users, assignUserRole(i, u)
      PROVE  Roster!Next
  BY <1>1 DEF assignUserRole, Roster!Next
<1>2. ASSUME NEW s \in Sessions, removeUserRoleAssignment(s)
      PROVE  Roster!Next
  <2>1. /\ session[s].pc = "decide" /\ session[s].op = "drop"
        /\ ~Roster!isLastActiveMember(session[s].ids, session[s].target)
        /\ assigned' = Roster!Removed(assigned, session[s].target)
    BY <1>2 DEF removeUserRoleAssignment, Drop
  <2>2. session[s].target \in DOMAIN assigned
    BY <2>1 DEF RoleInv, SessionsTyped, Roster!Removed
  <2>3. ~Roster!isLastActiveMember(Active, session[s].target)
    BY <2>1, LastOfLocked
  <2> QED
    BY <2>1, <2>2, <2>3 DEF Roster!Next, Roster!removeUserRoleAssignment, Active
<1>3. ASSUME NEW s \in Sessions, deactivateUserRoleAssignment(s)
      PROVE  Roster!Next
  <2>1. /\ session[s].pc = "decide" /\ session[s].op = "drop"
        /\ ~Roster!isLastActiveMember(session[s].ids, session[s].target)
        /\ assigned' = Roster!Deactivated(assigned, session[s].target)
    BY <1>3 DEF deactivateUserRoleAssignment, Drop
  <2>2. session[s].target \in DOMAIN assigned
    BY <2>1 DEF RoleInv, SessionsTyped, Roster!Deactivated
  <2>3. ~Roster!isLastActiveMember(Active, session[s].target)
    BY <2>1, LastOfLocked
  <2> QED
    BY <2>1, <2>2, <2>3 DEF Roster!Next, Roster!deactivateUserRoleAssignment, Active
<1> QED
  BY Zenon, <1>1, <1>2, <1>3 DEF RoleNext, RoleStep, BeginTx, LockRows, ReadAccounts, disableUser, roleVars

(* The repository of roles: for any number of concurrent transactions,      *)
(* accounts and assignments, removals and deactivations that wait for each  *)
(* other's row locks behave as the in-memory rule applied in one step.      *)
THEOREM LocksImplementRoster == RoleSpec => ImplementsRoster
<1>1. RoleInit => Roster!Init
  BY DEF RoleInit
<1> QED
  BY RoleStarts, RoleKeeps, RosterStep, <1>1, PTL DEF RoleSpec, ImplementsRoster, Roster!Spec

-----------------------------------------------------------------------------
DisableStep ==
  \A s \in Sessions :
       /\ session[s].pc = "decide" /\ session[s].op = "disable" /\ session'[s].pc = "idle"
       /\ ~raced
       /\ Roster!Holders \cap enabled # {}
       => Roster!Holders \cap enabled' # {}

LEMMA DisableKeeps == RoleInv /\ [RoleNext]_roleVars => [DisableStep]_roleVars
<1> SUFFICES ASSUME RoleInv, RoleNext, NEW s \in Sessions,
                    session[s].pc = "decide", session[s].op = "disable", session'[s].pc = "idle", ~raced,
                    Roster!Holders \cap enabled # {}
             PROVE  Roster!Holders \cap enabled' # {}
  BY DEF DisableStep
<1>1. Active # {}
  BY DEF Roster!Holders, Active
<1>2. session[s].holders = Roster!Holders \cap enabled
  BY <1>1 DEF RoleInv, DisableSees, Running
<1>3. CASE enabled' = enabled
  BY <1>3
<1>4. CASE enabled' # enabled
  <2>1. PICK t \in Sessions : disableUser(t)
    BY Zenon, <1>4 DEF RoleNext, RoleStep, assignUserRole, BeginTx, LockRows, ReadAccounts,
                removeUserRoleAssignment, deactivateUserRoleAssignment, Drop
  <2>2. t = s
    BY <2>1 DEF disableUser, CommitTx, RoleInv, SessionsTyped
  <2>3. ~Roster!isLastActiveMember(session[s].holders, session[s].target) /\ enabled' = enabled \ {session[s].target}
    BY <1>4, <2>1, <2>2 DEF disableUser
  <2>4. session[s].holders # {session[s].target}
    <3>1. IsFiniteSet({session[s].target})
      BY Zenon, FS_Singleton
    <3>2. Roster!isLastActiveMember({session[s].target}, session[s].target)
      BY <3>1, LastMember
    <3> QED
      BY <2>3, <3>2
  <2> QED
    BY <1>2, <2>3, <2>4
<1> QED
  BY <1>3, <1>4

(* disableUser: for any number of sessions and accounts, disabling an       *)
(* account leaves the tenant an administrator who can sign in, if it had    *)
(* one and no assignment was made meanwhile.                                *)
THEOREM DisablingKeepsAnAdmin == RoleSpec => DisableKeepsAnAdmin
BY RoleStarts, RoleKeeps, DisableKeeps, PTL DEF RoleSpec, DisableKeepsAnAdmin, DisableStep
=============================================================================
