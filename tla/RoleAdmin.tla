------------------------------ MODULE RoleAdmin ------------------------------
(***************************************************************************)
(* Removal and deactivation of administrator assignments and the disabling  *)
(* of accounts, as READ COMMITTED transactions: SELECT ... FOR UPDATE takes *)
(* its snapshot, waits for the rows that others hold, and returns those of  *)
(* the snapshot that still qualify.                                         *)
(***************************************************************************)
EXTENDS Integers, FiniteSets

CONSTANTS
  Sessions,  \* transactions that may be in flight at once
  Users, MaxIds

VARIABLES
  assigned,  \* user_roles of the system role
  enabled,   \* users with is_active
  session,   \* the transactions in flight
  raced      \* history: an assignment was made during a disableUser

roleVars == <<assigned, enabled, session, raced>>

Roster == INSTANCE AdminRoster

NoSession == [pc |-> "idle"]
Active == Roster!activeSuperAdminAssignmentIds(assigned)

RoleInit ==
  /\ Roster!Init
  /\ enabled = Users
  /\ session = [s \in Sessions |-> NoSession]
  /\ raced = FALSE

(* A row of the role for a user; it waits for nobody.  Ids are new: one is   *)
(* taken again only when no transaction knows it.                           *)
assignUserRole(i, u) ==
  /\ Roster!assignUserRole(i, u)
  /\ \A s \in Sessions : session[s].pc # "idle" => i \notin session[s].ids \cup {session[s].target}
  /\ raced' = (raced \/ \E s \in Sessions : session[s].pc # "idle" /\ session[s].op = "disable")
  /\ UNCHANGED <<enabled, session>>

(* The locking SELECT starts. *)
BeginTx(s, op, target) ==
  /\ session[s].pc = "idle"
  /\ session' = [session EXCEPT ![s] = [pc |-> "wait", op |-> op, target |-> target,
                                             ids |-> Active, holders |-> {}]]
  /\ UNCHANGED <<assigned, enabled, raced>>

Locked(s) ==
  UNION {session[t].ids : t \in {t \in Sessions \ {s} : session[t].pc \in {"locked", "decide"}}}

(* Slip: SELECT without FOR UPDATE. *)
ReadRows(s) ==
  /\ session[s].pc = "wait"
  /\ session' = [session EXCEPT ![s].pc = IF session[s].op = "disable" THEN "locked" ELSE "decide"]
  /\ UNCHANGED <<assigned, enabled, raced>>

LockRows(s) ==
  /\ session[s].pc = "wait"
  /\ session[s].ids \cap Locked(s) = {}
  /\ session' = [session EXCEPT ![s].pc = IF session[s].op = "disable" THEN "locked" ELSE "decide",
                                ![s].ids = @ \cap Active]
  /\ UNCHANGED <<assigned, enabled, raced>>

(* disableUser (2): a new statement reads which holders have an active      *)
(* account.                                                                 *)
ReadAccounts(s) ==
  /\ session[s].pc = "locked"
  /\ session' = [session EXCEPT ![s].pc = "decide",
                                ![s].holders = {assigned[i].user : i \in session[s].ids} \cap enabled]
  /\ UNCHANGED <<assigned, enabled, raced>>

CommitTx(s) == session' = [session EXCEPT ![s] = NoSession]

(* The last administrator is refused. Both take the same locks. *)
Drop(s, rows) ==
  /\ session[s].pc = "decide" /\ session[s].op = "drop"
  /\ assigned' = IF Roster!isLastActiveMember(session[s].ids, session[s].target) THEN assigned ELSE rows
  /\ CommitTx(s)
  /\ UNCHANGED <<enabled, raced>>

removeUserRoleAssignment(s)     == Drop(s, Roster!Removed(assigned, session[s].target))
deactivateUserRoleAssignment(s) == Drop(s, Roster!Deactivated(assigned, session[s].target))

disableUser(s) ==
  /\ session[s].pc = "decide" /\ session[s].op = "disable"
  /\ enabled' = IF Roster!isLastActiveMember(session[s].holders, session[s].target)
                THEN enabled ELSE enabled \ {session[s].target}
  /\ CommitTx(s)
  /\ UNCHANGED <<assigned, raced>>

RoleStep(s) == LockRows(s) \/ ReadAccounts(s) \/ disableUser(s)
               \/ removeUserRoleAssignment(s) \/ deactivateUserRoleAssignment(s)

RoleNext ==
  \/ \E i \in 1 .. MaxIds, u \in Users : assignUserRole(i, u)
  \/ \E s \in Sessions :
       \/ \E i \in DOMAIN assigned : BeginTx(s, "drop", i)
       \/ \E u \in Users : BeginTx(s, "disable", u)
       \/ RoleStep(s)

RoleSpec == RoleInit /\ [][RoleNext]_roleVars

-----------------------------------------------------------------------------
(* Properties *)

(* Transactions that remove or deactivate assignments at the same time, one *)
(* waiting for the locks of another, take the steps of the atomic rule.     *)
ImplementsRoster == Roster!Spec

(* "a user disable that would remove the last active super-admin is         *)
(* refused": it leaves an active account with an active assignment if there *)
(* was one, unless an assignment was made during a disableUser, in a row    *)
(* the snapshot of its SELECT does not have.                                *)
DisableKeepsAnAdmin ==
  [][\A s \in Sessions :
       /\ session[s].pc = "decide" /\ session[s].op = "disable" /\ session'[s].pc = "idle"
       /\ ~raced
       /\ Roster!Holders \cap enabled # {}
       => Roster!Holders \cap enabled' # {}]_roleVars
=============================================================================
