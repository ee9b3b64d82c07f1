----------------------------- MODULE AdminRoster -----------------------------
(***************************************************************************)
(* What the protection of a tenant's administrators promises: the in-memory *)
(* repository applies the rule of super-admin-guard.ts in one step.         *)
(* RoleAdmin, the PostgreSQL repository with its locks, implements it.      *)
(***************************************************************************)
EXTENDS Integers, FiniteSets

CONSTANTS
  Users,
  MaxIds   \* bound: assignments ever made

VARIABLE
  assigned   \* user_roles of the system role: id -> holder and is_active

Row(u) == [user |-> u, active |-> TRUE]

(* A tenant with one administrator. *)
Init == \E u \in Users : assigned = [i \in {1} |-> Row(u)]

activeSuperAdminAssignmentIds(rows) == {i \in DOMAIN rows : rows[i].active}

Holders == {assigned[i].user : i \in activeSuperAdminAssignmentIds(assigned)}

isLastActiveMember(members, target) == target \in members /\ Cardinality(members) = 1

Assigned(rows, i, u) == [j \in DOMAIN rows \cup {i} |-> IF j = i THEN Row(u) ELSE rows[j]]
Removed(rows, i)     == [j \in DOMAIN rows \ {i} |-> rows[j]]
Deactivated(rows, i) == [j \in DOMAIN rows |->
                           IF j = i THEN [rows[j] EXCEPT !.active = FALSE] ELSE rows[j]]

assignUserRole(i, u) ==
  /\ i \notin DOMAIN assigned
  /\ assigned' = Assigned(assigned, i, u)

removeUserRoleAssignment(i) ==
  /\ ~isLastActiveMember(activeSuperAdminAssignmentIds(assigned), i)
  /\ assigned' = Removed(assigned, i)

deactivateUserRoleAssignment(i) ==
  /\ ~isLastActiveMember(activeSuperAdminAssignmentIds(assigned), i)
  /\ assigned' = Deactivated(assigned, i)

Next ==
  \/ \E i \in 1 .. MaxIds, u \in Users : assignUserRole(i, u)
  \/ \E i \in DOMAIN assigned : removeUserRoleAssignment(i) \/ deactivateUserRoleAssignment(i)

Spec == Init /\ [][Next]_assigned
=============================================================================
