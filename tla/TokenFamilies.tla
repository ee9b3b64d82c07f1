---------------------------- MODULE TokenFamilies ----------------------------
(***************************************************************************)
(* Refresh tokens of one account: rotation within a family, and the         *)
(* revocation of a family when a revoked token is presented again.  rotate  *)
(* is a READ COMMITTED transaction: it waits for the row lock and then sees *)
(* the row as the holder left it, and its UPDATE of the family has a        *)
(* snapshot of its own.  Anything else that makes the code answer 401 (an   *)
(* expired token, the limiter, a suspended tenant, a blocked account) is a  *)
(* refusal that may happen at the step where the code finds out.            *)
(***************************************************************************)
EXTENDS Integers, Sequences, FiniteSets

CONSTANTS
  Devices,    \* refreshes that may be in flight at once, naturals from 1
  RoleIds,    \* roles that may be assigned, a set of naturals
  MaxTokens   \* bound: ledger rows

ASSUME DevicesAreNumbered ==
  /\ Devices \subseteq Nat \ {0} /\ IsFiniteSet(Devices)
  /\ MaxTokens \in Nat

VARIABLES
  roles,     \* the active user_roles
  tokens,    \* auth_refresh_tokens in the order of insertion, with their claims
  holder,    \* the refresh that holds the row lock of a token, or 0
  refresh,   \* the refreshes in flight
  replayed,  \* history: families that a replay revoked
  crossed    \* history: families in which a rotation committed inside a replay's UPDATE

familyVars == <<roles, tokens, holder, refresh, replayed, crossed>>

NoRefresh == [pc |-> "idle", tok |-> 0, secV |-> <<>>, seen |-> {}]

FamilyInit ==
  /\ roles = RoleIds
  /\ tokens = <<>>
  /\ holder = [i \in 1 .. MaxTokens |-> 0]
  /\ refresh = [d \in Devices |-> NoRefresh]
  /\ replayed = {}
  /\ crossed = {}

(* The quadruples of the active roles in order, with the security version.  *)
(* No code changes role_version, security_version or a scope.               *)
Ascending(rs) ==
  CHOOSE s \in [1 .. Cardinality(rs) -> rs] : \A i, j \in DOMAIN s : i < j => s[i] < s[j]

serialiseSecVPayload(rs) == <<[i \in 1 .. Cardinality(rs) |-> <<Ascending(rs)[i], 1>>], 1>>

(* SHA-256 of that text: equal exactly when the texts are. *)
deriveSecV(rs) == [sha256 |-> serialiseSecVPayload(rs)]

(* issueRefreshToken, and the ledger row stored with it. *)
NewToken(fam, secV) == [fam |-> fam, revoked |-> FALSE, secV |-> secV]

Live(fam) == {i \in DOMAIN tokens : tokens[i].fam = fam /\ ~tokens[i].revoked}

Goto(d, pc) == refresh' = [refresh EXCEPT ![d].pc = pc]
Done(d)     == refresh' = [refresh EXCEPT ![d] = NoRefresh]
Unlock(d)   == holder' = [i \in DOMAIN holder |-> IF holder[i] = d THEN 0 ELSE holder[i]]

(* Bound: every refresh in flight may still insert a row. *)
Room == Len(tokens) + Cardinality({d \in Devices : refresh[d].pc # "idle"}) < MaxTokens

(* The last steps of a login: the first row of a new family. *)
Login ==
  /\ Room
  /\ tokens' = Append(tokens, NewToken(Len(tokens) + 1, deriveSecV(roles)))
  /\ UNCHANGED <<roles, holder, refresh, replayed, crossed>>

(* A client presents a token it was given, the current one or an older one. *)
Present(d, t) ==
  /\ refresh[d].pc = "idle"
  /\ Room
  /\ refresh' = [refresh EXCEPT ![d].pc = "derive", ![d].tok = t]
  /\ UNCHANGED <<roles, tokens, holder, replayed, crossed>>

(* sec_v is derived afresh and compared with the claim of the token. *)
CompareSecV(d) ==
  LET fresh == deriveSecV(roles)
  IN /\ refresh[d].pc = "derive"
     /\ IF fresh = tokens[refresh[d].tok].secV
        THEN refresh' = [refresh EXCEPT ![d].pc = "rotate", ![d].secV = fresh]
        ELSE Done(d)
     /\ UNCHANGED <<roles, tokens, holder, replayed, crossed>>

(* rotate (1): the presented row is locked. *)
LockRow(d) ==
  LET t == refresh[d].tok
  IN /\ refresh[d].pc = "rotate"
     /\ holder[t] = 0
     /\ holder' = [holder EXCEPT ![t] = d]
     /\ Goto(d, IF tokens[t].revoked THEN "replay" ELSE "swap")
     /\ UNCHANGED <<roles, tokens, replayed, crossed>>

(* rotate (2): the UPDATE of a replay takes its snapshot of the family ...  *)
ReplaySee(d) ==
  /\ refresh[d].pc = "replay"
  /\ refresh' = [refresh EXCEPT ![d].pc = "kill", ![d].seen = Live(tokens[refresh[d].tok].fam)]
  /\ UNCHANGED <<roles, tokens, holder, replayed, crossed>>

(* Slip: only the presented row, which is revoked already, is updated. *)
KillPresented(d) ==
  /\ refresh[d].pc = "kill"
  /\ replayed' = replayed \cup {tokens[refresh[d].tok].fam}
  /\ Unlock(d)
  /\ Done(d)
  /\ UNCHANGED <<roles, tokens, crossed>>

(* ... and revokes those rows, waiting for a rotation that holds one.       *)
ReplayKill(d) ==
  LET seen == refresh[d].seen
  IN /\ refresh[d].pc = "kill"
     /\ \A i \in seen : holder[i] \in {0, d}
     /\ tokens' = [i \in DOMAIN tokens |->
                    IF i \in seen THEN [tokens[i] EXCEPT !.revoked = TRUE] ELSE tokens[i]]
     /\ replayed' = replayed \cup {tokens[refresh[d].tok].fam}
     /\ Unlock(d)
     /\ Done(d)
     /\ UNCHANGED <<roles, crossed>>

(* Slip: the transaction is left open. *)
SwapKeepingLock(d) ==
  LET t   == refresh[d].tok
      fam == tokens[t].fam
  IN /\ refresh[d].pc = "swap"
     /\ tokens' = Append([tokens EXCEPT ![t].revoked = TRUE], NewToken(fam, refresh[d].secV))
     /\ Done(d)
     /\ UNCHANGED <<roles, holder, replayed, crossed>>

(* rotate (3), (4): the old row is revoked and its replacement inserted.    *)
Swap(d) ==
  LET t   == refresh[d].tok
      fam == tokens[t].fam
      inside == \E e \in Devices : refresh[e].pc = "kill" /\ tokens[refresh[e].tok].fam = fam
  IN /\ refresh[d].pc = "swap"
     /\ tokens' = Append([tokens EXCEPT ![t].revoked = TRUE], NewToken(fam, refresh[d].secV))
     /\ crossed' = IF inside THEN crossed \cup {fam} ELSE crossed
     /\ Unlock(d)
     /\ Done(d)
     /\ UNCHANGED <<roles, replayed>>

(* A 401 that touches no token: before rotate, or in it because the account *)
(* is inactive or locked.                                                   *)
Refuse(d) ==
  /\ refresh[d].pc \in {"derive", "rotate", "swap"}
  /\ Unlock(d)
  /\ Done(d)
  /\ UNCHANGED <<roles, tokens, replayed, crossed>>

(* assignUserRole, removeUserRoleAssignment *)
ChangeRoles(r) ==
  /\ roles' = (roles \cup {r}) \ (roles \cap {r})
  /\ UNCHANGED <<tokens, holder, refresh, replayed, crossed>>

RefreshStep(d) == CompareSecV(d) \/ LockRow(d) \/ ReplaySee(d) \/ ReplayKill(d) \/ Swap(d)

FamilyNext ==
  \/ Login
  \/ \E d \in Devices : RefreshStep(d) \/ Refuse(d) \/ \E t \in DOMAIN tokens : Present(d, t)
  \/ \E r \in RoleIds : ChangeRoles(r)

FamilySpec == FamilyInit /\ [][FamilyNext]_familyVars

-----------------------------------------------------------------------------
(* Properties *)

(* Two refreshes with one token, or a refresh and its retry, never leave    *)
(* two usable tokens in a family.                                           *)
OneLivePerFamily == \A i \in DOMAIN tokens : Cardinality(Live(tokens[i].fam)) <= 1

(* "Revoke every still-active token of the SAME family": once a revoked     *)
(* token was presented, nothing of its family can be used again, unless a   *)
(* rotation of the family committed between the snapshot of that UPDATE and *)
(* its end: the row that rotation inserted is not in the snapshot.          *)
ReplayEndsFamily == \A f \in replayed \ crossed : Live(f) = {}

(* A family lives on one role set: a refresh never carries a session over a *)
(* change of roles, it forces a new login.                                  *)
FamilyKeepsRoles ==
  \A i, j \in DOMAIN tokens : tokens[i].fam = tokens[j].fam => tokens[i].secV = tokens[j].secV

(* No refresh waits for a row lock for ever. *)
RefreshAnswered(d) == refresh[d].pc # "idle" ~> refresh[d].pc = "idle"
=============================================================================
