---------------------------- MODULE Authorization ----------------------------
(***************************************************************************)
(* AuthorizationEngine.check for one user, with the L1 cache of permission  *)
(* outcomes.  Every read is a transaction of its own, so accounts, tenants  *)
(* and roles change between the stages.  Two permission keys, one of them   *)
(* sensitive, on two branches.                                              *)
(***************************************************************************)
EXTENDS Integers, Sequences, SequencesExt

CONSTANTS
  Checks,      \* checks that may be in flight at once
  Branches,
  RoleSets,    \* sets of assignments the user may hold, each [scope, cap]
  Amounts,     \* resource amounts; a cap of NULL is a cap above them all
  MaxEntries, Ttl,  \* of the cache; ticks
  MaxRead,     \* ticks one read takes at most (statement_timeout)
  MaxClock     \* bound: time

VARIABLES
  clock,
  member,   \* the account and its tenant are active
  held,     \* the assignments the user holds
  cache,    \* entries, least recently used first
  check,    \* the checks in flight
  last      \* history: when an outcome was last in force, per branch

vars == <<clock, member, held, cache, check, last>>

Tenantwide == "tenant"
Denied == [allowed |-> FALSE, cap |-> 0]
(* A tenant-scoped assignment covers every branch. *)
getApplicableGrants(holds, branch) == {a \in holds : a.scope \in {Tenantwide, branch}}

(* No cap beats every cap; otherwise the largest one counts. *)
computeOutcome(grants) ==
  IF grants = {} THEN Denied ELSE [allowed |-> TRUE, cap |-> Max({g.cap : g \in grants})]

InForce(holds, branch) == computeOutcome(getApplicableGrants(holds, branch))

Outcomes == {InForce(holds, b) : holds \in RoleSets, b \in Branches}

Idle == [pc |-> "idle"]
Never == -1

Init ==
  /\ clock = 0
  /\ member = TRUE
  /\ held \in RoleSets
  /\ cache = <<>>
  /\ check = [c \in Checks |-> Idle]
  /\ last = [b \in Branches |-> [o \in Outcomes |-> IF o = InForce(held, b) THEN 0 ELSE Never]]

(* One entry per branch; sensitive keys have none. *)
buildCacheKey(branch) == branch

Entry(key) == SelectSeq(cache, LAMBDA e : e.key = key)
Others(key) == SelectSeq(cache, LAMBDA e : e.key # key)

fresh(e) == clock - e.storedAt < Ttl

(* get: an expired entry is deleted, a hit becomes the most recent.         *)
cacheGet(key) ==
  LET hit == SelectSeq(Entry(key), fresh) IN cache' = Others(key) \o hit

(* set: the least recently used entries make room.                          *)
cacheSet(key, outcome) ==
  LET all == Append(Others(key), [key |-> key, outcome |-> outcome, storedAt |-> clock])
  IN cache' = SubSeq(all, Max({1, Len(all) - MaxEntries + 1}), Len(all))

Goto(c, to) == check' = [check EXCEPT ![c] = to]

(* check begins, on a resource of a branch or for the actor's own.  History *)
(* of a check: was the user ever a member, and for a sensitive one which     *)
(* outcomes were in force.                                                  *)
Begin(c, sensitive, branch) ==
  /\ check[c].pc \in {"idle", "allowed"}
  /\ Goto(c, [pc |-> "active", sensitive |-> sensitive, branch |-> branch,
              wasMember |-> member, wasInForce |-> IF sensitive THEN {InForce(held, branch)} ELSE {}])
  /\ UNCHANGED <<clock, member, held, cache, last>>

(* Stage 1: the account and its tenant are active. *)
isUserActive(c) ==
  /\ check[c].pc = "active"
  /\ Goto(c, IF member THEN [check[c] EXCEPT !.pc = "lookup"] ELSE Idle)
  /\ UNCHANGED <<clock, member, held, cache, last>>

(* Stage 1: a token of another role set is refused (TokenFamilies has the   *)
(* comparison; here both answers are taken).                                *)
RefuseSecV(c) ==
  /\ check[c].pc = "lookup"
  /\ Goto(c, Idle)
  /\ UNCHANGED <<clock, member, held, cache, last>>

(* Stage 3: the branch and the amount of this resource, never cached, in    *)
(* the same turn of the event loop as the end of stage 2.                   *)
Decide(c, outcome, sameBranch, amount) ==
  Goto(c, IF outcome.allowed /\ sameBranch /\ amount <= outcome.cap
          THEN [pc |-> "allowed", outcome |-> outcome] ELSE Idle)

(* Slip: sensitive permissions are looked up too. *)
permissionCheckCached(c, sameBranch, amount) ==
  LET key == buildCacheKey(check[c].branch)
      hit == SelectSeq(Entry(key), fresh)
  IN /\ check[c].pc = "lookup"
     /\ cacheGet(key)
     /\ IF hit = <<>> THEN Goto(c, [check[c] EXCEPT !.pc = "read"])
        ELSE Decide(c, hit[1].outcome, sameBranch, amount)
     /\ UNCHANGED <<clock, member, held, last>>

(* Stage 2: the cache is asked, except for sensitive permissions. *)
permissionCheck(c, sameBranch, amount) ==
  LET key == buildCacheKey(check[c].branch)
      hit == SelectSeq(Entry(key), fresh)
  IN /\ check[c].pc = "lookup"
     /\ IF check[c].sensitive THEN UNCHANGED cache ELSE cacheGet(key)
     /\ IF check[c].sensitive \/ hit = <<>> THEN Goto(c, [check[c] EXCEPT !.pc = "read"])
        ELSE Decide(c, hit[1].outcome, sameBranch, amount)
     /\ UNCHANGED <<clock, member, held, last>>

(* Stage 2, miss: the grants are read ...                                   *)
ReadGrants(c) ==
  /\ check[c].pc = "read"
  /\ Goto(c, [check[c] EXCEPT !.pc = "store"]
               @@ [outcome |-> InForce(held, check[c].branch), readAt |-> IF check[c].sensitive THEN 0 ELSE clock])
  /\ UNCHANGED <<clock, member, held, cache, last>>

(* ... and the outcome is stored, under the time at which it arrived.       *)
StoreOutcome(c, sameBranch, amount) ==
  /\ check[c].pc = "store"
  /\ IF check[c].sensitive THEN UNCHANGED cache
     ELSE cacheSet(buildCacheKey(check[c].branch), check[c].outcome)
  /\ Decide(c, check[c].outcome, sameBranch, amount)
  /\ UNCHANGED <<clock, member, held, last>>

Running == {c \in Checks : check[c].pc \notin {"idle", "allowed"}}

(* suspendTenant and disableUser, or reactivateTenant. *)
SetMember(m) ==
  /\ member' = m
  /\ check' = [c \in Checks |-> IF c \in Running THEN [check[c] EXCEPT !.wasMember = @ \/ m] ELSE check[c]]
  /\ UNCHANGED <<clock, held, cache, last>>

(* assignUserRole, removeUserRoleAssignment, assignRolePermission. *)
ChangeRoles(holds) ==
  /\ held' = holds
  /\ last' = [b \in Branches |-> [last[b] EXCEPT ![InForce(holds, b)] = clock]]
  /\ check' = [c \in Checks |-> IF c \in Running /\ check[c].sensitive
                THEN [check[c] EXCEPT !.wasInForce = @ \cup {InForce(holds, check[c].branch)}]
                ELSE check[c]]
  /\ UNCHANGED <<clock, member, cache>>

(* Time passes; a read ends within MaxRead. *)
Tick ==
  /\ clock < MaxClock
  /\ \A c \in Checks : check[c].pc = "store" /\ ~check[c].sensitive => clock - check[c].readAt < MaxRead
  /\ clock' = clock + 1
  /\ last' = [b \in Branches |-> [last[b] EXCEPT ![InForce(held, b)] = clock + 1]]
  /\ UNCHANGED <<member, held, cache, check>>

Step(c) ==
  \/ isUserActive(c) \/ RefuseSecV(c) \/ ReadGrants(c)
  \/ \E b \in BOOLEAN, a \in Amounts : permissionCheck(c, b, a) \/ StoreOutcome(c, b, a)

Next ==
  \/ Tick
  \/ \E m \in BOOLEAN \ {member} : SetMember(m)
  \/ \E holds \in RoleSets \ {held} : ChangeRoles(holds)
  \/ \E c \in Checks :
       \/ \E sensitive \in BOOLEAN, b \in Branches : Begin(c, sensitive, b)
       \/ Step(c)

-----------------------------------------------------------------------------
(* Properties *)

Allows(c) == check[c].pc \in {"lookup", "store"} /\ check'[c].pc = "allowed"

(* A user who is allowed something was an active member at some moment of   *)
(* the check.  What a sensitive check allows was in force at some moment of *)
(* that check ("Sensitive permissions are NEVER cached").  What another     *)
(* check allows was in force less than the lifetime of an entry and the     *)
(* longest read ago: an entry is as old as its storing, its content as its  *)
(* reading, and a slow check may store over a newer one.                    *)
AllowedWasInForce ==
  [][\A c \in Checks : Allows(c) =>
       /\ check[c].wasMember
       /\ LET at == last[check[c].branch][check'[c].outcome]
          IN IF check[c].sensitive THEN check'[c].outcome \in check[c].wasInForce
             ELSE at # Never /\ clock - at < Ttl + MaxRead]_vars
=============================================================================
