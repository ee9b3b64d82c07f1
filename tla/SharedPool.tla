----------------------------- MODULE SharedPool -----------------------------
(***************************************************************************)
(* The process-wide pool of pool.ts: created once through a memoised        *)
(* promise, in a microtask of its own, and forgotten by closePool.          *)
(***************************************************************************)
EXTENDS Integers, Sequences

CONSTANT MaxPools  \* bound: creations started

VARIABLES
  creation,  \* every creation started: "pending", "rejected", "open" or "ended"
  memo,      \* sharedPoolPromise: the index of a creation, or 0
  shared,    \* sharedPool: likewise
  overtaken  \* history: creations that closePool met while they were pending

poolVars == <<creation, memo, shared, overtaken>>

PoolInit == creation = <<>> /\ memo = 0 /\ shared = 0 /\ overtaken = {}

(* Slip: only a finished creation is shared. *)
ensureSharedPoolAnew ==
  /\ Len(creation) < MaxPools
  /\ memo # 0 => creation[memo] = "pending"
  /\ creation' = Append(creation, "pending")
  /\ memo' = Len(creation')
  /\ UNCHANGED <<shared, overtaken>>

(* The first caller schedules the creation; others get the same promise.    *)
ensureSharedPool ==
  /\ Len(creation) < MaxPools
  /\ memo = 0
  /\ creation' = Append(creation, "pending")
  /\ memo' = Len(creation')
  /\ UNCHANGED <<shared, overtaken>>

(* The microtask, in the order of scheduling.  When the environment is      *)
(* wrong it rejects the promise, which stays memoised.                      *)
createSharedPool(i, ok) ==
  /\ creation[i] = "pending"
  /\ \A j \in 1 .. i - 1 : creation[j] # "pending"
  /\ creation' = [creation EXCEPT ![i] = IF ok THEN "open" ELSE "rejected"]
  /\ shared' = IF ok THEN i ELSE shared
  /\ UNCHANGED <<memo, overtaken>>

(* Both variables are cleared before end() is awaited. *)
closePool ==
  /\ memo # 0 \/ shared # 0
  /\ creation' = IF shared = 0 THEN creation ELSE [creation EXCEPT ![shared] = "ended"]
  /\ shared' = 0
  /\ memo' = 0
  /\ overtaken' = overtaken \cup {i \in {memo} \cap DOMAIN creation : creation[i] = "pending"}

PoolNext ==
  \/ ensureSharedPool
  \/ closePool
  \/ \E i \in DOMAIN creation, ok \in BOOLEAN : createSharedPool(i, ok)

PoolSpec == PoolInit /\ [][PoolNext]_poolVars

-----------------------------------------------------------------------------
(* "concurrent callers can never create two pools": an open pool is the     *)
(* shared one, so that closePool ends it, unless closePool came between a    *)
(* call of ensureSharedPool and its microtask.                              *)
OpenPoolIsShared == \A i \in DOMAIN creation : creation[i] = "open" => i = shared \/ i \in overtaken

(* A caller whose promise is kept gets a pool that nobody has ended. *)
MemoisedPoolIsOpen == memo # 0 => creation[memo] # "ended"
=============================================================================
