----------------------------- MODULE SideEffects -----------------------------
(***************************************************************************)
(* The side-effect delivery worker: claim-then-execute over the             *)
(* side_effect_delivery_log.  A run of a worker is three steps: one         *)
(* transaction claims the open effects of the oldest events, the executor   *)
(* is called for each of them outside any transaction, and a second         *)
(* transaction writes all the outcomes.                                     *)
(*                                                                          *)
(* A claim locks every row it examines and fails with 40001 when one was    *)
(* updated after its snapshot, so a claim that commits is one atomic step.  *)
(***************************************************************************)
EXTENDS Integers, FiniteSets

CONSTANTS
  Workers,     \* runs of processPending that may overlap
  Branches,    \* a set of naturals, in the order of branch_id
  MaxEvents,   \* bound: events with behaviour flags per branch
  Types,       \* side effect types an event requires, a set of naturals
  Batch,       \* batchSize
  MaxFaults,   \* bound: failed executions and runs that never confirm
  SlowWorkers  \* whether a run may outlive stalePendingAfterMs

ASSUME WorkerAssumption ==
  /\ Branches \subseteq Nat /\ IsFiniteSet(Branches) /\ Branches # {}
  /\ MaxEvents \in Nat /\ MaxFaults \in Nat
  /\ Types \subseteq Nat /\ IsFiniteSet(Types) /\ Types # {}
  /\ Batch \in Nat \ {0}
  /\ SlowWorkers \in BOOLEAN

VARIABLES
  published,   \* [Branches -> Nat], events in the outbox
  log,         \* the delivery log: the status of each effect's row
  run,         \* what each worker's run still has to execute and has executed
  faults,      \* failures so far
  calls,       \* how often the effect took place: 0, 1, or 2 for more than once
  lost         \* effects that took place in a run that never confirmed them

vars == <<published, log, run, faults, calls, lost>>

Events  == Branches \X (1 .. MaxEvents)
Effects == {<<e[1], e[2], t>> : e \in Events, t \in Types}

Idle == [scope |-> {}, todo |-> {}, ok |-> {}, failed |-> {}]

Init ==
  /\ published = [b \in Branches |-> 0]
  /\ log = [f \in Effects |-> "absent"]
  /\ run = [w \in Workers |-> Idle]
  /\ faults = 0
  /\ calls = [f \in Effects |-> 0]
  /\ lost = {}

(* An order mutation appends an event with behaviour flags to the outbox. *)
Publish(b) ==
  /\ published[b] < MaxEvents
  /\ published' = [published EXCEPT ![b] = @ + 1]
  /\ UNCHANGED <<log, run, faults, calls, lost>>

(* ORDER BY branch_id, sequence_id *)
Before(e, f) == e[1] < f[1] \/ (e[1] = f[1] /\ e[2] < f[2])

(* loadEventsWithBehaviorFlags: the first Batch events of the scope, those  *)
(* whose effects all succeeded included.                                    *)
Loaded(scope) ==
  LET visible == {e \in Events : e[1] \in scope /\ e[2] <= published[e[1]]}
  IN {e \in visible : Cardinality({f \in visible : Before(f, e)}) < Batch}

(* Slip: a pending row is never taken over. *)
ClaimableUnlessPending(f) == log[f] \in {"absent", "failed"}

(* claimSideEffect: the row is new, or 'failed', or 'pending' for too long. *)
Claimable(f) == log[f] \in {"absent", "failed", "stale"}

(* The claim transaction of processPending, for one branch or for all.      *)
Claim(w, scope) ==
  LET mine == {f \in Effects : <<f[1], f[2]>> \in Loaded(scope) /\ Claimable(f)}
  IN /\ run[w] = Idle
     /\ run' = [run EXCEPT ![w].scope = scope, ![w].todo = mine]
     /\ log' = [f \in Effects |-> IF f \in mine THEN "pending" ELSE log[f]]
     /\ UNCHANGED <<published, faults, calls, lost>>

(* The effects of a run are executed in the order they were claimed.        *)
IsNext(f, todo) ==
  /\ f \in todo
  /\ \A g \in todo \ {f} : Before(f, g) \/ (<<f[1], f[2]>> = <<g[1], g[2]>> /\ f[3] < g[3])

ExecuteOk(w, f) ==
  /\ IsNext(f, run[w].todo)
  /\ run' = [run EXCEPT ![w].todo = @ \ {f}, ![w].ok = @ \cup {f}]
  /\ calls' = [calls EXCEPT ![f] = IF @ = 0 THEN 1 ELSE 2]
  /\ UNCHANGED <<published, log, faults, lost>>

(* The executor throws; the effect did not take place. *)
ExecuteFails(w, f) ==
  /\ IsNext(f, run[w].todo)
  /\ faults < MaxFaults
  /\ faults' = faults + 1
  /\ run' = [run EXCEPT ![w].todo = @ \ {f}, ![w].failed = @ \cup {f}]
  /\ UNCHANGED <<published, log, calls, lost>>

(* Slip: only the failures are written back. *)
MarkFailuresOnly(w) ==
  /\ run[w] # Idle /\ run[w].todo = {}
  /\ log' = [f \in Effects |-> IF f \in run[w].failed THEN "failed" ELSE log[f]]
  /\ run' = [run EXCEPT ![w] = Idle]
  /\ UNCHANGED <<published, faults, calls, lost>>

(* The confirming transaction: markSideEffect, for every effect of the run, *)
(* whatever the row says by now.                                            *)
Mark(w) ==
  /\ run[w] # Idle /\ run[w].todo = {}
  /\ log' = [f \in Effects |-> IF f \in run[w].ok THEN "succeeded"
                               ELSE IF f \in run[w].failed THEN "failed" ELSE log[f]]
  /\ run' = [run EXCEPT ![w] = Idle]
  /\ UNCHANGED <<published, faults, calls, lost>>

(* The process dies, or the confirming transaction fails (40001, a lost     *)
(* connection): no outcome of the run is written.                           *)
Abandon(w) ==
  /\ run[w] # Idle
  /\ faults < MaxFaults
  /\ faults' = faults + 1
  /\ lost' = lost \cup run[w].ok
  /\ run' = [run EXCEPT ![w] = Idle]
  /\ UNCHANGED <<published, log, calls>>

Owns(w, f) == f \in run[w].todo \cup run[w].ok \cup run[w].failed

(* stalePendingAfterMs passes for a pending row. *)
Expire(f) ==
  /\ log[f] = "pending"
  /\ SlowWorkers \/ \A w \in Workers : ~Owns(w, f)
  /\ log' = [log EXCEPT ![f] = "stale"]
  /\ UNCHANGED <<published, run, faults, calls, lost>>

Scopes == {{b} : b \in Branches} \cup {Branches}

Work(w) ==
  \/ \E scope \in Scopes : Claim(w, scope)
  \/ \E f \in Effects : ExecuteOk(w, f) \/ ExecuteFails(w, f)
  \/ Mark(w)

Next ==
  \/ \E b \in Branches : Publish(b)
  \/ \E w \in Workers : Work(w) \/ Abandon(w)
  \/ \E f \in Effects : Expire(f)

Spec == Init /\ [][Next]_vars

(* A run that was started is carried on, the worker is run again and again  *)
(* for the whole tenant, and time passes.                                   *)
Fairness ==
  /\ \A w \in Workers :
       /\ WF_vars(Claim(w, Branches))
       /\ WF_vars(\E f \in Effects : ExecuteOk(w, f) \/ ExecuteFails(w, f))
       /\ WF_vars(Mark(w))
  /\ \A f \in Effects : WF_vars(Expire(f))

FairSpec == Spec /\ Fairness

-----------------------------------------------------------------------------
(* Properties *)

(* The log agrees with what took place: a row that says 'succeeded' is      *)
(* right, a row that says anything else hides no confirmed effect, and a     *)
(* kitchen ticket is printed twice only if a run that had printed it died    *)
(* before it could say so, whatever else of that run failed and is retried.  *)
LogIsTruthful ==
  \A f \in Effects :
    /\ log[f] = "succeeded" => calls[f] > 0
    /\ calls[f] > 0 /\ log[f] # "succeeded"
         => f \in lost \/ \E w \in Workers : f \in run[w].ok
    /\ calls[f] > 1 => f \in lost

(* 'succeeded' is final: later runs skip the effect entirely.               *)
SucceededIsFinal ==
  [][\A f \in Effects : log[f] = "succeeded" => log'[f] = "succeeded"]_vars

(* Every effect of every event in the outbox is delivered in the end: "Event *)
(* delivery is at-least-once."                                              *)
EveryEffectDelivered ==
  \A f \in Effects : f[2] <= published[f[1]] ~> log[f] = "succeeded"
=============================================================================
