-------------------------- MODULE SideEffectsProofs --------------------------
(***************************************************************************)
(* Proofs about SideEffects: when no run outlives stalePendingAfterMs, the  *)
(* delivery log tells the truth, and 'succeeded' is final.                  *)
(***************************************************************************)
EXTENDS SideEffects, TLAPS

Run == [scope: SUBSET Branches, todo: SUBSET Effects, ok: SUBSET Effects,
        failed: SUBSET Effects]

TypeOK ==
  /\ log \in [Effects -> {"absent", "pending", "stale", "failed", "succeeded"}]
  /\ run \in [Workers -> Run]
  /\ calls \in [Effects -> 0 .. 2]
  /\ lost \in SUBSET Effects

LEMMA IdleTyped == /\ Idle \in Run /\ Idle.todo = {} /\ Idle.ok = {} /\ Idle.failed = {}
                   /\ \A r \in Run : r # Idle => r.todo \cup r.ok \cup r.failed \in SUBSET Effects
BY DEF Idle, Run

(* One run changes at a time. *)
LEMMA RunWrite ==
  ASSUME TypeOK, NEW w \in Workers, NEW r \in Run, run' = [run EXCEPT ![w] = r]
  PROVE  /\ run' \in [Workers -> Run] /\ run'[w] = r
         /\ \A v \in Workers \ {w} : run'[v] = run[v]
BY DEF TypeOK

(* What each step of a run does to it. *)
LEMMA ClaimEffect ==
  ASSUME TypeOK, NEW w \in Workers, NEW scope \in Scopes, Claim(w, scope)
  PROVE  \E mine \in SUBSET Effects :
           /\ \A f \in mine : Claimable(f)
           /\ run[w] = Idle
           /\ run' \in [Workers -> Run]
           /\ run'[w].todo = mine /\ run'[w].ok = {} /\ run'[w].failed = {}
           /\ \A v \in Workers \ {w} : run'[v] = run[v]
           /\ log' = [f \in Effects |-> IF f \in mine THEN "pending" ELSE log[f]]
           /\ calls' = calls /\ lost' = lost
<1> DEFINE mine == {f \in Effects : <<f[1], f[2]>> \in Loaded(scope) /\ Claimable(f)}
           r == [run[w] EXCEPT !.scope = scope, !.todo = mine]
<1>1. /\ run[w] = Idle
      /\ run' = [run EXCEPT ![w].scope = scope, ![w].todo = mine]
      /\ log' = [f \in Effects |-> IF f \in mine THEN "pending" ELSE log[f]]
      /\ calls' = calls /\ lost' = lost
  BY DEF Claim
<1>2. mine \in SUBSET Effects /\ \A f \in mine : Claimable(f)
  OBVIOUS
<1>3. scope \in SUBSET Branches
  BY DEF Scopes
<1> HIDE DEF mine
<1>4. r \in Run /\ r.todo = mine /\ r.ok = {} /\ r.failed = {}
  <2>1. run[w] \in Run /\ run[w].ok = {} /\ run[w].failed = {}
    BY <1>1, IdleTyped
  <2> QED
    BY Zenon, <1>2, <1>3, <2>1 DEF Run
<1>5. run' = [run EXCEPT ![w] = r]
  <2>1. run' = [run EXCEPT ![w].scope = scope, ![w].todo = mine]
    BY <1>1
  <2>2. run \in [Workers -> Run]
    BY DEF TypeOK
  <2> QED
    BY Zenon, <2>1, <2>2
<1> HIDE DEF r
<1>6. /\ run' \in [Workers -> Run] /\ run'[w] = r
      /\ \A v \in Workers \ {w} : run'[v] = run[v]
  BY Zenon, <1>4, <1>5, RunWrite
<1>7. run'[w].todo = mine /\ run'[w].ok = {} /\ run'[w].failed = {}
  BY <1>4, <1>6
<1> QED
  BY Zenon, <1>1, <1>2, <1>6, <1>7

LEMMA ExecuteEffect ==
  ASSUME TypeOK, NEW w \in Workers, NEW f \in Effects,
         ExecuteOk(w, f) \/ ExecuteFails(w, f)
  PROVE  /\ f \in run[w].todo
         /\ run' \in [Workers -> Run]
         /\ run'[w].todo = run[w].todo \ {f}
         /\ \/ /\ run'[w].ok = run[w].ok \cup {f} /\ run'[w].failed = run[w].failed
               /\ calls' = [calls EXCEPT ![f] = IF @ = 0 THEN 1 ELSE 2]
            \/ /\ run'[w].ok = run[w].ok /\ run'[w].failed = run[w].failed \cup {f}
               /\ calls' = calls
         /\ \A v \in Workers \ {w} : run'[v] = run[v]
         /\ log' = log /\ lost' = lost
<1>0. run[w] \in Run
  BY DEF TypeOK
<1>1. CASE ExecuteOk(w, f)
  <2> DEFINE r == [run[w] EXCEPT !.todo = @ \ {f}, !.ok = @ \cup {f}]
  <2>1. /\ f \in run[w].todo /\ run' = [run EXCEPT ![w] = r]
        /\ calls' = [calls EXCEPT ![f] = IF @ = 0 THEN 1 ELSE 2]
        /\ log' = log /\ lost' = lost
    BY Zenon, <1>1 DEF ExecuteOk, IsNext, TypeOK
  <2>2. /\ r \in Run /\ r.todo = run[w].todo \ {f}
        /\ r.ok = run[w].ok \cup {f} /\ r.failed = run[w].failed
    BY Zenon, <1>0 DEF Run
  <2> HIDE DEF r
  <2> QED
    BY Zenon, <2>1, <2>2, RunWrite
<1>2. CASE ExecuteFails(w, f)
  <2> DEFINE r == [run[w] EXCEPT !.todo = @ \ {f}, !.failed = @ \cup {f}]
  <2>1. /\ f \in run[w].todo /\ run' = [run EXCEPT ![w] = r]
        /\ calls' = calls /\ log' = log /\ lost' = lost
    BY Zenon, <1>2 DEF ExecuteFails, IsNext, TypeOK
  <2>2. /\ r \in Run /\ r.todo = run[w].todo \ {f}
        /\ r.ok = run[w].ok /\ r.failed = run[w].failed \cup {f}
    BY Zenon, <1>0 DEF Run
  <2> HIDE DEF r
  <2> QED
    BY Zenon, <2>1, <2>2, RunWrite
<1> QED
  BY <1>1, <1>2

LEMMA EndEffect ==
  ASSUME TypeOK, NEW w \in Workers, Mark(w) \/ Abandon(w)
  PROVE  /\ run' \in [Workers -> Run] /\ run'[w] = Idle
         /\ \A v \in Workers \ {w} : run'[v] = run[v]
         /\ calls' = calls
         /\ \/ /\ lost' = lost
               /\ log' = [f \in Effects |-> IF f \in run[w].ok THEN "succeeded"
                                            ELSE IF f \in run[w].failed THEN "failed"
                                            ELSE log[f]]
               /\ run[w].todo = {}
            \/ log' = log /\ lost' = lost \cup run[w].ok
BY IdleTyped, RunWrite DEF Mark, Abandon

-----------------------------------------------------------------------------
(* Why the log is right: an effect a run is working on has a pending row    *)
(* and no other run works on it, what a run counts as executed did take     *)
(* place, and an outcome is counted once.                                   *)
Claims ==
  \A w \in Workers :
    /\ run[w].todo \cap run[w].ok = {}
    /\ run[w].todo \cap run[w].failed = {}
    /\ run[w].ok \cap run[w].failed = {}
    /\ \A f \in Effects : Owns(w, f) =>
         /\ log[f] = "pending"
         /\ \A v \in Workers \ {w} : ~ Owns(v, f)
    /\ \A f \in run[w].ok : calls[f] > 0

Truthful == TypeOK /\ Claims /\ LogIsTruthful

LEMMA InitTruthful == Init => Truthful
<1> SUFFICES ASSUME Init PROVE Truthful
  OBVIOUS
<1>1. TypeOK
  BY IdleTyped DEF Init, TypeOK
<1>2. Claims
  BY IdleTyped DEF Init, Claims, Owns
<1>3. LogIsTruthful
  BY DEF Init, LogIsTruthful
<1> QED
  BY <1>1, <1>2, <1>3 DEF Truthful

-----------------------------------------------------------------------------
(* One lemma per kind of step *)

LEMMA ClaimKeeps ==
  ASSUME Truthful, NEW w \in Workers, NEW scope \in Scopes, Claim(w, scope)
  PROVE  Truthful'
<1>0. TypeOK /\ Claims /\ LogIsTruthful
  BY DEF Truthful
<1>1. PICK mine \in SUBSET Effects :
        /\ \A f \in mine : Claimable(f)
        /\ run[w] = Idle
        /\ run' \in [Workers -> Run]
        /\ run'[w].todo = mine /\ run'[w].ok = {} /\ run'[w].failed = {}
        /\ \A v \in Workers \ {w} : run'[v] = run[v]
        /\ log' = [f \in Effects |-> IF f \in mine THEN "pending" ELSE log[f]]
        /\ calls' = calls /\ lost' = lost
  BY <1>0, ClaimEffect
<1>2. TypeOK'
  BY <1>0, <1>1 DEF TypeOK
<1>3. \A f \in mine : log[f] \in {"absent", "failed", "stale"}
  BY <1>1 DEF Claimable
<1>4. \A v \in Workers : \A f \in mine : ~ Owns(v, f)
  BY <1>0, <1>3 DEF Claims
<1>5. Claims'
  BY <1>0, <1>1, <1>4 DEF Claims, Owns
<1>6. LogIsTruthful'
  <2>1. \A v \in Workers : run[v].ok = run'[v].ok
    BY Zenon, <1>1, IdleTyped
  <2> QED
    BY <1>0, <1>1, <1>3, <2>1 DEF LogIsTruthful
<1> QED
  BY <1>2, <1>5, <1>6 DEF Truthful

LEMMA ExecuteKeeps ==
  ASSUME Truthful, NEW w \in Workers, NEW f \in Effects,
         ExecuteOk(w, f) \/ ExecuteFails(w, f)
  PROVE  Truthful'
<1>0. TypeOK /\ Claims /\ LogIsTruthful
  BY DEF Truthful
<1>1. /\ f \in run[w].todo
      /\ run' \in [Workers -> Run]
      /\ run'[w].todo = run[w].todo \ {f}
      /\ \/ /\ run'[w].ok = run[w].ok \cup {f} /\ run'[w].failed = run[w].failed
            /\ calls' = [calls EXCEPT ![f] = IF @ = 0 THEN 1 ELSE 2]
         \/ /\ run'[w].ok = run[w].ok /\ run'[w].failed = run[w].failed \cup {f}
            /\ calls' = calls
      /\ \A v \in Workers \ {w} : run'[v] = run[v]
      /\ log' = log /\ lost' = lost
  BY <1>0, ExecuteEffect
<1>2. TypeOK' /\ \A g \in Effects :
                  /\ calls'[g] >= calls[g] /\ calls[g] \in 0 .. 2 /\ calls'[g] \in 0 .. 2
  BY <1>0, <1>1 DEF TypeOK
<1>3. \A v \in Workers : \A g \in Effects : Owns(v, g)' <=> Owns(v, g)
  <2>1. \A g \in Effects : Owns(w, g)' <=> Owns(w, g)
    BY <1>1 DEF Owns
  <2>2. \A v \in Workers \ {w} : \A g \in Effects : Owns(v, g)' <=> Owns(v, g)
    BY <1>1 DEF Owns
  <2> QED
    BY <2>1, <2>2
<1>4. \A v \in Workers : /\ run'[v].todo \cap run'[v].ok = {}
                         /\ run'[v].todo \cap run'[v].failed = {}
                         /\ run'[v].ok \cap run'[v].failed = {}
  BY <1>0, <1>1 DEF Claims
<1>5. \A v \in Workers : \A g \in run'[v].ok : calls'[g] > 0
  <2>1. \A g \in run'[w].ok : calls'[g] > 0
    <3> SUFFICES ASSUME NEW g \in run'[w].ok PROVE calls'[g] > 0
      OBVIOUS
    <3>1. CASE g \in run[w].ok
      <4>1. g \in Effects /\ calls[g] > 0
        BY <1>0, <3>1 DEF TypeOK, Claims, Run
      <4> QED
        BY <1>2, <4>1
    <3>2. CASE g \notin run[w].ok
      BY <1>0, <1>1, <3>2 DEF TypeOK
    <3> QED
      BY <3>1, <3>2
  <2>2. ASSUME NEW v \in Workers \ {w}, NEW g \in run'[v].ok PROVE calls'[g] > 0
    <3>1. g \in Effects /\ calls[g] > 0
      BY <1>0, <1>1, <2>2 DEF TypeOK, Claims, Run
    <3> QED
      BY <1>2, <3>1
  <2> QED
    BY <2>1, <2>2
<1>6. Claims'
  <2>1. \A v \in Workers : \A g \in Effects : Owns(v, g)' =>
          /\ log'[g] = "pending"
          /\ \A x \in Workers \ {v} : ~ Owns(x, g)'
    BY <1>0, <1>1, <1>3 DEF Claims
  <2> QED
    BY <1>4, <1>5, <2>1 DEF Claims
<1>7. LogIsTruthful'
  <2> SUFFICES ASSUME NEW g \in Effects
               PROVE  /\ log[g] = "succeeded" => calls'[g] > 0
                      /\ calls'[g] > 0 /\ log[g] # "succeeded"
                           => g \in lost \/ \E v \in Workers : g \in run'[v].ok
                      /\ calls'[g] > 1 => g \in lost
    BY <1>1 DEF LogIsTruthful
  <2>1. \A v \in Workers : run[v].ok \subseteq run'[v].ok
    BY <1>1
  <2>2. CASE calls'[g] = calls[g]
    BY <1>0, <2>1, <2>2 DEF LogIsTruthful
  <2>3. CASE calls'[g] # calls[g]
    <3>1. g = f /\ g \in run'[w].ok /\ calls'[g] = IF calls[g] = 0 THEN 1 ELSE 2
      BY <1>0, <1>1, <2>3 DEF TypeOK
    <3>2. log[f] = "pending"
      BY <1>0, <1>1 DEF Claims, Owns
    <3>3. ~ \E v \in Workers : f \in run[v].ok
      <4>1. f \notin run[w].ok
        BY <1>0, <1>1 DEF Claims
      <4>2. \A v \in Workers \ {w} : ~ Owns(v, f)
        BY <1>0, <1>1 DEF Claims, Owns
      <4> QED
        BY <4>1, <4>2 DEF Owns
    <3>4. calls[f] > 0 => f \in lost
      BY <1>0, <3>2, <3>3 DEF LogIsTruthful
    <3> QED
      BY <1>2, <3>1, <3>2, <3>4
  <2> QED
    BY <2>2, <2>3
<1> QED
  BY <1>2, <1>6, <1>7 DEF Truthful

LEMMA EndKeeps ==
  ASSUME Truthful, NEW w \in Workers, Mark(w) \/ Abandon(w)
  PROVE  Truthful'
<1>0. TypeOK /\ Claims /\ LogIsTruthful
  BY DEF Truthful
<1>1. /\ run' \in [Workers -> Run] /\ run'[w] = Idle
      /\ \A v \in Workers \ {w} : run'[v] = run[v]
      /\ calls' = calls
      /\ \/ /\ lost' = lost
            /\ log' = [f \in Effects |-> IF f \in run[w].ok THEN "succeeded"
                                         ELSE IF f \in run[w].failed THEN "failed" ELSE log[f]]
            /\ run[w].todo = {}
         \/ log' = log /\ lost' = lost \cup run[w].ok
  BY <1>0, EndEffect
<1>2. TypeOK'
  <2>1. run[w].ok \in SUBSET Effects
    BY <1>0 DEF TypeOK, Run
  <2> QED
    BY <1>0, <1>1, <2>1 DEF TypeOK
<1>3. \A v \in Workers : \A f \in Effects : Owns(v, f)' => v # w /\ Owns(v, f)
  BY <1>1, IdleTyped DEF Owns
<1>4. \A f \in Effects : ~ Owns(w, f) => log'[f] = log[f]
  BY <1>0, <1>1 DEF Owns, TypeOK
<1>5. Claims'
  <2>1. \A v \in Workers : \A f \in Effects : Owns(v, f)' =>
          /\ log'[f] = "pending"
          /\ \A x \in Workers \ {v} : ~ Owns(x, f)'
    BY <1>0, <1>3, <1>4 DEF Claims
  <2>2. \A v \in Workers : /\ run'[v].todo \cap run'[v].ok = {}
                           /\ run'[v].todo \cap run'[v].failed = {}
                           /\ run'[v].ok \cap run'[v].failed = {}
                           /\ \A f \in run'[v].ok : calls'[f] > 0
    BY <1>0, <1>1, IdleTyped DEF Claims
  <2> QED
    BY <2>1, <2>2 DEF Claims
<1>6. LogIsTruthful'
  <2> SUFFICES ASSUME NEW f \in Effects
               PROVE  /\ log'[f] = "succeeded" => calls[f] > 0
                      /\ calls[f] > 0 /\ log'[f] # "succeeded"
                           => f \in lost' \/ \E v \in Workers : f \in run'[v].ok
                      /\ calls[f] > 1 => f \in lost'
    BY <1>1 DEF LogIsTruthful
  <2>1. /\ log[f] = "succeeded" => calls[f] > 0
        /\ calls[f] > 0 /\ log[f] # "succeeded"
             => f \in lost \/ \E v \in Workers : f \in run[v].ok
        /\ calls[f] > 1 => f \in lost
    BY <1>0 DEF LogIsTruthful
  <2>2. lost \subseteq lost'
    BY <1>1
  <2>3. CASE f \in run[w].ok
    <3>1. calls[f] > 0 /\ (log'[f] = "succeeded" \/ f \in lost')
      BY <1>0, <1>1, <2>3 DEF Claims
    <3> QED
      BY <2>1, <2>2, <3>1
  <2>4. CASE f \notin run[w].ok
    <3>1. \A v \in Workers : f \in run[v].ok => f \in run'[v].ok
      BY <1>1, <2>4
    <3>2. CASE log'[f] = log[f]
      BY <2>1, <2>2, <3>1, <3>2
    <3>3. CASE log'[f] # log[f]
      <4>1. f \in run[w].failed /\ log'[f] = "failed"
        BY <1>0, <1>1, <2>4, <3>3 DEF TypeOK
      <4>2. log[f] = "pending" /\ \A v \in Workers \ {w} : ~ Owns(v, f)
        BY <1>0, <4>1 DEF Claims, Owns
      <4> QED
        BY <2>1, <2>2, <2>4, <4>1, <4>2 DEF Owns
    <3> QED
      BY <3>2, <3>3
  <2> QED
    BY <2>3, <2>4
<1> QED
  BY <1>2, <1>5, <1>6 DEF Truthful

LEMMA ExpireKeeps ==
  ASSUME ~ SlowWorkers, Truthful, NEW f \in Effects, Expire(f)
  PROVE  Truthful'
<1>1. /\ log[f] = "pending" /\ \A w \in Workers : ~ Owns(w, f)
      /\ log' = [log EXCEPT ![f] = "stale"]
      /\ run' = run /\ calls' = calls /\ lost' = lost
  BY DEF Expire
<1>2. TypeOK'
  BY <1>1 DEF Truthful, TypeOK
<1>3. Claims'
  BY <1>1 DEF Truthful, TypeOK, Claims, Owns
<1>4. LogIsTruthful'
  BY <1>1 DEF Truthful, TypeOK, LogIsTruthful
<1> QED
  BY <1>2, <1>3, <1>4 DEF Truthful

LEMMA TruthfulStep == ASSUME ~ SlowWorkers PROVE Truthful /\ [Next]_vars => Truthful'
<1> SUFFICES ASSUME Truthful, [Next]_vars PROVE Truthful'
  OBVIOUS
<1>1. CASE UNCHANGED vars \/ \E b \in Branches : Publish(b)
  <2>1. log' = log /\ run' = run /\ calls' = calls /\ lost' = lost
    BY <1>1 DEF vars, Publish
  <2> QED
    BY <2>1 DEF Truthful, TypeOK, Claims, LogIsTruthful, Owns
<1>2. ASSUME NEW w \in Workers, Work(w) \/ Abandon(w) PROVE Truthful'
  BY <1>2, ClaimKeeps, ExecuteKeeps, EndKeeps DEF Work
<1>3. ASSUME NEW f \in Effects, Expire(f) PROVE Truthful'
  BY <1>3, ExpireKeeps
<1> QED
  BY <1>1, <1>2, <1>3 DEF Next

-----------------------------------------------------------------------------
(* Theorems *)

(* The delivery log agrees with what took place, for any number of          *)
(* overlapping processPending runs, whatever fails or dies: a row that says *)
(* 'succeeded' is right, any other hides no confirmed effect, and an effect *)
(* took place twice only if a run that had executed it never confirmed.     *)
(* The hypothesis is the one stalePendingAfterMs is chosen for: without it  *)
(* a slow run is overtaken and the statement is false.                      *)
THEOREM LogStaysTruthful == ASSUME ~ SlowWorkers PROVE Spec => []LogIsTruthful
<1>1. Truthful => LogIsTruthful
  BY DEF Truthful
<1> QED
  BY <1>1, InitTruthful, TruthfulStep, PTL DEF Spec

(* No claim reopens and no late confirmation overwrites a row that says     *)
(* 'succeeded' (claimSideEffect, markSideEffect).                           *)
THEOREM SucceededStays == ASSUME ~ SlowWorkers PROVE Spec => SucceededIsFinal
<1>1. Truthful /\ [Next]_vars =>
        [\A f \in Effects : log[f] = "succeeded" => log'[f] = "succeeded"]_vars
  <2> SUFFICES ASSUME Truthful, Next, NEW f \in Effects, log[f] = "succeeded"
               PROVE  log'[f] = "succeeded"
    OBVIOUS
  <2>0. TypeOK /\ Claims
    BY DEF Truthful
  <2>1. ASSUME NEW b \in Branches, Publish(b) PROVE log'[f] = "succeeded"
    BY <2>1 DEF Publish
  <2>2. ASSUME NEW w \in Workers, NEW scope \in Scopes, Claim(w, scope)
        PROVE  log'[f] = "succeeded"
    BY <2>0, <2>2, ClaimEffect DEF Claimable
  <2>3. ASSUME NEW w \in Workers, NEW g \in Effects, ExecuteOk(w, g) \/ ExecuteFails(w, g)
        PROVE  log'[f] = "succeeded"
    BY <2>0, <2>3, ExecuteEffect
  <2>4. ASSUME NEW w \in Workers, Mark(w) \/ Abandon(w) PROVE log'[f] = "succeeded"
    <3>1. ~ Owns(w, f)
      BY <2>0 DEF Claims
    <3> QED
      BY <2>0, <2>4, <3>1, EndEffect DEF Owns
  <2>5. ASSUME NEW g \in Effects, Expire(g) PROVE log'[f] = "succeeded"
    BY <2>0, <2>5 DEF Expire, TypeOK
  <2> QED
    BY <2>1, <2>2, <2>3, <2>4, <2>5 DEF Next, Work
<1> QED
  BY <1>1, InitTruthful, TruthfulStep, PTL DEF Spec, SucceededIsFinal
=============================================================================
