----------------------------- MODULE MCProgress -----------------------------
(* Small instances of the components in which somebody waits: for a row lock,  *)
(* a connection or a worker.  They share no state, so that a behaviour           *)
(* exercises one of them, its focus, while the others stand still.               *)
EXTENDS TokenFamilies, Connections

VARIABLES focus,
          stock, orders, claims, attempts, events, request, requests,
          published, log, run, faults, calls, lost

N(i, q) == [item |-> i, qty |-> q]

Store   == INSTANCE Stock WITH
             tx <- request, Clients <- {1, 2}, Items <- {"a", "b"},
             Recipes <- {<<N("a", 1), N("b", 1)>>, <<N("b", 1), N("a", 1)>>},
             Initial <- 2, Threshold <- 0, Deltas <- {}, Approvals <- {}, Challenged <- {FALSE},
             Restorations <- {<<TRUE, FALSE>>, <<FALSE, FALSE>>}, MaxRequests <- 2
(* Three calls compete for one connection, or two have one each. *)
Roomy   == INSTANCE Connections WITH Calls <- {"c1", "c2"}, PoolMax <- 2
Effects == INSTANCE SideEffects WITH
             Workers <- {"w1", "w2"}, Branches <- {1},
             MaxEvents <- 2, Types <- {1}, Batch <- 2, MaxFaults <- 2, SlowWorkers <- TRUE

storeVars == <<stock, orders, claims, attempts, events, request, requests>>
effectsVars == <<published, log, run, faults, calls, lost>>
MCvars == <<focus, familyVars, vars, storeVars, effectsVars>>

MCInit ==
  /\ focus \in {"refresh", "context", "roomy", "stock", "effects"}
  /\ IF focus = "roomy" THEN Roomy!Init ELSE Init
  /\ FamilyInit /\ Store!Init /\ Effects!Init

MCNext ==
  /\ UNCHANGED focus
  /\ IF focus = "refresh" THEN FamilyNext ELSE UNCHANGED familyVars
  /\ CASE focus = "context" -> Next
       [] focus = "roomy" -> Roomy!Next
       [] OTHER -> UNCHANGED vars
  /\ IF focus = "stock" THEN Store!Next ELSE UNCHANGED storeVars
  /\ IF focus = "effects" THEN Effects!Next ELSE UNCHANGED effectsVars

(* A call that is not blocked goes on; PostgreSQL grants a row lock in the      *)
(* order of asking, and the timer of the pool ends a wait for a connection.     *)
Fairness ==
  /\ \A d \in Devices :
       /\ WF_familyVars(focus = "refresh" /\ RefreshStep(d))
       /\ SF_familyVars(focus = "refresh" /\ LockRow(d))
       /\ SF_familyVars(focus = "refresh" /\ ReplayKill(d))
  /\ \A c \in Calls :
       /\ WF_vars(focus = "context" /\ Step(c))
       /\ WF_vars(focus = "context" /\ Return(c))
       /\ WF_vars(focus = "context" /\ ConnectTimeout(c))
  /\ \A c \in {"c1", "c2"} :
       /\ WF_vars(focus = "roomy" /\ Roomy!Step(c))
       /\ WF_vars(focus = "roomy" /\ Roomy!Return(c))
       /\ WF_vars(focus = "roomy" /\ Roomy!ConnectTimeout(c))
  /\ \A c \in {1, 2} :
       /\ WF_storeVars(focus = "stock" /\ (Store!Check(c) \/ Store!Write(c) \/ Store!Commit(c)
                                               \/ Store!BreakDeadlock(c)))
       /\ SF_storeVars(focus = "stock" /\ Store!Take(c))
  /\ \A w \in {"w1", "w2"} :
       /\ WF_effectsVars(focus = "effects" /\ Effects!Claim(w, {1}))
       /\ WF_effectsVars(focus = "effects" /\ \E f \in Effects!Effects : Effects!ExecuteOk(w, f) \/ Effects!ExecuteFails(w, f))
       /\ WF_effectsVars(focus = "effects" /\ Effects!Mark(w))
  /\ \A f \in Effects!Effects : WF_effectsVars(focus = "effects" /\ Effects!Expire(f))

MCSpec == MCInit /\ [][MCNext]_MCvars /\ Fairness

-----------------------------------------------------------------------------
(* Devices, calls and clients are interchangeable, so that one of each is     *)
(* followed.  No refresh waits for a row lock for ever (rotate).               *)
EveryRefreshAnswered == RefreshAnswered(1)

(* No path of withTenantContext leaks a connection: every call is answered,    *)
(* and every connection comes back, although calls wait for one while they      *)
(* hold another (createPool).                                                   *)
EveryCallAnswered == CallAnswered("c1") /\ \A k \in {1, 2} : ConnectionReturns(k)

(* Orders, refunds and voids lock stock rows in different orders, and none of  *)
(* them waits for ever.                                                         *)
EveryRequestEnds == Store!RequestEnds(1)

(* Every side effect of a committed event is delivered in the end, although    *)
(* runs fail, die and overlap (processPending).                                 *)
EveryEffectDelivered == Effects!EveryEffectDelivered
=============================================================================
