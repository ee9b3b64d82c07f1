---------------------------- MODULE Workflow ----------------------------
(* One order moving through the tenant's workflow while administrators      *)
(* change that workflow.  Item moves and voids are REPEATABLE READ           *)
(* transactions that bump the order's revision: of two that overlap, the     *)
(* second to finish fails.  The order's status is derived from its items.    *)
EXTENDS Integers, FiniteSets, Sequences, TLC

CONSTANTS Sessions,     \* concurrent transactions
          Items,        \* the order's items
          TopLevel,     \* top-level states, named by their kind
          SubStates,    \* sub-states that may be added
          KindOf,       \* state -> its kind
          First,        \* the state items are created in
          Start,        \* top-level state -> its position at first
          Positions,    \* positions an administrator may give
          MaxEvents, MaxChanges

VARIABLES wf,        \* existing state -> [position, enabled]
          status,    \* item -> its state
          voided,    \* voided items
          order,     \* the order's derived status
          revision,  \* the order's revision
          events,    \* order_item_status_events
          tx,        \* session -> its transaction
          changes

vars == <<wf, status, voided, order, revision, events, tx, changes>>

Idle == [op |-> "idle"]
Snapshot == [wf |-> wf, revision |-> revision]

Enabled(w, s) == s \in DOMAIN w /\ w[s].enabled
IsTop(s) == s \in TopLevel

----------------------------------------------------------------------------
isFamilyMove(from, to) == KindOf[from] = KindOf[to] /\ ~(IsTop(from) /\ IsTop(to))

isTransitionAllowed(w, from, to) ==
  /\ from # to /\ Enabled(w, from) /\ Enabled(w, to)
  /\ w[to].position > w[from].position \/ isFamilyMove(from, to)

RootKinds(st, gone) == {KindOf[st[i]] : i \in Items \ gone}

(* recompute_order_status: the earliest top-level state among the root kinds  *)
(* of the live items; kinds without a top-level state drop out of the join.   *)
recompute(w, st, gone, current) ==
  LET tops == {s \in DOMAIN w : IsTop(s) /\ KindOf[s] \in RootKinds(st, gone)}
  IN IF tops = {} THEN current
     ELSE CHOOSE s \in tops : \A o \in tops : w[s].position <= w[o].position

(* The transaction's snapshot is taken, and the item checked: it is live, and *)
(* the target is reachable in the enabled sequence.                           *)
BeginMove(c, i, to) ==
  /\ tx[c] = Idle /\ Len(events) < MaxEvents
  /\ i \notin voided /\ isTransitionAllowed(wf, status[i], to)
  /\ tx' = [tx EXCEPT ![c] = [op |-> "move", item |-> i, from |-> status[i], to |-> to, snap |-> Snapshot]]
  /\ UNCHANGED <<wf, status, voided, order, revision, events, changes>>

(* voidOrderItem; the trigger on order_items lets no row be updated whose     *)
(* state is disabled, so a void of such an item fails.                        *)
BeginVoid(c, i) ==
  /\ tx[c] = Idle /\ i \notin voided /\ Enabled(wf, status[i])
  /\ tx' = [tx EXCEPT ![c] = [op |-> "void", item |-> i, to |-> status[i], snap |-> Snapshot]]
  /\ UNCHANGED <<wf, status, voided, order, revision, events, changes>>

Abort(c) ==
  /\ tx' = [tx EXCEPT ![c] = Idle]
  /\ UNCHANGED <<wf, status, voided, order, revision, events, changes>>

(* Slip: the order is neither locked nor bumped. *)
SerializedNot(t) == TRUE

(* lockOrder and bumpOrderRevision on a row changed since the snapshot fail. *)
Serialized(t) == revision = t.snap.revision

(* The event row, its two triggers, and COMMIT; the foreign keys fail when a   *)
(* state it names is gone.                                                     *)
Finish(c) ==
  LET t == tx[c]
      st == IF t.op = "move" THEN [status EXCEPT ![t.item] = t.to] ELSE status
      gone == IF t.op = "void" THEN voided \cup {t.item} ELSE voided
      target == recompute(t.snap.wf, st, gone, order) IN
  /\ t.op \in {"move", "void"}
  /\ IF Serialized(t) /\ t.to \in DOMAIN wf /\ target \in DOMAIN wf
       THEN /\ status' = st /\ voided' = gone /\ order' = target /\ revision' = revision + 1
            /\ events' = IF t.op = "void" THEN events
                         ELSE Append(events, [item |-> t.item, from |-> t.from, to |-> t.to])
            /\ tx' = [tx EXCEPT ![c] = Idle]
            /\ UNCHANGED <<wf, changes>>
       ELSE Abort(c)

----------------------------------------------------------------------------
(* Administration; a position is unique within the workflow. *)
Free(p) == \A s \in DOMAIN wf : wf[s].position # p
Change == changes < MaxChanges /\ changes' = changes + 1
Others == UNCHANGED <<status, voided, order, revision, events, tx>>

(* A sub-state may only refine a kind that has its enabled top-level state. *)
addState(s, p) ==
  /\ Change /\ s \notin DOMAIN wf /\ Free(p)
  /\ ~IsTop(s) => \E t \in TopLevel : KindOf[t] = KindOf[s] /\ Enabled(wf, t)
  /\ wf' = wf @@ (s :> [position |-> p, enabled |-> TRUE])
  /\ Others

setStateEnabled(s, b) ==
  /\ Change /\ wf[s].enabled # b
  /\ wf' = [wf EXCEPT ![s].enabled = b]
  /\ Others

reorderState(s, p) ==
  /\ Change /\ Free(p)
  /\ wf' = [wf EXCEPT ![s].position = p]
  /\ Others

(* countWorkflowStateReferences; the first event of every item names First. *)
Referenced(s) ==
  \/ s = First \/ order = s \/ \E i \in Items : status[i] = s
  \/ \E n \in DOMAIN events : s \in {events[n].from, events[n].to}

BeginDelete(c, s) ==
  /\ Change /\ tx[c] = Idle /\ ~Referenced(s)
  /\ tx' = [tx EXCEPT ![c] = [op |-> "delete", to |-> s, snap |-> Snapshot]]
  /\ UNCHANGED <<wf, status, voided, order, revision, events>>

Delete(c, s) ==
  /\ wf' = [o \in DOMAIN wf \ {s} |-> wf[o]]
  /\ tx' = [tx EXCEPT ![c] = Idle]
  /\ UNCHANGED <<status, voided, order, revision, events, changes>>

(* Slip: the count of the snapshot is the only guard. *)
FinishDeleteCounted(c) ==
  LET t == tx[c] IN
  /\ t.op = "delete"
  /\ IF t.to \in DOMAIN wf /\ wf[t.to] = t.snap.wf[t.to] THEN Delete(c, t.to) ELSE Abort(c)

(* DELETE: refused by ON DELETE RESTRICT when a row referring to the state     *)
(* was committed meanwhile, and by REPEATABLE READ when the state changed.     *)
FinishDelete(c) ==
  LET t == tx[c] IN
  /\ t.op = "delete"
  /\ IF t.to \in DOMAIN wf /\ wf[t.to] = t.snap.wf[t.to] /\ ~Referenced(t.to)
       THEN Delete(c, t.to) ELSE Abort(c)

----------------------------------------------------------------------------
Init ==
  /\ wf = [s \in TopLevel |-> [position |-> Start[s], enabled |-> TRUE]]
  /\ status = [i \in Items |-> First] /\ voided = {} /\ order = First /\ revision = 0
  /\ events = <<>> /\ tx = [c \in Sessions |-> Idle] /\ changes = 0

Next ==
  \/ \E c \in Sessions :
       \/ \E i \in Items : BeginVoid(c, i) \/ \E to \in TopLevel \cup SubStates : BeginMove(c, i, to)
       \/ \E s \in DOMAIN wf : BeginDelete(c, s)
       \/ Finish(c) \/ FinishDelete(c)
  \/ \E s \in TopLevel \cup SubStates, p \in Positions : addState(s, p)
  \/ \E s \in DOMAIN wf : (\E b \in BOOLEAN : setStateEnabled(s, b)) \/ \E p \in Positions : reorderState(s, p)

----------------------------------------------------------------------------
(* Nothing ever points at a state that does not exist, although the count     *)
(* that precedes a deletion is taken before other transactions commit.         *)
NoDanglingStatus ==
  /\ order \in DOMAIN wf
  /\ \A i \in Items : status[i] \in DOMAIN wf
  /\ \A n \in DOMAIN events : events[n].from \in DOMAIN wf /\ events[n].to \in DOMAIN wf

(* The ledger of status events is the truth about every item: its events form *)
(* a chain from the first state to the item's current one, however moves of    *)
(* the same item overlap.                                                      *)
LedgerIsAChain ==
  \A i \in Items :
    LET mine == SelectSeq(events, LAMBDA e : e.item = i) IN
    /\ \A n \in DOMAIN mine : mine[n].from = IF n = 1 THEN First ELSE mine[n - 1].to
    /\ status[i] = IF mine = <<>> THEN First ELSE mine[Len(mine)].to
============================================================================
