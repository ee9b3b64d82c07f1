------------------------------- MODULE Stock --------------------------------
(***************************************************************************)
(* Order creation and the stock of one branch: the pre-flight read, the     *)
(* manager's challenge, the write transaction with its triggers, manual     *)
(* receiving and adjustment, and the restoration by a void or a refund.     *)
(* Write transactions are REPEATABLE READ: a row that changed after the     *)
(* snapshot cannot be locked any more (40001), a wait that closes a cycle   *)
(* is broken (40P01), a long one given up (55P03).                          *)
(***************************************************************************)
EXTENDS Integers, Sequences, SequencesExt, FiniteSets, FiniteSetsExt, Functions

CONSTANTS
  Clients,    \* requests that may be in flight at once
  Items,      \* inventory_items of the branch
  Recipes,    \* what an order may need: sequences of [item, qty] in the order of its lines
  Initial,    \* quantity of every item at the start
  Threshold,  \* low_stock_threshold of every item
  Deltas,     \* quantities received or adjusted
  Approvals,  \* successful manual_adjustment attempts a caller may present
  Challenged, \* whether an order comes with a manager's challenge: a set of Booleans
  Restorations, \* what gives an order's stock back: pairs, a void or a refund, fired or not
  MaxRequests \* bound: orders and manual movements requested

VARIABLES
  stock,     \* current_quantity
  orders,    \* orders committed: their sale deductions, and whether restored
  claims,    \* stock_override_claims and manual_adjustment_override_claims: attempt, what it pays for
  attempts,  \* successful stock_override attempts so far
  events,    \* inventory_events_outbox: per item, how often it was announced as low
  tx,        \* the requests in flight
  requests   \* orders and manual movements requested so far

vars == <<stock, orders, claims, attempts, events, tx, requests>>

None == <<"none">>
NoTx == [pc |-> "idle"]
NoDelta == [i \in Items |-> 0]

Init ==
  /\ stock = [i \in Items |-> Initial]
  /\ orders = <<>>
  /\ claims = {}
  /\ attempts = 0
  /\ events = NoDelta
  /\ tx = [c \in Clients |-> NoTx]
  /\ requests = 0

(* aggregateRequiredMinor: what a whole order needs of a component. *)
Required(needs, i) ==
  FoldSeq(LAMBDA n, sum : sum + (IF n.item = i THEN n.qty ELSE 0), 0, needs)

(* findShortage: a component without a row at the branch counts as zero.    *)
findShortage(needs, quantities) ==
  \E n \in Range(needs) :
    (IF n.item \in Items THEN quantities[n.item] ELSE 0) - Required(needs, n.item) < 0

Drop(c) == tx' = [tx EXCEPT ![c] = NoTx]

StartOrder(c, challenged) ==
  /\ tx[c].pc = "idle"
  /\ requests < MaxRequests
  /\ requests' = requests + 1
  /\ tx' = [tx EXCEPT ![c] = [pc |-> "preflight", challenged |-> challenged]]
  /\ UNCHANGED <<stock, orders, claims, attempts, events>>

(* Steps 1 and 2: one read transaction; a shortage is refused unless a      *)
(* manager who holds the permission answers the challenge, which commits    *)
(* on its own.  The recipe is edited and the permission changes between any *)
(* two reads, so each read finds its own.                                   *)
Preflight(c, recipe, approver) ==
  LET short == findShortage(recipe, stock)
      approved == short /\ tx[c].challenged /\ approver
  IN /\ tx[c].pc = "preflight"
     /\ attempts' = IF approved THEN attempts + 1 ELSE attempts
     /\ IF short /\ ~approved THEN Drop(c)
        ELSE tx' = [tx EXCEPT ![c] = [pc |-> "write", attempt |-> IF approved THEN <<"stock", attempts + 1>> ELSE None]]
     /\ UNCHANGED <<stock, orders, claims, events, requests>>

(* A challenge that fails. *)
RefuseChallenge(c, recipe) ==
  /\ tx[c].pc = "preflight" /\ tx[c].challenged
  /\ findShortage(recipe, stock)
  /\ Drop(c)
  /\ UNCHANGED <<stock, orders, claims, attempts, events, requests>>

ItemRow(i)  == <<"item", i>>
OrderRow(o) == <<"order", o>>
SeqRow      == <<"order_event_sequence">>
EventRow    == <<"inventory_event_sequence">>
ClaimKey(a) == <<"claim", a>>

Lock(row)   == [row |-> row, item |-> "none", delta |-> 0]
Move(i, d)  == [row |-> ItemRow(i), item |-> i, delta |-> d]

(* A write transaction with its snapshot and the rows it will lock, in order.*)
Run(op, attempt, approver, order, sold, todo) ==
  [pc |-> "run", op |-> op, attempt |-> attempt, order |-> order, sold |-> sold, todo |-> todo, held |-> {},
   stale |-> {}, snap |-> stock, delta |-> NoDelta, low |-> NoDelta, approved |-> approver]

Deductions(needs) == [k \in DOMAIN needs |-> Move(needs[k].item, -needs[k].qty)]

(* Step 3: fresh recipe and quantities.  A shortage that has no attempt is   *)
(* refused; with one, every component must still exist at the branch.  The  *)
(* initial event of the order locks the sequence of the branch first.       *)
BeginWrite(c, recipe, approver) ==
  /\ tx[c].pc = "write"
  /\ IF \/ findShortage(recipe, stock) /\ tx[c].attempt = None
        \/ tx[c].attempt # None /\ \E n \in Range(recipe) : n.item \notin Items
     THEN Drop(c)
     ELSE tx' = [tx EXCEPT ![c] =
                   Run("create", tx[c].attempt, tx[c].attempt = None \/ approver, Len(orders), recipe, <<Lock(SeqRow)>> \o Deductions(recipe))]
  /\ UNCHANGED <<stock, orders, claims, attempts, events, requests>>

(* receiveStock and adjustStock: one movement.  A negative adjustment claims *)
(* the approval the caller presents; the claim has the approval as its key.  *)
StartMove(c, i, d, a, approver) ==
  /\ tx[c].pc = "idle"
  /\ requests < MaxRequests
  /\ requests' = requests + 1
  /\ tx' = [tx EXCEPT ![c] =
       IF d > 0 THEN Run("move", None, TRUE, 0, <<>>, <<Move(i, d)>>)
       ELSE Run("move", <<"manual", a>>, approver, requests', <<>>, <<Lock(ClaimKey(a)), Move(i, d)>>)]
  /\ UNCHANGED <<stock, orders, claims, attempts, events>>

(* writeVoidStockMovements and writeRefundStockMovements: the recorded      *)
(* deductions come back, or are waste when the kitchen had begun, under the *)
(* lock of the order.  A void has appended its events before, a refund      *)
(* appends none.                                                            *)
StartRestore(c, o, void, fired) ==
  LET sold == orders[o].sold
      back == [k \in DOMAIN sold |-> Move(sold[k].item, IF fired THEN 0 ELSE sold[k].qty)]
  IN /\ tx[c].pc = "idle"
     /\ ~orders[o].restored
     /\ tx' = [tx EXCEPT ![c] = Run("restore", None, TRUE, o, sold,
                 <<Lock(OrderRow(o))>> \o (IF void THEN <<Lock(SeqRow)>> ELSE <<>>) \o back)]
     /\ UNCHANGED <<stock, orders, claims, attempts, events, requests>>

HolderOf(row) == {d \in Clients : tx[d].pc = "run" /\ row \in tx[d].held}
Waits(c, d) == tx[c].pc = "run" /\ tx[c].todo # <<>> /\ d \in HolderOf(Head(tx[c].todo).row) \ {c}

(* Slip: announced whenever the balance is below the threshold. *)
CrossesLow(before, after) == after < Threshold

(* emit_low_stock_crossing: on the edge only. *)
Crosses(before, after) == before >= Threshold /\ after < Threshold

(* validate_stock_movement and the key of the claims: why the database      *)
(* would refuse a step.                                                     *)
Refusals(t, step) ==
  {why \in {"claimed", "missing", "revoked", "shortage"} :
     CASE why = "claimed"  -> t.op = "move" /\ t.attempt # None /\ step.item = "none" /\ \E k \in claims : k[1] = t.attempt
       [] why = "missing"  -> step.item \notin Items \cup {"none"}
       [] why = "revoked"  -> step.item # "none" /\ t.attempt # None /\ ~t.approved
       [] why = "shortage" -> /\ t.op = "create" /\ t.attempt = None /\ step.item \in Items
                              /\ t.snap[step.item] + t.delta[step.item] + step.delta < 0}

(* The transaction after a step: a movement changes its view of the balance *)
(* (apply_stock_movement), and one that crosses the threshold goes on to    *)
(* the sequence of the inventory events.                                    *)
Taken(t, step) ==
  LET before == t.snap[step.item] + t.delta[step.item]
      low == step.item # "none" /\ Crosses(before, before + step.delta)
  IN [t EXCEPT !.held = @ \cup {step.row},
               !.todo = (IF low THEN <<Lock(EventRow)>> ELSE <<>>) \o Tail(@),
               !.low = IF low THEN [@ EXCEPT ![step.item] = @ + 1] ELSE @,
               !.delta = IF step.item = "none" THEN @ ELSE [@ EXCEPT ![step.item] = @ + step.delta]]

(* Slip: rows that changed after the snapshot are taken all the same. *)
TakeStale(c) ==
  LET t == tx[c]
      step == Head(t.todo)
  IN /\ t.pc = "run" /\ t.todo # <<>>
     /\ HolderOf(step.row) \subseteq {c}
     /\ IF Refusals(t, step) # {} THEN Drop(c) ELSE tx' = [tx EXCEPT ![c] = Taken(t, step)]
     /\ UNCHANGED <<stock, orders, claims, attempts, events, requests>>

(* Slip: a serialization failure is swallowed and the transaction left open. *)
TakeSwallowing(c) ==
  LET t == tx[c]
      step == Head(t.todo)
  IN /\ t.pc = "run" /\ t.todo # <<>>
     /\ HolderOf(step.row) \subseteq {c}
     /\ step.row \notin t.stale
     /\ IF Refusals(t, step) # {} THEN Drop(c) ELSE tx' = [tx EXCEPT ![c] = Taken(t, step)]
     /\ UNCHANGED <<stock, orders, claims, attempts, events, requests>>

(* The next row is locked; one that changed since the snapshot is a         *)
(* serialization failure, and a trigger may refuse the movement.            *)
Take(c) ==
  LET t == tx[c]
      step == Head(t.todo)
  IN /\ t.pc = "run" /\ t.todo # <<>>
     /\ HolderOf(step.row) \subseteq {c}
     /\ IF step.row \in t.stale \/ Refusals(t, step) # {} THEN Drop(c)
        ELSE tx' = [tx EXCEPT ![c] = Taken(t, step)]
     /\ UNCHANGED <<stock, orders, claims, attempts, events, requests>>

(* Two requests that wait for each other. *)
InCycle(c) == \E d \in Clients \ {c} : Waits(c, d) /\ Waits(d, c)

(* 40P01: the transaction that finds the cycle gives way. *)
BreakDeadlock(c) ==
  /\ InCycle(c)
  /\ Drop(c)
  /\ UNCHANGED <<stock, orders, claims, attempts, events, requests>>

(* 55P03: lock_timeout, and any other failure before the commit. *)
GiveUp(c) ==
  /\ \E d \in Clients : Waits(c, d)
  /\ Drop(c)
  /\ UNCHANGED <<stock, orders, claims, attempts, events, requests>>

(* The other transactions can no longer lock what this one wrote. *)
Commit(c) ==
  LET t == tx[c]
  IN /\ t.pc = "run" /\ t.todo = <<>>
     /\ stock' = [i \in Items |-> stock[i] + t.delta[i]]
     /\ orders' = CASE t.op = "create" -> Append(orders, [sold |-> t.sold, attempt |-> t.attempt, restored |-> FALSE])
                    [] t.op = "restore" -> [orders EXCEPT ![t.order].restored = TRUE]
                    [] OTHER -> orders
     /\ claims' = IF t.attempt = None THEN claims
                    ELSE claims \cup {<<t.attempt, IF t.op = "create" THEN Len(orders') ELSE t.order>>}
     /\ events' = [i \in Items |-> events[i] + t.low[i]]
     /\ tx' = [d \in Clients |-> IF d = c THEN NoTx
                 ELSE IF tx[d].pc = "run" THEN [tx[d] EXCEPT !.stale = @ \cup t.held] ELSE tx[d]]
     /\ UNCHANGED <<attempts, requests>>

Write(c) == \E r \in Recipes, held \in BOOLEAN : BeginWrite(c, r, held)
Check(c) == \E r \in Recipes, held \in BOOLEAN : Preflight(c, r, held)

Next ==
  \E c \in Clients :
    \/ \E b \in Challenged : StartOrder(c, b)
    \/ \E i \in Items, d \in Deltas, a \in Approvals, held \in BOOLEAN : StartMove(c, i, d, a, held)
    \/ \E o \in DOMAIN orders, r \in Restorations : StartRestore(c, o, r[1], r[2])
    \/ \E r \in Recipes : RefuseChallenge(c, r)
    \/ Check(c) \/ Write(c)
    \/ Take(c) \/ BreakDeadlock(c) \/ GiveUp(c) \/ Commit(c)

-----------------------------------------------------------------------------
(* Properties *)

(* "a negative balance is a fully-controlled side effect of documented      *)
(* override evidence": an order takes a component below zero only with an   *)
(* attempt that was claimed for it, however pre-flight, recipe edits and    *)
(* other movements interleave.                                              *)
NegativeNeedsOverride ==
  [][\A i \in Items : orders' # orders /\ stock'[i] < stock[i] /\ stock'[i] < 0
       => \E a \in 1 .. attempts : <<<<"stock", a>>, Len(orders')>> \in claims' \ claims]_vars

(* One event per crossing of the threshold, whichever movements crossed it, *)
(* none for a balance that was low already.                                 *)
CrossingAnnouncedOnce ==
  [][\A i \in Items :
       events'[i] = events[i] + (IF stock[i] >= Threshold /\ stock'[i] < Threshold THEN 1 ELSE 0)]_vars

(* Orders take the sequence of the branch and then stock rows in the order  *)
(* of their lines, refunds take stock rows alone: they can meet in opposite *)
(* orders, and no request waits for ever all the same.                      *)
RequestEnds(c) == tx[c].pc = "run" ~> tx[c].pc = "idle"
=============================================================================
