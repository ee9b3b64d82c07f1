--------------------------- MODULE OrderPayments ---------------------------
(***************************************************************************)
(* Orders, payments, discounts and cashier shifts under the lock-first      *)
(* discipline of the stores: every mutation is one REPEATABLE READ          *)
(* transaction that locks the order row first, the shift or coupon row      *)
(* second, and updates every row it locked.  A transaction reads from the   *)
(* snapshot taken by its first statement; locking a row that another        *)
(* transaction has updated since that snapshot fails with 40001.            *)
(*                                                                          *)
(* A refusal (a failed check, a trigger, 40001, a timeout) throws, and the  *)
(* tenant-context wrapper rolls the transaction back: every refusal is the  *)
(* one action Rollback, and the guards below are what a step needs to go    *)
(* on.                                                                      *)
(***************************************************************************)
EXTENDS Integers, FiniteSets, Folds

CONSTANTS
  Clients,      \* request handlers that run concurrently
  Orders,       \* orders that exist already
  Lines,        \* order lines
  ItemsOf,      \* [Orders -> SUBSET Lines], the lines each order was created with
  Price,        \* [Lines -> Nat], unit price times quantity, in minor units
  Branches,
  BranchOf,     \* [Orders -> Branches]
  Cashiers,
  ShiftIds,     \* bound: shifts that may ever be opened
  PaymentIds,   \* bound: payments that may ever be recorded
  DiscountIds,  \* bound: discount rows that may ever be recorded
  Keys,         \* idempotency keys clients may send
  NoKey,        \* the request carries no idempotency key
  Coupons,
  NoCoupon,     \* a manual discount
  MaxUses,      \* coupons.max_uses
  Cap,          \* the actor's fixed-amount discount cap
  Stacking,     \* tenants.allow_discount_stacking
  Methods,      \* payment methods, "cash" and "card"
  Amounts,      \* amounts a client may tender or ask as a discount
  MaxMoney,     \* the largest magnitude a numeric(18,2) column holds
  Ops,          \* the kinds of request this instance issues
  Reversers     \* Reversers[c]: the cashiers who reverse payments taken by c

ASSUME InstanceAssumption ==
  /\ Orders # {}
  /\ IsFiniteSet(Lines) /\ IsFiniteSet(PaymentIds) /\ IsFiniteSet(DiscountIds)
  /\ ItemsOf \in [Orders -> SUBSET Lines]
  /\ \A o \in Orders : ItemsOf[o] # {}
  /\ Price \in [Lines -> Nat]
  /\ BranchOf \in [Orders -> Branches]
  /\ Methods \subseteq {"cash", "card"}
  /\ MaxMoney \in Nat /\ Amounts \subseteq 1 .. MaxMoney
  /\ MaxUses \in Nat /\ Cap \in Nat /\ Stacking \in BOOLEAN
  /\ NoKey \notin Keys /\ NoCoupon \notin Coupons
  /\ Reversers \in [Cashiers -> SUBSET Cashiers]

VARIABLES
  db,     \* the committed tables
  tx,     \* the open transaction of each client
  acked   \* the answers clients received for collects that carried a key

vars == <<db, tx, acked>>

-----------------------------------------------------------------------------
(* Tables *)

Movements == {"void_restoration", "waste_refund", "waste_void"}

OrderRow == [status: {"open", "paid", "refunded", "voided"},
             live: SUBSET Lines,      \* lines with is_voided = false
             fired: SUBSET Lines,     \* lines that ever fired a kitchen ticket
             moves: [Lines -> [Movements -> Nat]],  \* stock movements per line
             cogs: BOOLEAN]           \* the order_cogs journal entry exists

PaymentRow == [status: {"completed", "voided", "refunded"},
               order: Orders, shift: ShiftIds, method: Methods,
               tender: 1 .. MaxMoney, net: 1 .. MaxMoney,
               key: Keys \cup {NoKey}]

DiscountRow == [status: {"applied"}, order: Orders, amount: 0 .. MaxMoney,
                coupon: Coupons \cup {NoCoupon}]

ShiftRow == [status: {"open", "closed"}, cashier: Cashiers,
             branch: Branches, recorded: -MaxMoney .. MaxMoney]

None == [status |-> "none"]

Database == [orders: [Orders -> OrderRow],
             payments: [PaymentIds -> PaymentRow \cup {None}],
             discounts: [DiscountIds -> DiscountRow \cup {None}],
             shifts: [ShiftIds -> ShiftRow \cup {None}],
             uses: [Coupons -> Nat]]

PaymentsOf(d, o) ==
  {i \in PaymentIds : d.payments[i] # None /\ d.payments[i].order = o}

DiscountsOf(d, o) ==
  {i \in DiscountIds : d.discounts[i] # None /\ d.discounts[i].order = o}

(* The sum of the second components of a set of <<id, amount>> pairs. *)
SumPairs(S) == MapThenFoldSet(+, 0, LAMBDA e : e[2], LAMBDA s : CHOOSE x \in s : TRUE, S)

Lesser(a, b) == IF a < b THEN a ELSE b

(* computeOrderTotals, for orders whose lines carry no exclusive tax. *)
Subtotal(d, o) == SumPairs({<<l, Price[l]>> : l \in d.orders[o].live})

DiscountTotal(d, o) ==
  Lesser(SumPairs({<<i, d.discounts[i].amount>> : i \in DiscountsOf(d, o)}),
         Subtotal(d, o))

Collected(d, o) ==
  SumPairs({<<i, d.payments[i].net>> :
              i \in {j \in PaymentsOf(d, o) : d.payments[j].status = "completed"}})

Remaining(d, o) == Subtotal(d, o) - DiscountTotal(d, o) - Collected(d, o)

(* sumCompletedCashPaymentsText *)
CashSales(d, s) ==
  SumPairs({<<i, d.payments[i].net>> :
              i \in {j \in PaymentIds : /\ d.payments[j].status = "completed"
                                        /\ d.payments[j].shift = s
                                        /\ d.payments[j].method = "cash"}})

(* The open shift a cashier holds at a branch (findOpenShiftForCashier). *)
OpenShifts(d, c) ==
  {s \in ShiftIds : d.shifts[s].status = "open" /\ d.shifts[s].cashier = c}

OpenShiftsAt(d, c, b) == {s \in OpenShifts(d, c) : d.shifts[s].branch = b}

PaymentsWithKey(d, k) ==
  {i \in PaymentIds : d.payments[i] # None /\ d.payments[i].key = k}

-----------------------------------------------------------------------------
(* Requests and transactions *)

Collects ==
  [op: {"collect"}, order: Orders, actor: Cashiers, method: Methods,
   tender: Amounts, key: Keys \cup {NoKey}]
Reversals ==
  [op: {"reverse"}, payment: PaymentIds, actor: Cashiers, to: {"voided", "refunded"}]
Openings  == [op: {"open"}, actor: Cashiers, branch: Branches]
Closings  == [op: {"close"}, shift: ShiftIds]
LineVoids == [op: {"void"}, order: Orders, lines: SUBSET Lines]
Discounts ==
  [op: {"discount"}, order: Orders, amount: Amounts,
   coupon: Coupons \cup {NoCoupon}, challenged: BOOLEAN]
Firings   == [op: {"fire"}, order: Orders, line: Lines]

Requests ==
  {q \in Collects \cup Reversals \cup Openings \cup Closings \cup LineVoids
           \cup Discounts \cup Firings : q.op \in Ops}

(* What can be locked: rows, and the entries of the two unique indexes. *)
Row(table, id) == <<table, id>>

Locks ==
  ({"order"} \X Orders) \cup ({"shift"} \X ShiftIds) \cup ({"coupon"} \X Coupons)
    \cup ({"key"} \X Keys) \cup ({"till"} \X Cashiers)

NoTx == [pc |-> "idle", held |-> {}, stale |-> {}]

Transaction ==
  [pc: {"order", "shift", "insert", "coupon", "commit", "probe"},
   req: Requests, snap: Database,
   held: SUBSET Locks,     \* locks this transaction owns
   stale: SUBSET Locks]    \* rows updated by others since its snapshot

TypeOK ==
  /\ db \in Database
  /\ tx \in [Clients -> Transaction \cup {NoTx}]
  /\ acked \in SUBSET [req: Collects, payment: PaymentIds]

Init ==
  /\ db = [orders |-> [o \in Orders |->
                         [status |-> "open", live |-> ItemsOf[o], fired |-> {},
                          moves |-> [l \in Lines |-> [m \in Movements |-> 0]],
                          cogs |-> FALSE]],
           payments  |-> [i \in PaymentIds |-> None],
           discounts |-> [i \in DiscountIds |-> None],
           shifts    |-> [s \in ShiftIds |-> None],
           uses      |-> [c \in Coupons |-> 0]]
  /\ tx = [p \in Clients |-> NoTx]
  /\ acked = {}

(* The order a transaction works on; a reversal's is the payment's order.   *)
OrderOf(t) ==
  IF t.req.op = "reverse" THEN t.snap.payments[t.req.payment].order
                          ELSE t.req.order

(* A request the handler's fail-fast reads let through.  Those reads run in *)
(* transactions of their own before the one modelled here; the write        *)
(* transaction repeats each of them on its own snapshot.                    *)
Admissible(q) ==
  CASE q.op = "reverse" ->
         /\ db.payments[q.payment] # None
         /\ q.actor \in Reversers[db.shifts[db.payments[q.payment].shift].cashier]
    [] q.op = "close" -> db.shifts[q.shift] # None
    [] q.op = "void"  -> q.lines # {} /\ q.lines \subseteq ItemsOf[q.order]
    [] q.op = "fire"  -> q.line \in ItemsOf[q.order]
    [] OTHER -> TRUE

(* Slip: a reversal that locks the shift before the order. *)
AfterShiftFirst(q, pc) ==
  CASE q.op = "reverse" -> IF pc = "begin" THEN "shift"
                           ELSE IF pc = "shift" THEN "order" ELSE "commit"
    [] q.op # "reverse" /\ pc = "begin" ->
         IF q.op = "open" THEN "insert" ELSE IF q.op = "close" THEN "shift" ELSE "order"
    [] pc = "order" /\ q.op = "collect" -> "shift"
    [] pc = "shift" /\ q.op = "collect" -> "insert"
    [] OTHER -> "commit"

(* Slip: the use count of a coupon is read but its row is never locked. *)
AfterUnlockedCoupon(q, pc) ==
  CASE pc = "begin" -> IF q.op = "open" THEN "insert" ELSE "order"
    [] pc = "order" /\ q.op = "collect" -> "shift"
    [] pc = "shift" -> "insert"
    [] OTHER -> "commit"

(* The step a request takes after pc: the uniform lock order is the order   *)
(* row, then the shift or coupon row, then the unique index entry.          *)
After(q, pc) ==
  CASE pc = "begin" /\ q.op = "open"  -> "insert"
    [] pc = "begin" /\ q.op = "close" -> "shift"
    [] pc = "begin" /\ q.op \notin {"open", "close"} -> "order"
    [] pc = "order" /\ q.op \in {"collect", "reverse"} -> "shift"
    [] pc = "order" /\ q.op = "discount" /\ q.coupon # NoCoupon -> "coupon"
    [] pc = "shift" /\ q.op = "collect" -> "insert"
    [] OTHER -> "commit"

(* withTenantContext: BEGIN and the first statement, which fixes the snapshot. *)
Begin(p, q) ==
  /\ tx[p] = NoTx
  /\ Admissible(q)
  /\ tx' = [tx EXCEPT ![p] = [pc |-> After(q, "begin"), req |-> q, snap |-> db,
                              held |-> {}, stale |-> {}]]
  /\ UNCHANGED <<db, acked>>

(* Everything the transaction did is undone and its locks are released.     *)
Rollback(p) ==
  /\ tx[p] # NoTx
  /\ tx' = [tx EXCEPT ![p] = NoTx]
  /\ UNCHANGED <<db, acked>>

Free(r) == \A p \in Clients : r \notin tx[p].held

(* Slip: READ COMMITTED behaviour, the lock is granted whatever the snapshot. *)
LockRowIgnoringSnapshot(p, r) ==
  /\ Free(r)
  /\ tx' = [tx EXCEPT ![p].held = @ \cup {r}, ![p].pc = After(tx[p].req, @)]
  /\ UNCHANGED <<db, acked>>

(* SELECT ... FOR UPDATE: waits until nobody holds the row, and fails with  *)
(* 40001 when the row was updated after the snapshot.                       *)
LockRow(p, r) ==
  /\ Free(r)
  /\ r \notin tx[p].stale
  /\ tx' = [tx EXCEPT ![p].held = @ \cup {r}, ![p].pc = After(tx[p].req, @)]
  /\ UNCHANGED <<db, acked>>

(* Slip: the shift row is locked but its revision is not bumped. *)
CommittedWithoutShiftBump(p) ==
  [q \in Clients |-> IF q = p \/ tx[q] = NoTx THEN NoTx
                     ELSE [tx[q] EXCEPT !.stale =
                             @ \cup {r \in tx[p].held : r[1] # "shift"}]]

(* COMMIT: the rows the transaction locked are the rows it updated, and     *)
(* every transaction still open has a snapshot older than the update.       *)
Committed(p) ==
  [q \in Clients |-> IF q = p \/ tx[q] = NoTx THEN NoTx
                     ELSE [tx[q] EXCEPT !.stale = @ \cup tx[p].held]]

-----------------------------------------------------------------------------
(* The steps of a transaction *)

LockOrder(p) ==
  /\ tx[p].pc = "order"
  /\ LockRow(p, Row("order", OrderOf(tx[p])))

KeyIsNew(t) == t.req.key = NoKey \/ PaymentsWithKey(t.snap, t.req.key) = {}

(* Collect and reversal lock the open shift of the ACTING cashier at the    *)
(* order's branch; a close locks the shift it closes.                       *)
LockShift(p) ==
  LET t == tx[p] IN
  /\ t.pc = "shift"
  /\ t.req.op = "collect" => KeyIsNew(t)
  /\ \E s \in IF t.req.op = "close"
              THEN {s \in {t.req.shift} : t.snap.shifts[s].status = "open"}
              ELSE OpenShiftsAt(t.snap, t.req.actor, BranchOf[OrderOf(t)]) :
       LockRow(p, Row("shift", s))

(* incrementCouponUses is the only writer of a coupon, and updates it last. *)
LockCoupon(p) ==
  /\ tx[p].pc = "coupon"
  /\ LockRow(p, Row("coupon", tx[p].req.coupon))

Change(t) ==
  LET over == t.req.tender - Remaining(t.snap, t.req.order) IN
  IF t.req.method = "cash" /\ over > 0 THEN over ELSE 0

Net(t) == t.req.tender - Change(t)

(* The checks of recordPayment and of validate_payment.                     *)
MayCollect(t) ==
  /\ t.snap.orders[t.req.order].status \notin {"refunded", "voided"}
  /\ Remaining(t.snap, t.req.order) > 0
  /\ Net(t) \in 1 .. MaxMoney
  /\ Net(t) <= Remaining(t.snap, t.req.order)

(* insertPayment: the unique index makes a second insert of a key wait for  *)
(* the first, and lets it through only if the first rolled back.            *)
InsertPayment(p) ==
  LET t == tx[p]
      k == t.req.key
  IN /\ t.pc = "insert" /\ t.req.op = "collect"
     /\ MayCollect(t)
     /\ k # NoKey => Free(Row("key", k)) /\ PaymentsWithKey(db, k) = {}
     /\ tx' = [tx EXCEPT ![p].pc = "commit",
                         ![p].held = @ \cup {Row("key", j) : j \in {k} \ {NoKey}}]
     /\ UNCHANGED <<db, acked>>

(* insertShift: one open shift per cashier, by the partial unique index.    *)
InsertShift(p) ==
  LET t == tx[p]
      c == t.req.actor
  IN /\ t.pc = "insert" /\ t.req.op = "open"
     /\ OpenShifts(t.snap, c) = {}
     /\ Free(Row("till", c)) /\ OpenShifts(db, c) = {}
     /\ tx' = [tx EXCEPT ![p].pc = "commit",
                         ![p].held = @ \cup {Row("till", c)}]
     /\ UNCHANGED <<db, acked>>

-----------------------------------------------------------------------------
(* Commits.  Each writes what the handler computed from its snapshot.       *)

(* The client hears the outcome, or the connection fails after COMMIT.      *)
Answer(q, i) ==
  \/ acked' = IF q.key = NoKey THEN acked ELSE acked \cup {[req |-> q, payment |-> i]}
  \/ acked' = acked

ShiftHeld(t) == CHOOSE s \in ShiftIds : Row("shift", s) \in t.held

CommitCollect(p) ==
  LET t == tx[p]
      o == t.req.order
      settled == Remaining(t.snap, o) = Net(t)
  IN /\ t.pc = "commit" /\ t.req.op = "collect"
     /\ \E i \in PaymentIds :
          /\ db.payments[i] = None
          /\ db' = [db EXCEPT
               !.payments[i] = [status |-> "completed", order |-> o,
                                shift |-> ShiftHeld(t), method |-> t.req.method,
                                tender |-> t.req.tender, net |-> Net(t),
                                key |-> t.req.key],
               !.orders[o] = [db.orders[o] EXCEPT
                                !.status = IF settled THEN "paid" ELSE @,
                                !.cogs = @ \/ settled]]
          /\ Answer(t.req, i)
     /\ tx' = Committed(p)

(* Slip: the status is left as it was. *)
NextStatusKept(d, o) == d.orders[o].status

(* nextOrderPaymentStatus *)
NextStatus(d, o) ==
  IF Remaining(d, o) <= 0 THEN "paid"
  ELSE IF /\ PaymentsOf(d, o) # {}
          /\ \A i \in PaymentsOf(d, o) : d.payments[i].status = "refunded"
       THEN "refunded" ELSE "open"

(* Slip: movements already written for the line are not looked at. *)
WithMovementsAgain(row, ls, done, waste) ==
  [l \in Lines |->
     IF l \notin ls THEN row.moves[l]
     ELSE [row.moves[l] EXCEPT
             ![IF l \in row.fired THEN waste ELSE "void_restoration"] = @ + 1]]

(* One stock movement per line of ls not yet accounted for by a movement in *)
(* done: the deduction comes back if the line never fired, else it is waste. *)
WithMovements(row, ls, done, waste) ==
  [l \in Lines |->
     IF l \notin ls \/ \E m \in done : row.moves[l][m] > 0 THEN row.moves[l]
     ELSE [row.moves[l] EXCEPT
             ![IF l \in row.fired THEN waste ELSE "void_restoration"] = @ + 1]]

(* A fully voided order stays 'voided' across reversals. *)
StatusAfterReversal(d, o) ==
  IF d.orders[o].live = {} THEN "voided" ELSE NextStatus(d, o)

(* lifecycleChange: void or refund one payment; the guard trigger demands   *)
(* that the payment's own shift is open, as this snapshot sees it.          *)
CommitReverse(p) ==
  LET t == tx[p]
      i == t.req.payment
      o == OrderOf(t)
      row == t.snap.orders[o]
      after == [t.snap EXCEPT !.payments[i] = [@ EXCEPT !.status = t.req.to]]
  IN /\ t.pc = "commit" /\ t.req.op = "reverse"
     /\ t.snap.payments[i].status = "completed"
     /\ t.snap.shifts[t.snap.payments[i].shift].status = "open"
     /\ db' = [db EXCEPT
          !.payments[i] = [db.payments[i] EXCEPT !.status = t.req.to],
          !.orders[o] = [db.orders[o] EXCEPT
             !.status = StatusAfterReversal(after, o),
             !.moves = IF t.req.to = "voided" THEN @
                       ELSE WithMovements(row, row.live,
                              {"waste_refund", "void_restoration"}, "waste_refund")]]
     /\ tx' = Committed(p)
     /\ UNCHANGED acked

(* closeShift, the Z Report *)
CommitClose(p) ==
  LET t == tx[p]
      s == t.req.shift
  IN /\ t.pc = "commit" /\ t.req.op = "close"
     /\ CashSales(t.snap, s) \in -MaxMoney .. MaxMoney
     /\ db' = [db EXCEPT !.shifts[s] = [db.shifts[s] EXCEPT
                            !.status = "closed", !.recorded = CashSales(t.snap, s)]]
     /\ tx' = Committed(p)
     /\ UNCHANGED acked

CommitOpen(p) ==
  LET t == tx[p] IN
  /\ t.pc = "commit" /\ t.req.op = "open"
  /\ \E s \in ShiftIds :
       /\ db.shifts[s] = None
       /\ db' = [db EXCEPT !.shifts[s] = [status |-> "open", cashier |-> t.req.actor,
                                          branch |-> t.req.branch, recorded |-> 0]]
  /\ tx' = Committed(p)
  /\ UNCHANGED acked

(* voidOrderItem (one line) and voidOrder (every live line) *)
CommitVoid(p) ==
  LET t == tx[p]
      o == t.req.order
      row == t.snap.orders[o]
      ls == t.req.lines
  IN /\ t.pc = "commit" /\ t.req.op = "void"
     /\ row.status = "open"
     /\ ls \subseteq row.live
     /\ Cardinality(ls) = 1 \/ ls = row.live
     /\ db' = [db EXCEPT
          !.orders[o] = [db.orders[o] EXCEPT
             !.live = @ \ ls,
             !.status = IF row.live = ls THEN "voided" ELSE @,
             !.moves = WithMovements(row, ls, {"void_restoration"}, "waste_void")]]
     /\ tx' = Committed(p)
     /\ UNCHANGED acked

CommitDiscount(p) ==
  LET t == tx[p]
      o == t.req.order
      c == t.req.coupon
      left == Subtotal(t.snap, o) - DiscountTotal(t.snap, o)
      applied == Lesser(t.req.amount, left)
      escalated == applied >= left \/ t.req.amount > Cap
  IN /\ t.pc = "commit" /\ t.req.op = "discount"
     /\ escalated => t.req.challenged
     /\ Stacking \/ DiscountsOf(t.snap, o) = {}
     /\ c # NoCoupon => t.snap.uses[c] < MaxUses
     /\ applied \in 0 .. MaxMoney
     /\ \E i \in DiscountIds :
          /\ db.discounts[i] = None
          /\ db' = [db EXCEPT
               !.discounts[i] = [status |-> "applied", order |-> o,
                                 amount |-> applied, coupon |-> c],
               !.uses = [k \in Coupons |-> db.uses[k] + IF k = c THEN 1 ELSE 0]]
     /\ tx' = Committed(p)
     /\ UNCHANGED acked

(* transitionItem into a state that fires a kitchen ticket *)
CommitFire(p) ==
  LET t == tx[p]
      o == t.req.order
  IN /\ t.pc = "commit" /\ t.req.op = "fire"
     /\ t.req.line \in t.snap.orders[o].live
     /\ db' = [db EXCEPT !.orders[o] = [db.orders[o] EXCEPT !.fired = @ \cup {t.req.line}]]
     /\ tx' = Committed(p)
     /\ UNCHANGED acked

-----------------------------------------------------------------------------
(* Replays of a keyed collect *)

(* Slip: a key used for another order is answered from that order. *)
MatchesAnyOrder(pay, q) == pay.method = q.method /\ pay.tender = q.tender

(* The comparison of buildReplay, which answers 409 when it fails. *)
Matches(pay, q) ==
  pay.order = q.order /\ pay.method = q.method /\ pay.tender = q.tender

(* The pre-check under the order lock found the key: answer from the        *)
(* recorded payment; nothing is written, so nobody's snapshot goes stale.   *)
ReplayUnderLock(p) ==
  LET t == tx[p] IN
  /\ t.pc = "shift" /\ t.req.op = "collect" /\ ~KeyIsNew(t)
  /\ \E i \in PaymentsWithKey(t.snap, t.req.key) :
       Matches(t.snap.payments[i], t.req) /\ Answer(t.req, i)
  /\ tx' = [tx EXCEPT ![p] = NoTx]
  /\ UNCHANGED db

(* 23505 on the key: the transaction is rolled back and a fresh one probes. *)
KeyConflict(p) ==
  LET t == tx[p] IN
  /\ t.pc = "insert" /\ t.req.op = "collect" /\ MayCollect(t)
  /\ t.req.key # NoKey /\ PaymentsWithKey(db, t.req.key) # {}
  /\ tx' = [tx EXCEPT ![p] = [pc |-> "probe", req |-> t.req, snap |-> db,
                              held |-> {}, stale |-> {}]]
  /\ UNCHANGED <<db, acked>>

(* The probe answers from a matching payment, or 409 when none matches.     *)
ReplayAfterConflict(p) ==
  LET t == tx[p]
      found == {i \in PaymentsWithKey(t.snap, t.req.key) :
                  Matches(t.snap.payments[i], t.req)}
  IN
  /\ t.pc = "probe"
  /\ acked' = acked \cup {[req |-> t.req, payment |-> i] : i \in found}
  /\ tx' = [tx EXCEPT ![p] = NoTx]
  /\ UNCHANGED db

-----------------------------------------------------------------------------
Step(p) ==
  \/ LockOrder(p) \/ LockShift(p) \/ LockCoupon(p)
  \/ InsertPayment(p) \/ InsertShift(p)
  \/ CommitCollect(p) \/ CommitReverse(p) \/ CommitClose(p) \/ CommitOpen(p)
  \/ CommitVoid(p) \/ CommitDiscount(p) \/ CommitFire(p)
  \/ ReplayUnderLock(p) \/ KeyConflict(p) \/ ReplayAfterConflict(p)

Next ==
  \E p \in Clients :
    \/ \E q \in Requests : Begin(p, q)
    \/ Step(p)
    \/ Rollback(p)

Spec == Init /\ [][Next]_vars

-----------------------------------------------------------------------------
(* Properties *)

(* What a transaction decides on is current: while it holds an order row,   *)
(* the order, its payments and its discounts are the ones of its snapshot;  *)
(* while it holds a shift or coupon row, so are that row and the set of     *)
(* payments taken on the shift.  This is what the revision bump is for      *)
(* (0045: a waiter "that only locked would proceed on pre-race data").      *)
LockedDataIsCurrent ==
  \A p \in Clients : \A r \in tx[p].held :
    LET snap == tx[p].snap IN
    /\ r[1] = "order" =>
         /\ snap.orders[r[2]] = db.orders[r[2]]
         /\ \A i \in PaymentsOf(snap, r[2]) \cup PaymentsOf(db, r[2]) :
              snap.payments[i] = db.payments[i]
         /\ \A i \in DiscountsOf(snap, r[2]) \cup DiscountsOf(db, r[2]) :
              snap.discounts[i] = db.discounts[i]
    /\ r[1] = "shift" =>
         /\ snap.shifts[r[2]] = db.shifts[r[2]]
         /\ \A i \in PaymentIds :
              db.payments[i] # None /\ db.payments[i].shift = r[2]
                => snap.payments[i] # None
    /\ r[1] = "coupon" => snap.uses[r[2]] = db.uses[r[2]]

(* recordPayment never takes more than the balance that is really left when *)
(* the payment commits, however many collects, discounts and line voids     *)
(* race it ("a payment can never collect more than the remaining balance"). *)
CollectsWithinBalance ==
  [][\A i \in PaymentIds :
       db.payments[i] = None /\ db'.payments[i] # None
         => LET pay == db'.payments[i]
            IN pay.net > 0 /\ pay.net <= Remaining(db, pay.order)]_vars

(* One key, one payment, also when two orders race on the key (0047: "the   *)
(* unique index is the race arbiter").                                      *)
KeyIdentifiesOnePayment ==
  \A i, j \in PaymentIds :
    /\ db.payments[i] # None /\ db.payments[j] # None
    /\ db.payments[i].key = db.payments[j].key /\ db.payments[i].key # NoKey
    => i = j

(* A client that repeats a key is only ever told about the one payment      *)
(* recorded for it, and only if it asked for the same order, method and     *)
(* tender (buildReplay answers 409 otherwise).                              *)
AnswersAgree ==
  \A a \in acked :
    /\ db.payments[a.payment] # None
    /\ \A f \in {"key", "order", "method", "tender"} :
         db.payments[a.payment][f] = a.req[f]

(* 'voided' is the status of exactly the orders without a live line, across *)
(* line voids, reversals of residual payments and collects (0048).          *)
VoidedExactlyWhenEmpty ==
  \A o \in Orders : db.orders[o].status = "voided" <=> db.orders[o].live = {}

(* An order is 'refunded' only while every payment of it is refunded, so    *)
(* no money is left on an order that refuses further collects.              *)
RefundedMeansAllRefunded ==
  \A o \in Orders :
    db.orders[o].status = "refunded" =>
      /\ PaymentsOf(db, o) # {}
      /\ \A i \in PaymentsOf(db, o) : db.payments[i].status = "refunded"

(* An order reads 'paid' only while its completed payments cover its total. *)
PaidMeansCovered ==
  \A o \in Orders : db.orders[o].status = "paid" => Remaining(db, o) <= 0

(* The Z Report is final: the cash sales a closed shift recorded are the    *)
(* completed cash payments on it, then and ever after.                      *)
ZReportMatchesPayments ==
  \A s \in ShiftIds :
    db.shifts[s].status = "closed" => db.shifts[s].recorded = CashSales(db, s)

(* A cashier holds at most one open shift, whoever opens and closes at once. *)
OneOpenShiftPerCashier ==
  \A c \in Cashiers : Cardinality(OpenShifts(db, c)) <= 1

(* The deduction of a line comes back at most once, and never both comes    *)
(* back and is written off, over any mix of refunds, line voids and kitchen *)
(* tickets ("stock is restored exactly once per (line, component)").        *)
StockAccountedOnce ==
  \A o \in Orders : \A l \in ItemsOf[o] :
    LET m == db.orders[o].moves[l] IN
    /\ \A k \in Movements : m[k] <= 1
    /\ m["void_restoration"] = 1 => m["waste_refund"] = 0 /\ m["waste_void"] = 0

(* The use count of a coupon is the number of discounts granted with it and *)
(* stays within its maximum, also when two orders redeem it at once.        *)
CouponUsesAreDiscounts ==
  \A c \in Coupons :
    /\ db.uses[c] <= MaxUses
    /\ db.uses[c] = Cardinality({i \in DiscountIds :
                       db.discounts[i] # None /\ db.discounts[i].coupon = c})

(* The locks a transaction asks for next. *)
Wants(t) ==
  CASE t.pc = "order"  -> {Row("order", OrderOf(t))}
    [] t.pc = "shift" /\ t.req.op = "close" -> {Row("shift", t.req.shift)}
    [] t.pc = "shift" -> {Row("shift", s) : s \in
                            OpenShiftsAt(t.snap, t.req.actor, BranchOf[OrderOf(t)])}
    [] t.pc = "coupon" -> {Row("coupon", t.req.coupon)}
    [] t.pc = "insert" /\ t.req.op = "open" -> {Row("till", t.req.actor)}
    [] t.pc = "insert" -> {Row("key", t.req.key)}
    [] OTHER -> {}

(* The lock order orders -> shift_reconciliations -> unique entries leaves  *)
(* no cycle of waiting transactions ("so no cycle is possible", 0045).      *)
NoWaitCycle ==
  \A S \in SUBSET Clients :
    S # {} => \E p \in S : \A q \in S : Wants(tx[p]) \cap tx[q].held = {}

-----------------------------------------------------------------------------
(* The inductive invariant behind the safety properties *)

(* Two transactions never own the same lock. *)
ExclusiveLocks ==
  \A p, q \in Clients : p # q => tx[p].held \cap tx[q].held = {}

(* The locks a transaction owns at each step, and what its request names.   *)
LocksOwned(t) ==
  /\ t.pc = "order"  => t.req.op \notin {"open", "close"}
  /\ t.pc = "shift"  => t.req.op \in {"collect", "reverse", "close"}
  /\ t.pc = "coupon" => t.req.op = "discount" /\ t.req.coupon # NoCoupon
  /\ t.pc = "insert" => t.req.op \in {"collect", "open"}
  /\ t.pc = "probe"  => t.req.op = "collect"
  /\ t.req.op \notin {"open", "close"} /\ t.pc \notin {"order", "probe"}
       => Row("order", OrderOf(t)) \in t.held
  /\ t.req.op = "collect" /\ t.pc \in {"insert", "commit"}
       => \E s \in ShiftIds : Row("shift", s) \in t.held
  /\ t.req.op = "collect" /\ t.pc = "commit"
       => MayCollect(t) /\ (t.req.key # NoKey => Row("key", t.req.key) \in t.held)
  /\ t.req.op = "reverse" /\ t.pc = "commit"
       => \E s \in OpenShiftsAt(t.snap, t.req.actor, BranchOf[OrderOf(t)]) :
            Row("shift", s) \in t.held
  /\ t.req.op = "close" /\ t.pc = "commit" => Row("shift", t.req.shift) \in t.held
  /\ t.req.op = "open" /\ t.pc = "commit" => Row("till", t.req.actor) \in t.held
  /\ t.req.op = "discount" /\ t.pc = "commit" /\ t.req.coupon # NoCoupon
       => Row("coupon", t.req.coupon) \in t.held
  /\ t.req.op = "reverse" => t.snap.payments[t.req.payment] # None
  /\ t.req.op = "close" => t.snap.shifts[t.req.shift] # None
  /\ \A s \in ShiftIds : Row("shift", s) \in t.held => t.snap.shifts[s].status = "open"

(* In database d, a snapshot row that no other transaction has updated      *)
(* since is still the same, and no row has disappeared.                     *)
SnapshotCurrent(d, t) ==
  /\ \A r \in t.held : r[1] \in {"order", "shift", "coupon"} => r \notin t.stale
  /\ \A o \in Orders : Row("order", o) \notin t.stale =>
       /\ t.snap.orders[o] = d.orders[o]
       /\ \A i \in PaymentsOf(t.snap, o) \cup PaymentsOf(d, o) :
            t.snap.payments[i] = d.payments[i]
       /\ \A i \in DiscountsOf(t.snap, o) \cup DiscountsOf(d, o) :
            t.snap.discounts[i] = d.discounts[i]
  /\ \A s \in ShiftIds : Row("shift", s) \notin t.stale =>
       /\ t.snap.shifts[s] # None => t.snap.shifts[s] = d.shifts[s]
       /\ \A i \in PaymentIds :
            d.payments[i] # None /\ d.payments[i].shift = s => t.snap.payments[i] # None
  /\ \A c \in Coupons : Row("coupon", c) \notin t.stale => t.snap.uses[c] = d.uses[c]
  /\ \A i \in PaymentIds : t.snap.payments[i] # None =>
       /\ d.payments[i] # None
       /\ d.payments[i].order = t.snap.payments[i].order
       /\ d.payments[i].shift = t.snap.payments[i].shift
  /\ \A s \in ShiftIds : t.snap.shifts[s] # None =>
       d.shifts[s] # None /\ d.shifts[s].cashier = t.snap.shifts[s].cashier

(* Index entries a transaction is about to commit clash with no row of d.   *)
EntriesReserved(d, t) ==
  /\ t.req.op = "collect" /\ t.pc = "commit" /\ t.req.key # NoKey
       => PaymentsWithKey(d, t.req.key) = {}
  /\ t.req.op = "open" /\ t.pc = "commit" => OpenShifts(d, t.req.actor) = {}

Locking ==
  /\ ExclusiveLocks
  /\ \A p \in Clients : tx[p] # NoTx =>
       /\ LocksOwned(tx[p])
       /\ SnapshotCurrent(db, tx[p])
       /\ EntriesReserved(db, tx[p])
=============================================================================
