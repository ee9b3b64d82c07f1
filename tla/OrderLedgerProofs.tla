------------------------- MODULE OrderLedgerProofs -------------------------
(***************************************************************************)
(* What the locking invariant of OrderPaymentsProofs buys: keys, balances,  *)
(* refunds, stock, the order of locks, the answers to replayed requests and *)
(* the cash of closed shifts, for every instance.                           *)
(***************************************************************************)
EXTENDS OrderPaymentsProofs

-----------------------------------------------------------------------------
(* Keys, balances and refunds *)

(* An idempotency key identifies one payment, whoever races on it. *)
THEOREM KeysAreUnique == Spec => []KeyIdentifiesOnePayment
<1>1. Init => KeyIdentifiesOnePayment
  BY DEF Init, KeyIdentifiesOnePayment
<1>2. TypeOK /\ Locking /\ KeyIdentifiesOnePayment /\ [Next]_vars => KeyIdentifiesOnePayment'
  <2> SUFFICES ASSUME TypeOK, Locking, KeyIdentifiesOnePayment, [Next]_vars
               PROVE  KeyIdentifiesOnePayment'
    OBVIOUS
  <2>1. CASE db' = db
    BY <2>1 DEF KeyIdentifiesOnePayment
  <2>2. CASE db' # db
    <3>1. PICK p \in Clients :
            /\ tx[p] # NoTx
            /\ \/ CommitCollect(p) \/ CommitReverse(p) \/ CommitClose(p) \/ CommitOpen(p)
               \/ CommitVoid(p) \/ CommitDiscount(p) \/ CommitFire(p)
      BY <2>2, NextKinds
    <3>2. CASE CommitCollect(p)
      <4>1. PICK i \in PaymentIds : Collected1(p, i)
        BY <3>1, <3>2, CollectEffect
      <4>2. tx[p].req.key # NoKey => PaymentsWithKey(db, tx[p].req.key) = {}
        BY <3>1, <3>2, CollectEffect
      <4>3. /\ db'.payments[i].key = tx[p].req.key
            /\ \A x \in PaymentIds \ {i} : db'.payments[x] = db.payments[x]
        BY <4>1, Zenon DEF Collected1
      <4>4. \A x \in PaymentIds \ {i} :
              db'.payments[x] # None /\ db'.payments[x].key = tx[p].req.key
                => tx[p].req.key = NoKey
        BY <4>2, <4>3 DEF PaymentsWithKey
      <4>5. \A x, y \in PaymentIds \ {i} :
              /\ db'.payments[x] # None /\ db'.payments[y] # None
              /\ db'.payments[x].key = db'.payments[y].key /\ db'.payments[x].key # NoKey
              => x = y
        BY <4>3 DEF KeyIdentifiesOnePayment
      <4> QED
        BY <4>3, <4>4, <4>5 DEF KeyIdentifiesOnePayment
    <3>3. CASE CommitReverse(p)
      <4>1. \A x \in PaymentIds :
              db'.payments[x] # None =>
                db.payments[x] # None /\ db'.payments[x].key = db.payments[x].key
        BY Zenon, <3>1, <3>3, ReverseEffect DEF Reversed1
      <4> QED
        BY <4>1 DEF KeyIdentifiesOnePayment
    <3>4. CASE ~ CommitCollect(p) /\ ~ CommitReverse(p)
      <4>1. db'.payments = db.payments
        BY <3>1, <3>4, CloseEffect, OpenEffect, VoidEffect, OtherEffects
      <4> QED
        BY <4>1 DEF KeyIdentifiesOnePayment
    <3> QED
      BY <3>2, <3>3, <3>4
  <2> QED
    BY <2>1, <2>2
<1> QED
  BY <1>1, <1>2, TypeCorrect, LockingInvariant, PTL DEF Spec

(* recordPayment never takes more than the balance left when it commits:    *)
(* the balance it checked in its snapshot is the committed one.             *)
THEOREM NeverOvercollected == Spec => CollectsWithinBalance
<1>1. TypeOK /\ Locking /\ [Next]_vars =>
        [\A i \in PaymentIds :
           db.payments[i] = None /\ db'.payments[i] # None
             => LET pay == db'.payments[i]
                IN pay.net > 0 /\ pay.net <= Remaining(db, pay.order)]_vars
  <2> SUFFICES ASSUME TypeOK, Locking, [Next]_vars, NEW i \in PaymentIds,
                      db.payments[i] = None, db'.payments[i] # None
               PROVE  /\ db'.payments[i].net > 0
                      /\ db'.payments[i].net <= Remaining(db, db'.payments[i].order)
    OBVIOUS
  <2>1. PICK p \in Clients :
          /\ tx[p] # NoTx
          /\ \/ CommitCollect(p) \/ CommitReverse(p) \/ CommitClose(p) \/ CommitOpen(p)
             \/ CommitVoid(p) \/ CommitDiscount(p) \/ CommitFire(p)
    BY NextKinds
  <2>2. ~ CommitReverse(p)
    BY Zenon, <2>1, ReverseEffect DEF Reversed1
  <2>3. CommitCollect(p)
    BY <2>1, <2>2, CloseEffect, OpenEffect, VoidEffect, OtherEffects
  <2>4. /\ tx[p].req \in Collects /\ MayCollect(tx[p])
        /\ Row("order", tx[p].req.order) \in tx[p].held
        /\ \E j \in PaymentIds : Collected1(p, j)
    BY <2>1, <2>3, CollectEffect
  <2>5. PICK j \in PaymentIds : Collected1(p, j)
    BY <2>4
  <2>6. /\ db'.payments[j].net = Net(tx[p]) /\ db'.payments[j].order = tx[p].req.order
        /\ \A x \in PaymentIds \ {j} : db'.payments[x] = db.payments[x]
    BY <2>5, Zenon DEF Collected1
  <2>7. i = j
    BY <2>6
  <2>8. tx[p].req.order \in Orders
    BY <2>4 DEF Collects
  <2>9. SnapshotCurrent(db, tx[p])
    BY <2>1 DEF Locking
  <2>10. Remaining(tx[p].snap, tx[p].req.order) = Remaining(db, tx[p].req.order)
    BY <2>4, <2>8, <2>9, RemainingCurrent
  <2>11. Net(tx[p]) \in 1 .. MaxMoney /\ Net(tx[p]) <= Remaining(tx[p].snap, tx[p].req.order)
    BY <2>4 DEF MayCollect
  <2>12. MaxMoney \in Nat
    BY InstanceAssumption
  <2>13. Net(tx[p]) > 0
    BY <2>11, <2>12
  <2> QED
    BY <2>6, <2>7, <2>10, <2>11, <2>13
<1> QED
  BY <1>1, TypeCorrect, LockingInvariant, PTL DEF Spec, CollectsWithinBalance

(* 'voided' is the status of exactly the orders without a live line. *)
THEOREM VoidedIffEmpty == Spec => []VoidedExactlyWhenEmpty
<1>1. Init => VoidedExactlyWhenEmpty
  BY InstanceAssumption DEF Init, VoidedExactlyWhenEmpty
<1>2. TypeOK /\ Locking /\ VoidedExactlyWhenEmpty /\ [Next]_vars => VoidedExactlyWhenEmpty'
  <2> SUFFICES ASSUME TypeOK, Locking, VoidedExactlyWhenEmpty, [Next]_vars
               PROVE  VoidedExactlyWhenEmpty'
    OBVIOUS
  <2>1. CASE db' = db
    BY <2>1 DEF VoidedExactlyWhenEmpty
  <2>2. CASE db' # db
    <3>1. PICK p \in Clients :
            /\ tx[p] # NoTx
            /\ \/ CommitCollect(p) \/ CommitReverse(p) \/ CommitClose(p) \/ CommitOpen(p)
               \/ CommitVoid(p) \/ CommitDiscount(p) \/ CommitFire(p)
      BY <2>2, NextKinds
    <3>0. SnapshotCurrent(db, tx[p])
      BY <3>1 DEF Locking
    <3>2. CASE CommitCollect(p)
      <4> DEFINE o == tx[p].req.order
      <4>1. /\ tx[p].req \in Collects /\ MayCollect(tx[p])
            /\ Row("order", o) \in tx[p].held
            /\ \E i \in PaymentIds : Collected1(p, i)
        BY <3>1, <3>2, CollectEffect
      <4>2. /\ db'.orders[o].live = db.orders[o].live
            /\ db'.orders[o].status \in {"paid", db.orders[o].status}
            /\ \A x \in Orders \ {o} : db'.orders[x] = db.orders[x]
        BY <4>1, Zenon DEF Collected1
      <4>3. o \in Orders
        BY <4>1 DEF Collects
      <4>4. db.orders[o].status # "voided"
        BY <3>0, <4>1, <4>3, RemainingCurrent DEF MayCollect
      <4> HIDE DEF o
      <4> QED
        BY <4>2, <4>3, <4>4 DEF VoidedExactlyWhenEmpty
    <3>3. CASE CommitReverse(p)
      <4> DEFINE o == OrderOf(tx[p])
      <4>1. o \in Orders /\ Row("order", o) \in tx[p].held /\ Reversed1(p)
        BY <3>1, <3>3, ReverseEffect
      <4>2. /\ db'.orders[o].live = db.orders[o].live
            /\ db'.orders[o].status = StatusAfterReversal(AfterReversal(tx[p]), o)
            /\ \A x \in Orders \ {o} : db'.orders[x] = db.orders[x]
        BY <4>1, Zenon DEF Reversed1
      <4>3. tx[p].snap \in Database
        BY <3>1, OpenTransaction DEF Transaction
      <4>4. AfterReversal(tx[p]).orders[o] = db.orders[o]
        BY <3>0, <4>1, <4>3, RemainingCurrent DEF AfterReversal, Database
      <4>5. NextStatus(AfterReversal(tx[p]), o) # "voided"
        BY DEF NextStatus
      <4> HIDE DEF o
      <4> QED
        BY <4>1, <4>2, <4>4, <4>5 DEF StatusAfterReversal, VoidedExactlyWhenEmpty
    <3>4. CASE CommitVoid(p)
      BY ZenonT(60), <3>1, <3>4, VoidEffect DEF VoidedExactlyWhenEmpty
    <3>5. CASE CommitClose(p) \/ CommitOpen(p)
      <4>1. db'.orders = db.orders
        BY <3>1, <3>5, CloseEffect, OpenEffect
      <4> QED
        BY <4>1 DEF VoidedExactlyWhenEmpty
    <3>6. CASE CommitFire(p) \/ CommitDiscount(p)
      BY <3>1, <3>6, OtherEffects DEF VoidedExactlyWhenEmpty
    <3> QED
      BY <3>1, <3>2, <3>3, <3>4, <3>5, <3>6
  <2> QED
    BY <2>1, <2>2
<1> QED
  BY <1>1, <1>2, TypeCorrect, LockingInvariant, PTL DEF Spec

(* An order reads 'refunded' only while every payment of it is refunded. *)
THEOREM RefundedIsFinal == Spec => []RefundedMeansAllRefunded
<1>1. Init => RefundedMeansAllRefunded
  BY DEF Init, RefundedMeansAllRefunded
<1>2. TypeOK /\ Locking /\ RefundedMeansAllRefunded /\ [Next]_vars => RefundedMeansAllRefunded'
  <2> SUFFICES ASSUME TypeOK, Locking, RefundedMeansAllRefunded, [Next]_vars
               PROVE  RefundedMeansAllRefunded'
    OBVIOUS
  <2>1. CASE db' = db
    BY <2>1 DEF RefundedMeansAllRefunded, PaymentsOf
  <2>2. CASE db' # db
    <3>1. PICK p \in Clients :
            /\ tx[p] # NoTx
            /\ \/ CommitCollect(p) \/ CommitReverse(p) \/ CommitClose(p) \/ CommitOpen(p)
               \/ CommitVoid(p) \/ CommitDiscount(p) \/ CommitFire(p)
      BY <2>2, NextKinds
    <3>0. SnapshotCurrent(db, tx[p])
      BY <3>1 DEF Locking
    <3>2. CASE CommitCollect(p)
      <4> DEFINE o == tx[p].req.order
      <4>1. /\ tx[p].req \in Collects /\ MayCollect(tx[p])
            /\ Row("order", o) \in tx[p].held
            /\ \E j \in PaymentIds : Collected1(p, j)
        BY <3>1, <3>2, CollectEffect
      <4>2. PICK i \in PaymentIds : Collected1(p, i)
        BY <4>1
      <4>3. /\ db'.orders[o].status \in {"paid", db.orders[o].status}
            /\ \A x \in Orders \ {o} : db'.orders[x] = db.orders[x]
            /\ db.payments[i] = None /\ db'.payments[i].order = o
            /\ \A x \in PaymentIds \ {i} : db'.payments[x] = db.payments[x]
        BY <4>2, Zenon DEF Collected1
      <4>4. o \in Orders
        BY <4>1 DEF Collects
      <4>5. db.orders[o].status # "refunded"
        <5>1. tx[p].snap.orders[o].status # "refunded"
          BY Zenon, <4>1 DEF MayCollect
        <5>2. tx[p].snap.orders[o] = db.orders[o]
          <6>1. SnapshotCurrent(db, tx[p]) /\ Row("order", o) \in tx[p].held
            BY Zenon, <3>0, <4>1
          <6> HIDE DEF o
          <6> QED
            BY Zenon, <4>4, <6>1, RemainingCurrent
        <5> QED
          BY <5>1, <5>2
      <4> HIDE DEF o
      <4>6. \A x \in Orders \ {o} : PaymentsOf(db', x) = PaymentsOf(db, x)
        BY <4>3 DEF PaymentsOf
      <4>7. i \notin PaymentsOf(db, o) /\ \A x \in Orders : i \notin PaymentsOf(db, x)
        BY <4>3 DEF PaymentsOf
      <4>8. \A x \in Orders : PaymentsOf(db, x) \subseteq PaymentIds
        BY DEF PaymentsOf
      <4> QED
        BY <4>3, <4>5, <4>6, <4>7, <4>8 DEF RefundedMeansAllRefunded
    <3>3. CASE CommitReverse(p)
      <4> DEFINE o == OrderOf(tx[p])
                 i == tx[p].req.payment
                 after == AfterReversal(tx[p])
      <4>1. /\ o \in Orders /\ Row("order", o) \in tx[p].held /\ Reversed1(p)
            /\ db.payments[i].order = o /\ tx[p].req \in Reversals
        BY <3>1, <3>3, ReverseEffect
      <4>2. /\ db'.orders[o].status = StatusAfterReversal(after, o)
            /\ \A x \in Orders \ {o} : db'.orders[x] = db.orders[x]
            /\ db.payments[i] # None /\ db'.payments[i] # None
            /\ db'.payments[i].order = o /\ db'.payments[i].status = tx[p].req.to
            /\ \A x \in PaymentIds \ {i} : db'.payments[x] = db.payments[x]
        BY <4>1, Zenon DEF Reversed1
      <4>3. tx[p].snap \in Database /\ i \in PaymentIds
        BY <3>1, <4>1, OpenTransaction DEF Transaction, Reversals
      <4>4. /\ PaymentsOf(tx[p].snap, o) = PaymentsOf(db, o)
            /\ \A x \in PaymentsOf(db, o) : tx[p].snap.payments[x] = db.payments[x]
        BY <3>0, <4>1, RemainingCurrent
      <4>5. i \in PaymentsOf(db, o) /\ tx[p].snap.payments[i] = db.payments[i]
        BY Zenon, <4>1, <4>2, <4>3, <4>4 DEF PaymentsOf
      <4>6. db.payments[i] \in PaymentRow
        <5>1. db.payments \in [PaymentIds -> PaymentRow \cup {None}]
          BY DEF TypeOK, Database
        <5> HIDE DEF i
        <5> QED
          BY <4>2, <4>3, <5>1
      <4>7. /\ after.payments[i] = [tx[p].snap.payments[i] EXCEPT !.status = tx[p].req.to]
            /\ \A x \in PaymentIds \ {i} : after.payments[x] = tx[p].snap.payments[x]
        BY Zenon, <4>3 DEF AfterReversal, Database
      <4>8. after.payments[i].order = o /\ after.payments[i].status = tx[p].req.to
        BY ZenonT(60), <4>1, <4>5, <4>6, <4>7 DEF PaymentRow
      <4>9. after.payments[i] # None
        <5>1. [tx[p].snap.payments[i] EXCEPT !.status = tx[p].req.to] \in PaymentRow
          BY Zenon, <4>1, <4>5, <4>6 DEF PaymentRow, Reversals
        <5> QED
          BY Zenon, <4>7, <5>1, NoneIsNoRow
      <4> HIDE DEF o, i, after
      <4>10. PaymentsOf(db', o) = PaymentsOf(db, o) /\ PaymentsOf(after, o) = PaymentsOf(db, o)
        <5>1. PaymentsOf(db', o) = PaymentsOf(db, o)
          BY <4>2, <4>3, <4>5 DEF PaymentsOf
        <5>2. PaymentsOf(after, o) = PaymentsOf(tx[p].snap, o)
          BY Zenon, <4>3, <4>4, <4>5, <4>7, <4>8, <4>9 DEF PaymentsOf
        <5> QED
          BY <4>4, <5>1, <5>2
      <4>11. \A x \in PaymentsOf(db, o) : db'.payments[x].status = after.payments[x].status
        <5>1. PaymentsOf(db, o) \subseteq PaymentIds
          BY DEF PaymentsOf
        <5> QED
          BY Zenon, <4>2, <4>4, <4>7, <4>8, <5>1
      <4>12. db'.orders[o].status = "refunded" =>
               \A x \in PaymentsOf(after, o) : after.payments[x].status = "refunded"
        BY <4>2 DEF StatusAfterReversal, NextStatus
      <4>13. \A x \in Orders \ {o} : /\ PaymentsOf(db', x) = PaymentsOf(db, x)
                                      /\ i \notin PaymentsOf(db, x)
        BY <4>1, <4>2 DEF PaymentsOf
      <4>14. \A x \in Orders : PaymentsOf(db, x) \subseteq PaymentIds
        BY DEF PaymentsOf
      <4> QED
        <5>1. ASSUME NEW x \in Orders, db'.orders[x].status = "refunded"
              PROVE  /\ PaymentsOf(db', x) # {}
                     /\ \A y \in PaymentsOf(db', x) : db'.payments[y].status = "refunded"
          <6>1. CASE x = o
            BY <4>5, <4>10, <4>11, <4>12, <5>1, <6>1
          <6>2. CASE x # o
            <7>1. /\ PaymentsOf(db, x) # {}
                  /\ \A y \in PaymentsOf(db, x) : db.payments[y].status = "refunded"
              BY <4>2, <5>1, <6>2 DEF RefundedMeansAllRefunded
            <7> QED
              BY <4>2, <4>13, <4>14, <6>2, <7>1
          <6> QED
            BY <6>1, <6>2
        <5> QED
          BY <5>1 DEF RefundedMeansAllRefunded
    <3>4. CASE ~ CommitCollect(p) /\ ~ CommitReverse(p)
      <4>1. /\ db'.payments = db.payments
            /\ \A x \in Orders : db'.orders[x].status \in {db.orders[x].status, "voided"}
        <5>1. CASE CommitClose(p)
          BY <3>1, <5>1, CloseEffect
        <5>2. CASE CommitOpen(p)
          BY <3>1, <5>2, OpenEffect
        <5>3. CASE CommitVoid(p)
          BY <3>1, <5>3, VoidEffect
        <5>4. CASE CommitFire(p) \/ CommitDiscount(p)
          BY <3>1, <5>4, OtherEffects
        <5> QED
          BY <3>1, <3>4, <5>1, <5>2, <5>3, <5>4
      <4> QED
        BY <4>1 DEF RefundedMeansAllRefunded, PaymentsOf
    <3> QED
      BY <3>2, <3>3, <3>4
  <2> QED
    BY <2>1, <2>2
<1> QED
  BY <1>1, <1>2, TypeCorrect, LockingInvariant, PTL DEF Spec

-----------------------------------------------------------------------------
(* Stock movements *)

(* The movements of a line: what was wasted had been fired, and what a void *)
(* wasted is no longer live.                                                *)
LineLedger(row, l) ==
  LET m == row.moves[l] IN
  /\ \A k \in Movements : m[k] <= 1
  /\ m["void_restoration"] = 1 => m["waste_refund"] = 0 /\ m["waste_void"] = 0
  /\ m["waste_refund"] > 0 \/ m["waste_void"] > 0 => l \in row.fired
  /\ m["waste_void"] > 0 => l \notin row.live

LEMMA MovementOf ==
  ASSUME NEW row, row.moves \in [Lines -> [Movements -> Nat]], NEW l \in Lines,
         NEW ls, NEW done, NEW waste \in {"waste_refund", "waste_void"}
  PROVE  LET m == row.moves[l]
             n == WithMovements(row, ls, done, waste)[l]
             w == IF l \in row.fired THEN waste ELSE "void_restoration"
         IN /\ m \in [Movements -> Nat]
            /\ n \in [Movements -> Nat]
            /\ l \notin ls \/ (\E k \in done : m[k] > 0) => n = m
            /\ l \in ls /\ ~ (\E k \in done : m[k] > 0) =>
                 /\ n[w] = m[w] + 1
                 /\ \A k \in Movements : k # w => n[k] = m[k]
<1>1. waste \in Movements /\ "void_restoration" \in Movements
  BY DEF Movements
<1> QED
  BY <1>1 DEF WithMovements

(* A void of live lines keeps the ledger of a line. *)
LEMMA VoidKeepsLedger ==
  ASSUME NEW row, row.moves \in [Lines -> [Movements -> Nat]], NEW l \in Lines,
         LineLedger(row, l), NEW ls \in SUBSET row.live,
         NEW new, new.fired = row.fired, new.live = row.live \ ls,
         new.moves = WithMovements(row, ls, {"void_restoration"}, "waste_void")
  PROVE  LineLedger(new, l)
<1> DEFINE m == row.moves[l]
           n == new.moves[l]
           w == IF l \in row.fired THEN "waste_void" ELSE "void_restoration"
<1>1. /\ m \in [Movements -> Nat] /\ n \in [Movements -> Nat]
      /\ l \notin ls \/ m["void_restoration"] > 0 => n = m
      /\ l \in ls /\ ~ (m["void_restoration"] > 0) =>
           /\ n[w] = m[w] + 1
           /\ \A k \in Movements : k # w => n[k] = m[k]
  BY MovementOf
<1>2. /\ m["void_restoration"] \in 0 .. 1 /\ m["waste_refund"] \in 0 .. 1 /\ m["waste_void"] \in 0 .. 1
      /\ m["void_restoration"] = 1 => m["waste_refund"] = 0 /\ m["waste_void"] = 0
      /\ m["waste_refund"] > 0 \/ m["waste_void"] > 0 => l \in row.fired
      /\ m["waste_void"] > 0 => l \notin row.live
  BY <1>1 DEF LineLedger, Movements
<1>3. /\ n["void_restoration"] \in 0 .. 1 /\ n["waste_refund"] \in 0 .. 1 /\ n["waste_void"] \in 0 .. 1
      /\ n["void_restoration"] = 1 => n["waste_refund"] = 0 /\ n["waste_void"] = 0
      /\ n["waste_refund"] > 0 \/ n["waste_void"] > 0 => l \in row.fired
      /\ n["waste_void"] > 0 => l \notin row.live \ ls
  <2> HIDE DEF m, n
  <2> QED
    BY <1>1, <1>2 DEF Movements
<1> HIDE DEF m, n
<1> QED
  BY <1>3 DEF LineLedger, Movements, n

(* So does a refund. *)
LEMMA RefundKeepsLedger ==
  ASSUME NEW row, row.moves \in [Lines -> [Movements -> Nat]], NEW l \in Lines,
         LineLedger(row, l), NEW new, new.fired = row.fired, new.live = row.live,
         new.moves = WithMovements(row, row.live, {"waste_refund", "void_restoration"}, "waste_refund")
  PROVE  LineLedger(new, l)
<1> DEFINE m == row.moves[l]
           n == new.moves[l]
           w == IF l \in row.fired THEN "waste_refund" ELSE "void_restoration"
<1>1. /\ m \in [Movements -> Nat] /\ n \in [Movements -> Nat]
      /\ l \notin row.live \/ m["waste_refund"] > 0 \/ m["void_restoration"] > 0 => n = m
      /\ l \in row.live /\ ~ (m["waste_refund"] > 0 \/ m["void_restoration"] > 0) =>
           /\ n[w] = m[w] + 1
           /\ \A k \in Movements : k # w => n[k] = m[k]
  BY MovementOf
<1>2. /\ m["void_restoration"] \in 0 .. 1 /\ m["waste_refund"] \in 0 .. 1 /\ m["waste_void"] \in 0 .. 1
      /\ m["void_restoration"] = 1 => m["waste_refund"] = 0 /\ m["waste_void"] = 0
      /\ m["waste_refund"] > 0 \/ m["waste_void"] > 0 => l \in row.fired
      /\ m["waste_void"] > 0 => l \notin row.live
  BY <1>1 DEF LineLedger, Movements
<1>3. /\ n["void_restoration"] \in 0 .. 1 /\ n["waste_refund"] \in 0 .. 1 /\ n["waste_void"] \in 0 .. 1
      /\ n["void_restoration"] = 1 => n["waste_refund"] = 0 /\ n["waste_void"] = 0
      /\ n["waste_refund"] > 0 \/ n["waste_void"] > 0 => l \in row.fired
      /\ n["waste_void"] > 0 => l \notin row.live
  <2> HIDE DEF m, n
  <2> QED
    BY <1>1, <1>2 DEF Movements
<1> HIDE DEF m, n
<1> QED
  BY <1>3 DEF LineLedger, Movements, n

LinesAccounted == \A o \in Orders : \A l \in Lines : LineLedger(db.orders[o], l)

LEMMA LinesStayAccounted == Spec => []LinesAccounted
<1>1. Init => LinesAccounted
  BY DEF Init, LinesAccounted, LineLedger, Movements
<1>2. TypeOK /\ Locking /\ LinesAccounted /\ [Next]_vars => LinesAccounted'
  <2> SUFFICES ASSUME TypeOK, Locking, LinesAccounted, [Next]_vars,
                      NEW o \in Orders, NEW l \in Lines
               PROVE  LineLedger(db'.orders[o], l)
    BY Zenon DEF LinesAccounted, LineLedger
  <2>0. LineLedger(db.orders[o], l) /\ db.orders[o].moves \in [Lines -> [Movements -> Nat]]
    BY DEF LinesAccounted, TypeOK, Database, OrderRow
  <2>1. CASE /\ db'.orders[o].live = db.orders[o].live
             /\ db'.orders[o].fired = db.orders[o].fired
             /\ db'.orders[o].moves = db.orders[o].moves
    BY Zenon, <2>0, <2>1 DEF LineLedger
  <2>2. CASE ~ (/\ db'.orders[o].live = db.orders[o].live
                /\ db'.orders[o].fired = db.orders[o].fired
                /\ db'.orders[o].moves = db.orders[o].moves)
    <3>1. PICK p \in Clients :
            /\ tx[p] # NoTx
            /\ \/ CommitCollect(p) \/ CommitReverse(p) \/ CommitClose(p) \/ CommitOpen(p)
               \/ CommitVoid(p) \/ CommitDiscount(p) \/ CommitFire(p)
      BY <2>2, NextKinds
    <3>2. ~ (CommitClose(p) \/ CommitOpen(p))
      BY Zenon, <2>2, <3>1, CloseEffect, OpenEffect
    <3>3. ~ CommitDiscount(p)
      <4>1. CommitDiscount(p) => \E i \in DiscountIds : Discounted1(p, i)
        BY <3>1, DiscountEffect
      <4> QED
        BY Zenon, <2>2, <4>1 DEF Discounted1
    <3>4. ~ CommitCollect(p)
      <4>1. CommitCollect(p) => \E i \in PaymentIds : Collected1(p, i)
        BY <3>1, CollectEffect
      <4> QED
        BY Zenon, <2>2, <4>1 DEF Collected1
    <3>5. CASE CommitFire(p)
      <4>1. /\ db'.orders[o].live = db.orders[o].live
            /\ db'.orders[o].moves = db.orders[o].moves
            /\ db.orders[o].fired \subseteq db'.orders[o].fired
        BY Zenon, <3>1, <3>5, FireEffect
      <4> QED
        BY Zenon, <2>0, <4>1 DEF LineLedger
    <3>6. CASE CommitVoid(p)
      <4>1. \E ls \in SUBSET db.orders[o].live :
              /\ db'.orders[o].fired = db.orders[o].fired
              /\ db'.orders[o].live = db.orders[o].live \ ls
              /\ db'.orders[o].moves = WithMovements(db.orders[o], ls, {"void_restoration"}, "waste_void")
        BY Zenon, <2>2, <3>1, <3>6, VoidEffect
      <4> QED
        BY Zenon, <2>0, <4>1, VoidKeepsLedger
    <3>7. CASE CommitReverse(p)
      <4>1. /\ OrderOf(tx[p]) \in Orders /\ Row("order", OrderOf(tx[p])) \in tx[p].held
            /\ Reversed1(p) /\ SnapshotCurrent(db, tx[p])
        BY <3>1, <3>7, ReverseEffect DEF Locking
      <4>2. o = OrderOf(tx[p])
        BY Zenon, <2>2, <4>1 DEF Reversed1
      <4>3. tx[p].snap.orders[o] = db.orders[o]
        BY <4>1, <4>2, RemainingCurrent
      <4>4. /\ db'.orders[o].live = db.orders[o].live
            /\ db'.orders[o].fired = db.orders[o].fired
            /\ db'.orders[o].moves \in
                 {db.orders[o].moves,
                  WithMovements(db.orders[o], db.orders[o].live,
                    {"waste_refund", "void_restoration"}, "waste_refund")}
        BY Zenon, <4>1, <4>2, <4>3 DEF Reversed1
      <4> QED
        BY <2>0, <2>2, <4>4, RefundKeepsLedger
    <3> QED
      BY <3>1, <3>2, <3>3, <3>4, <3>5, <3>6, <3>7
  <2> QED
    BY <2>1, <2>2
<1> QED
  BY <1>1, <1>2, TypeCorrect, LockingInvariant, PTL DEF Spec

(* The stock of a line comes back at most once, and never both comes back   *)
(* and is written off, over any mix of refunds, line voids and tickets.     *)
THEOREM StockRestoredOnce == Spec => []StockAccountedOnce
<1>1. LinesAccounted => StockAccountedOnce
  <2>1. \A o \in Orders : ItemsOf[o] \subseteq Lines
    BY InstanceAssumption
  <2> QED
    BY <2>1 DEF LinesAccounted, LineLedger, StockAccountedOnce
<1> QED
  BY <1>1, LinesStayAccounted, PTL

-----------------------------------------------------------------------------
(* How the transaction of a client evolves *)

(* What a client holds while it waits lies before what it waits for, in the *)
(* order: order rows, then shift and coupon rows, then index entries.       *)
HeldBelow(t) ==
  /\ t.pc \in {"order", "probe"} => t.held = {}
  /\ t.pc \in {"shift", "coupon"} => \A r \in t.held : r[1] = "order"
  /\ t.pc = "insert" => \A r \in t.held : r[1] \in {"order", "shift"}

(* A step that takes locks moves the transaction on and writes no table. *)
LEMMA LockStepAdvances ==
  ASSUME TypeOK, Locking, NEW p \in Clients, tx[p] # NoTx,
         \/ LockOrder(p) \/ LockShift(p) \/ LockCoupon(p)
         \/ InsertPayment(p) \/ InsertShift(p)
  PROVE  \E S \in SUBSET Locks :
         \E pc \in {"order", "shift", "insert", "coupon", "commit"} :
           /\ tx' = [tx EXCEPT ![p] = Advanced(tx[p], S, pc)]
           /\ db' = db /\ acked' = acked
           /\ HeldBelow(tx[p]) => HeldBelow(Advanced(tx[p], S, pc))
<1> DEFINE t == tx[p]
           Goal(S, pc) == /\ tx' = [tx EXCEPT ![p] = Advanced(t, S, pc)]
                          /\ db' = db /\ acked' = acked
                          /\ HeldBelow(t) => HeldBelow(Advanced(t, S, pc))
           PCs == {"order", "shift", "insert", "coupon", "commit"}
<1>1. /\ t \in Transaction /\ t.req \in Requests /\ LocksOwned(t)
      /\ tx \in [Clients -> Transaction \cup {NoTx}]
  BY OpenTransaction DEF Locking, TypeOK
<1>2. \A S \in SUBSET Locks : \A pc \in PCs :
        Advanced(t, S, pc).pc = pc /\ Advanced(t, S, pc).held = t.held \cup S
  BY <1>1, AdvancedFields
<1>3. CASE LockOrder(p)
  <2> DEFINE r == Row("order", OrderOf(t))
             n == After(t.req, "order")
  <2>1. t.pc = "order" /\ LockRow(p, r)
    BY <1>3 DEF LockOrder
  <2>2. t.req.op \notin {"open", "close"} /\ OrderOf(t) \in Orders
    BY Zenon, <1>1, <2>1, OrderOfTyped DEF LocksOwned
  <2>3. {r} \in SUBSET Locks /\ r[1] = "order"
    BY Zenon, <2>2, RowIsLock
  <2>4. n \in {"shift", "coupon", "commit"}
    BY <2>2 DEF After
  <2> HIDE DEF r, n
  <2>5. tx' = [tx EXCEPT ![p] = Advanced(t, {r}, n)] /\ db' = db /\ acked' = acked
    BY Zenon, <2>1, LockRowAdvances DEF n
  <2>6. HeldBelow(t) => HeldBelow(Advanced(t, {r}, n))
    <3>1. /\ Advanced(t, {r}, n).pc = n
          /\ Advanced(t, {r}, n).held = t.held \cup {r}
      BY <1>2, <2>3, <2>4
    <3>2. HeldBelow(t) => t.held = {}
      BY <2>1 DEF HeldBelow
    <3> QED
      BY <2>3, <2>4, <3>1, <3>2 DEF HeldBelow
  <2>7. Goal({r}, n) /\ n \in PCs
    BY <2>4, <2>5, <2>6
  <2> QED
    BY Zenon, <2>3, <2>7
<1>4. CASE LockShift(p)
  <2>1. PICK s \in ShiftIds : t.pc = "shift" /\ LockRow(p, Row("shift", s))
    <3>1. CASE t.req.op = "close"
      <4>1. t.req.shift \in ShiftIds
        BY <1>1, <3>1, RequestFields DEF Closings
      <4> QED
        BY <1>4, <3>1, <4>1 DEF LockShift
    <3>2. CASE t.req.op # "close"
      BY Zenon, <1>4, <3>2 DEF LockShift, OpenShiftsAt, OpenShifts
    <3> QED
      BY <3>1, <3>2
  <2> DEFINE r == Row("shift", s)
             n == After(t.req, "shift")
  <2>2. {r} \in SUBSET Locks /\ r[1] = "shift"
    BY RowIsLock
  <2>3. n \in {"insert", "commit"}
    BY DEF After
  <2>4. LockRow(p, r)
    BY <2>1
  <2> HIDE DEF r, n
  <2>5. tx' = [tx EXCEPT ![p] = Advanced(t, {r}, n)] /\ db' = db /\ acked' = acked
    BY Zenon, <2>1, <2>4, LockRowAdvances DEF n
  <2>6. HeldBelow(t) => HeldBelow(Advanced(t, {r}, n))
    <3>1. HeldBelow(t) => \A x \in t.held : x[1] = "order"
      BY <2>1 DEF HeldBelow
    <3>2. Advanced(t, {r}, n).pc = n /\ Advanced(t, {r}, n).held = t.held \cup {r}
      BY <1>2, <2>2, <2>3
    <3> QED
      BY Zenon, <2>2, <2>3, <3>1, <3>2 DEF HeldBelow
  <2>7. Goal({r}, n) /\ n \in PCs
    BY <2>3, <2>5, <2>6
  <2> QED
    BY Zenon, <2>2, <2>7
<1>5. CASE LockCoupon(p)
  <2> DEFINE r == Row("coupon", t.req.coupon)
             n == After(t.req, "coupon")
  <2>1. t.pc = "coupon" /\ LockRow(p, r)
    BY <1>5 DEF LockCoupon
  <2>2. t.req.op = "discount" /\ t.req.coupon \in Coupons
    BY Zenon, <1>1, <2>1, RequestFields DEF LocksOwned, Discounts
  <2>3. {r} \in SUBSET Locks
    BY <2>2 DEF Locks, Row
  <2>4. n = "commit"
    BY DEF After
  <2> HIDE DEF r, n
  <2>5. tx' = [tx EXCEPT ![p] = Advanced(t, {r}, n)] /\ db' = db /\ acked' = acked
    BY Zenon, <2>1, LockRowAdvances DEF n
  <2>6. HeldBelow(Advanced(t, {r}, n))
    BY <1>2, <2>3, <2>4 DEF HeldBelow
  <2>7. Goal({r}, n) /\ n \in PCs
    BY <2>4, <2>5, <2>6
  <2> QED
    BY Zenon, <2>3, <2>7
<1>6. CASE InsertPayment(p)
  <2> DEFINE k == t.req.key
             S == {Row("key", j) : j \in {k} \ {NoKey}}
  <2>1. t.pc = "insert" /\ t.req.op = "collect"
    BY <1>6 DEF InsertPayment
  <2>2. k \in Keys \cup {NoKey}
    BY <1>1, <2>1, RequestFields DEF Collects
  <2>3. S \in SUBSET Locks
    <3>1. k # NoKey => Row("key", k) \in Locks
      BY <2>2 DEF Locks, Row
    <3> QED
      BY <3>1
  <2>4. tx' = [tx EXCEPT ![p] = Advanced(t, S, "commit")] /\ db' = db /\ acked' = acked
    BY Zenon, <1>1, <1>6 DEF InsertPayment, Advanced, Transaction
  <2> HIDE DEF S
  <2>5. HeldBelow(Advanced(t, S, "commit"))
    BY <1>2, <2>3 DEF HeldBelow
  <2>6. Goal(S, "commit") /\ "commit" \in PCs
    BY <2>4, <2>5
  <2> QED
    BY Zenon, <2>3, <2>6
<1>7. CASE InsertShift(p)
  <2> DEFINE S == {Row("till", t.req.actor)}
  <2>1. t.pc = "insert" /\ t.req.op = "open"
    BY <1>7 DEF InsertShift
  <2>2. S \in SUBSET Locks
    BY <1>1, <2>1, RequestFields DEF Locks, Row, Openings
  <2>3. tx' = [tx EXCEPT ![p] = Advanced(t, S, "commit")] /\ db' = db /\ acked' = acked
    BY Zenon, <1>1, <1>7 DEF InsertShift, Advanced, Transaction
  <2> HIDE DEF S
  <2>4. HeldBelow(Advanced(t, S, "commit"))
    BY <1>2, <2>2 DEF HeldBelow
  <2>5. Goal(S, "commit") /\ "commit" \in PCs
    BY <2>3, <2>4
  <2> QED
    BY Zenon, <2>2, <2>5
<1> QED
  BY <1>3, <1>4, <1>5, <1>6, <1>7

(* What a step makes of the transaction t of some client: it is the same    *)
(* one, with more of its snapshot stale, or one that starts on the current  *)
(* tables.                                                                  *)
Continues(t, u) == /\ u.snap = t.snap /\ u.req = t.req
                   /\ t.stale \subseteq u.stale
                   /\ HeldBelow(t) => HeldBelow(u)

Starts(u) == /\ u.snap = db /\ u.stale = {} /\ HeldBelow(u)
             /\ u.req.op = "reverse" => Admissible(u.req)

LEMMA TransactionsEvolve ==
  ASSUME TypeOK, Locking, [Next]_vars, NEW q \in Clients, tx'[q] # NoTx
  PROVE  \/ tx[q] # NoTx /\ Continues(tx[q], tx'[q])
         \/ db' = db /\ Starts(tx'[q])
<1>0. tx \in [Clients -> Transaction \cup {NoTx}]
  BY DEF TypeOK
<1>1. CASE UNCHANGED vars
  BY <1>1 DEF vars, Continues
<1>2. ASSUME NEW p \in Clients, NEW r \in Requests, Begin(p, r)
      PROVE  \/ tx[q] # NoTx /\ Continues(tx[q], tx'[q])
             \/ db' = db /\ Starts(tx'[q])
  <2> DEFINE u == [pc |-> After(r, "begin"), req |-> r, snap |-> db, held |-> {}, stale |-> {}]
  <2>1. tx' = [tx EXCEPT ![p] = u] /\ db' = db /\ Admissible(r)
    BY <1>2 DEF Begin
  <2>2. /\ u.snap = db /\ u.stale = {} /\ u.req = r /\ u.held = {}
    OBVIOUS
  <2> HIDE DEF u
  <2>3. Starts(u)
    BY <2>1, <2>2 DEF Starts, HeldBelow
  <2>4. CASE q = p
    BY <1>0, <2>1, <2>3, <2>4
  <2>5. CASE q # p
    BY <1>0, <2>1, <2>5 DEF Continues
  <2> QED
    BY <2>4, <2>5
<1>3. ASSUME NEW p \in Clients, tx' = [tx EXCEPT ![p] = NoTx]
      PROVE  tx[q] # NoTx /\ Continues(tx[q], tx'[q])
  BY <1>0, <1>3 DEF Continues
<1>4. ASSUME NEW p \in Clients, Step(p)
      PROVE  \/ tx[q] # NoTx /\ Continues(tx[q], tx'[q])
             \/ db' = db /\ Starts(tx'[q])
  <2>1. tx[p] # NoTx /\ tx[p] \in Transaction
    BY <1>4, IdleTakesNoStep, OpenTransaction
  <2>2. CASE \/ LockOrder(p) \/ LockShift(p) \/ LockCoupon(p)
             \/ InsertPayment(p) \/ InsertShift(p)
    <3>1. PICK S \in SUBSET Locks, pc \in {"order", "shift", "insert", "coupon", "commit"} :
            /\ tx' = [tx EXCEPT ![p] = Advanced(tx[p], S, pc)]
            /\ HeldBelow(tx[p]) => HeldBelow(Advanced(tx[p], S, pc))
      BY <2>1, <2>2, LockStepAdvances
    <3> DEFINE u == Advanced(tx[p], S, pc)
    <3>2. u.snap = tx[p].snap /\ u.req = tx[p].req /\ u.stale = tx[p].stale
      BY <2>1, AdvancedFields
    <3>3. Continues(tx[p], u)
      BY <3>1, <3>2 DEF Continues
    <3> HIDE DEF u
    <3>4. tx' = [tx EXCEPT ![p] = u]
      BY <3>1 DEF u
    <3>5. CASE q = p
      BY <1>0, <2>1, <3>3, <3>4, <3>5
    <3>6. CASE q # p
      BY <1>0, <3>4, <3>6 DEF Continues
    <3> QED
      BY <3>5, <3>6
  <2>3. CASE ReplayUnderLock(p) \/ ReplayAfterConflict(p)
    BY <1>3, <2>3 DEF ReplayUnderLock, ReplayAfterConflict
  <2>4. CASE KeyConflict(p)
    <3> DEFINE u == [pc |-> "probe", req |-> tx[p].req, snap |-> db, held |-> {}, stale |-> {}]
    <3>1. tx' = [tx EXCEPT ![p] = u] /\ db' = db /\ tx[p].req.op = "collect"
      BY <2>4 DEF KeyConflict
    <3>2. u.snap = db /\ u.stale = {} /\ u.req = tx[p].req /\ u.held = {}
      OBVIOUS
    <3> HIDE DEF u
    <3>3. Starts(u)
      BY <3>1, <3>2 DEF Starts, HeldBelow
    <3>4. CASE q = p
      BY <1>0, <3>1, <3>3, <3>4
    <3>5. CASE q # p
      BY <1>0, <3>1, <3>5 DEF Continues
    <3> QED
      BY <3>4, <3>5
  <2>5. CASE \/ CommitCollect(p) \/ CommitReverse(p) \/ CommitClose(p) \/ CommitOpen(p)
             \/ CommitVoid(p) \/ CommitDiscount(p) \/ CommitFire(p)
    <3>1. tx' = Committed(p)
      BY <2>1, <2>5, CommitsWrite
    <3>2. tx[q] # NoTx /\ tx'[q] = [tx[q] EXCEPT !.stale = @ \cup tx[p].held]
      BY <3>1 DEF Committed
    <3>3. tx[q] \in Transaction
      BY <3>2, OpenTransaction
    <3>4. /\ tx'[q].snap = tx[q].snap /\ tx'[q].req = tx[q].req /\ tx'[q].held = tx[q].held
          /\ tx'[q].pc = tx[q].pc /\ tx'[q].stale = tx[q].stale \cup tx[p].held
      BY Zenon, <3>2, <3>3 DEF Transaction
    <3> QED
      BY <3>2, <3>4 DEF Continues, HeldBelow
  <2> QED
    BY Zenon, <1>4, <2>2, <2>3, <2>4, <2>5 DEF Step
<1> QED
  BY <1>1, <1>2, <1>3, <1>4 DEF Next, Rollback

-----------------------------------------------------------------------------
(* No cycle of waiting transactions *)

LocksTakenInOrder == \A p \in Clients : tx[p] # NoTx => HeldBelow(tx[p])

LEMMA LocksStayInOrder == Spec => []LocksTakenInOrder
<1>1. Init => LocksTakenInOrder
  BY DEF Init, LocksTakenInOrder
<1>2. TypeOK /\ Locking /\ LocksTakenInOrder /\ [Next]_vars => LocksTakenInOrder'
  <2> SUFFICES ASSUME TypeOK, Locking, LocksTakenInOrder, [Next]_vars,
                      NEW q \in Clients, tx'[q] # NoTx
               PROVE  HeldBelow(tx'[q])
    BY DEF LocksTakenInOrder, HeldBelow
  <2> QED
    BY TransactionsEvolve DEF LocksTakenInOrder, Continues, Starts
<1> QED
  BY <1>1, <1>2, TypeCorrect, LockingInvariant, PTL DEF Spec

(* The uniform lock order (order, then shift or coupon, then index entry)   *)
(* leaves no set of transactions that all wait for one another.             *)
THEOREM LockOrderPreventsCycles == Spec => []NoWaitCycle
<1>1. TypeOK /\ LocksTakenInOrder => NoWaitCycle
  <2> SUFFICES ASSUME TypeOK, LocksTakenInOrder, NEW S \in SUBSET Clients, S # {},
                      \A p \in S : \E q \in S : Wants(tx[p]) \cap tx[q].held # {}
               PROVE  FALSE
    BY Zenon DEF NoWaitCycle
  <2>1. \A p \in S : tx[p] # NoTx /\ tx[p].pc \in {"order", "shift", "coupon", "insert"}
    <3> SUFFICES ASSUME NEW p \in S
                 PROVE  tx[p] # NoTx /\ tx[p].pc \in {"order", "shift", "coupon", "insert"}
      OBVIOUS
    <3>1. Wants(tx[p]) # {}
      OBVIOUS
    <3>2. tx[p].pc \in {"order", "shift", "coupon", "insert"}
      BY <3>1 DEF Wants
    <3>3. NoTx.pc = "idle"
      BY DEF NoTx
    <3> QED
      BY <3>2, <3>3
  <2>2. \A q \in S : HeldBelow(tx[q])
    BY <2>1 DEF LocksTakenInOrder
  <2>3. ASSUME NEW p \in S, tx[p].pc = "insert" PROVE FALSE
    <3>1. \A r \in Wants(tx[p]) : r[1] \in {"till", "key"}
      BY <2>3 DEF Wants, Row
    <3>2. PICK q \in S : \E r \in tx[q].held : r[1] \in {"till", "key"}
      BY <3>1
    <3> QED
      BY <2>1, <2>2, <3>2 DEF HeldBelow
  <2>4. ASSUME NEW p \in S, tx[p].pc \in {"shift", "coupon"} PROVE FALSE
    <3>1. \A r \in Wants(tx[p]) : r[1] \in {"shift", "coupon"}
      BY <2>4 DEF Wants, Row
    <3>2. PICK q \in S : \E r \in tx[q].held : r[1] \in {"shift", "coupon"}
      BY <3>1
    <3> QED
      BY <2>1, <2>2, <2>3, <3>2 DEF HeldBelow
  <2>5. ASSUME NEW p \in S, tx[p].pc = "order" PROVE FALSE
    <3>1. PICK q \in S : tx[q].held # {}
      OBVIOUS
    <3> QED
      BY <2>1, <2>2, <2>3, <2>4, <3>1 DEF HeldBelow
  <2> QED
    BY <2>1, <2>3, <2>4, <2>5
<1> QED
  BY <1>1, TypeCorrect, LocksStayInOrder, PTL

-----------------------------------------------------------------------------
(* Answers to keyed collects *)

(* Two payment rows that differ at most in their status. *)
SamePayment(a, b) ==
  /\ a.key = b.key /\ a.order = b.order /\ a.method = b.method
  /\ a.tender = b.tender /\ a.net = b.net /\ a.shift = b.shift

LEMMA PaymentsKept ==
  ASSUME TypeOK, Locking, [Next]_vars, NEW i \in PaymentIds, db.payments[i] # None
  PROVE  db'.payments[i] # None /\ SamePayment(db'.payments[i], db.payments[i])
<1>1. CASE db'.payments = db.payments
  BY <1>1 DEF SamePayment
<1>2. CASE db'.payments # db.payments
  <2>1. PICK p \in Clients :
          /\ tx[p] # NoTx
          /\ \/ CommitCollect(p) \/ CommitReverse(p) \/ CommitClose(p) \/ CommitOpen(p)
             \/ CommitVoid(p) \/ CommitDiscount(p) \/ CommitFire(p)
    BY <1>2, NextKinds
  <2>2. CASE CommitCollect(p)
    <3>1. PICK j \in PaymentIds : Collected1(p, j)
      BY Zenon, <2>1, <2>2, CollectEffect
    <3>2. /\ db.payments[j] = None
          /\ \A x \in PaymentIds \ {j} : db'.payments[x] = db.payments[x]
      BY Zenon, <3>1 DEF Collected1
    <3> QED
      BY <3>2 DEF SamePayment
  <2>3. CASE CommitReverse(p)
    <3>1. Reversed1(p)
      BY <2>1, <2>3, ReverseEffect
    <3>2. CASE i = tx[p].req.payment
      BY Zenon, <3>1, <3>2 DEF Reversed1, SamePayment
    <3>3. CASE i # tx[p].req.payment
      <4>1. db'.payments[i] = db.payments[i]
        BY Zenon, <3>1, <3>3 DEF Reversed1
      <4> QED
        BY <4>1 DEF SamePayment
    <3> QED
      BY <3>2, <3>3
  <2>4. ~ (CommitClose(p) \/ CommitOpen(p) \/ CommitVoid(p) \/ CommitDiscount(p) \/ CommitFire(p))
    BY Zenon, <1>2, <2>1, CloseEffect, OpenEffect, VoidEffect, OtherEffects
  <2> QED
    BY <2>1, <2>2, <2>3, <2>4
<1> QED
  BY <1>1, <1>2

(* A payment a snapshot shows is the payment recorded under its id. *)
SnapshotPaymentsKept ==
  \A p \in Clients : tx[p] # NoTx =>
    \A i \in PaymentIds : tx[p].snap.payments[i] # None =>
      db.payments[i] # None /\ SamePayment(db.payments[i], tx[p].snap.payments[i])

LEMMA SnapshotsShowPayments == Spec => []SnapshotPaymentsKept
<1>1. Init => SnapshotPaymentsKept
  BY DEF Init, SnapshotPaymentsKept
<1>2. TypeOK /\ Locking /\ SnapshotPaymentsKept /\ [Next]_vars => SnapshotPaymentsKept'
  <2> SUFFICES ASSUME TypeOK, Locking, SnapshotPaymentsKept, [Next]_vars,
                      NEW q \in Clients, tx'[q] # NoTx,
                      NEW i \in PaymentIds, tx'[q].snap.payments[i] # None
               PROVE  /\ db'.payments[i] # None
                      /\ SamePayment(db'.payments[i], tx'[q].snap.payments[i])
    BY DEF SnapshotPaymentsKept
  <2>1. CASE tx[q] # NoTx /\ Continues(tx[q], tx'[q])
    <3>1. tx'[q].snap = tx[q].snap
      BY <2>1 DEF Continues
    <3>2. /\ db.payments[i] # None /\ SamePayment(db.payments[i], tx[q].snap.payments[i])
      BY <2>1, <3>1 DEF SnapshotPaymentsKept
    <3>3. db'.payments[i] # None /\ SamePayment(db'.payments[i], db.payments[i])
      BY <3>2, PaymentsKept
    <3> QED
      BY Zenon, <3>1, <3>2, <3>3 DEF SamePayment
  <2>2. CASE db' = db /\ Starts(tx'[q])
    BY <2>2 DEF Starts, SamePayment
  <2> QED
    BY <2>1, <2>2, TransactionsEvolve
<1> QED
  BY <1>1, <1>2, TypeCorrect, LockingInvariant, PTL DEF Spec

(* Payment i is the answer to request q. *)
Answers(d, i, q) ==
  /\ d.payments[i] # None
  /\ d.payments[i].key = q.key /\ d.payments[i].order = q.order
  /\ d.payments[i].method = q.method /\ d.payments[i].tender = q.tender

(* Whatever a client is told about a keyed collect, by the commit, by the   *)
(* replay under the lock or by the probe after a conflict, is the payment   *)
(* recorded under its key for the order, method and tender it asked for.    *)
THEOREM RepliesAreFaithful == Spec => []AnswersAgree
<1>1. Init => AnswersAgree
  BY Zenon DEF Init, AnswersAgree
<1>2. TypeOK /\ Locking /\ SnapshotPaymentsKept /\ AnswersAgree /\ [Next]_vars => AnswersAgree'
  <2> SUFFICES ASSUME TypeOK, Locking, SnapshotPaymentsKept, AnswersAgree, [Next]_vars,
                      NEW a \in acked'
               PROVE  Answers(db', a.payment, a.req)
    BY Zenon DEF Answers, AnswersAgree
  <2>1. ASSUME a \in acked PROVE Answers(db', a.payment, a.req)
    <3>1. Answers(db, a.payment, a.req) /\ a.payment \in PaymentIds
      BY <2>1 DEF AnswersAgree, Answers, TypeOK
    <3>2. /\ db'.payments[a.payment] # None
          /\ SamePayment(db'.payments[a.payment], db.payments[a.payment])
      BY <3>1, PaymentsKept DEF Answers
    <3> QED
      BY <3>1, <3>2 DEF Answers, SamePayment
  <2>2. ASSUME NEW p \in Clients, tx[p] # NoTx, db' = db,
               NEW i \in PaymentsWithKey(tx[p].snap, tx[p].req.key),
               Matches(tx[p].snap.payments[i], tx[p].req)
        PROVE  Answers(db', i, tx[p].req)
    <3>1. i \in PaymentIds /\ tx[p].snap.payments[i] # None
          /\ tx[p].snap.payments[i].key = tx[p].req.key
      BY DEF PaymentsWithKey
    <3>2. db.payments[i] # None /\ SamePayment(db.payments[i], tx[p].snap.payments[i])
      BY <2>2, <3>1 DEF SnapshotPaymentsKept
    <3> QED
      BY <2>2, <3>1, <3>2 DEF Answers, SamePayment, Matches
  <2>3. ASSUME a \notin acked PROVE Answers(db', a.payment, a.req)
    <3>1. PICK p \in Clients : CommitCollect(p) \/ ReplayUnderLock(p) \/ ReplayAfterConflict(p)
      <4>1. acked' # acked
        BY <2>3
      <4>2. PICK p \in Clients : (\E q \in Requests : Begin(p, q)) \/ Step(p) \/ Rollback(p)
        BY <4>1 DEF Next, vars
      <4>3. Step(p)
        BY <4>1, <4>2 DEF Begin, Rollback
      <4>4. tx[p] # NoTx
        BY <4>3, IdleTakesNoStep
      <4>5. ~ (LockOrder(p) \/ LockShift(p) \/ LockCoupon(p) \/ InsertPayment(p) \/ InsertShift(p))
        BY <4>1, <4>4, LockStepAdvances
      <4>6. ~ KeyConflict(p)
        BY <4>1 DEF KeyConflict
      <4>7. ~ (CommitReverse(p) \/ CommitClose(p) \/ CommitOpen(p)
               \/ CommitVoid(p) \/ CommitDiscount(p) \/ CommitFire(p))
        BY <4>1, <4>4, CommitReverseWrites, CommitCloseWrites, CommitOpenWrites,
           CommitVoidWrites, CommitDiscountWrites, CommitFireWrites
      <4> QED
        BY <4>3, <4>5, <4>6, <4>7 DEF Step
    <3>2. tx[p] # NoTx
      BY <3>1, IdleTakesNoStep DEF Step
    <3>3. CASE CommitCollect(p)
      <4>1. PICK i \in PaymentIds : Collected1(p, i) /\ Answer(tx[p].req, i)
        BY Zenon, <3>2, <3>3, CollectEffect
      <4>2. a = [req |-> tx[p].req, payment |-> i]
        BY <2>3, <4>1 DEF Answer
      <4>3. /\ db'.payments[i].key = tx[p].req.key /\ db'.payments[i].order = tx[p].req.order
            /\ db'.payments[i].method = tx[p].req.method
            /\ db'.payments[i].tender = tx[p].req.tender
            /\ db'.payments[i] \in PaymentRow
        BY Zenon, <4>1 DEF Collected1
      <4>4. db'.payments[i] # None
        BY Zenon, <4>3, NoneIsNoRow
      <4> QED
        BY <4>2, <4>3, <4>4 DEF Answers
    <3>4. CASE ReplayUnderLock(p)
      <4>1. PICK i \in PaymentsWithKey(tx[p].snap, tx[p].req.key) :
              Matches(tx[p].snap.payments[i], tx[p].req) /\ Answer(tx[p].req, i)
        BY <3>4 DEF ReplayUnderLock
      <4>2. a = [req |-> tx[p].req, payment |-> i]
        BY <2>3, <4>1 DEF Answer
      <4>3. db' = db
        BY <3>4 DEF ReplayUnderLock
      <4> QED
        BY <2>2, <3>2, <4>1, <4>2, <4>3
    <3>5. CASE ReplayAfterConflict(p)
      <4>1. PICK i \in PaymentsWithKey(tx[p].snap, tx[p].req.key) :
              /\ Matches(tx[p].snap.payments[i], tx[p].req)
              /\ a = [req |-> tx[p].req, payment |-> i]
        BY <2>3, <3>5 DEF ReplayAfterConflict
      <4>2. db' = db
        BY <3>5 DEF ReplayAfterConflict
      <4> QED
        BY <2>2, <3>2, <4>1, <4>2
    <3> QED
      BY <3>1, <3>3, <3>4, <3>5
  <2> QED
    BY <2>1, <2>3
<1> QED
  BY <1>1, <1>2, TypeCorrect, LockingInvariant, SnapshotsShowPayments, PTL DEF Spec

-----------------------------------------------------------------------------
(* Closed shifts *)

(* The payments that a shift's cash sales add up. *)
Counted(d, s, i) == /\ d.payments[i].status = "completed"
                    /\ d.payments[i].shift = s
                    /\ d.payments[i].method = "cash"

LEMMA SameSales ==
  ASSUME NEW d, NEW e, NEW s,
         \A i \in PaymentIds : \/ d.payments[i] = e.payments[i]
                               \/ ~ Counted(d, s, i) /\ ~ Counted(e, s, i)
  PROVE  CashSales(d, s) = CashSales(e, s)
<1> DEFINE D == {i \in PaymentIds : Counted(d, s, i)}
           E == {i \in PaymentIds : Counted(e, s, i)}
<1>1. D = E
  BY DEF Counted
<1>2. \A i \in E : d.payments[i] = e.payments[i]
  BY DEF Counted
<1>3. {<<i, d.payments[i].net>> : i \in D} = {<<i, e.payments[i].net>> : i \in E}
  <2> HIDE DEF D, E
  <2> QED
    BY <1>1, <1>2
<1>4. /\ CashSales(d, s) = SumPairs({<<i, d.payments[i].net>> : i \in D})
      /\ CashSales(e, s) = SumPairs({<<i, e.payments[i].net>> : i \in E})
  BY Zenon DEF CashSales, Counted
<1> QED
  BY Zenon, <1>3, <1>4

LEMMA SamePaymentsSell ==
  ASSUME NEW d, NEW e, NEW s, d.payments = e.payments
  PROVE  CashSales(d, s) = CashSales(e, s)
<1>1. \A i \in PaymentIds : d.payments[i] = e.payments[i]
  OBVIOUS
<1> QED
  BY Zenon, <1>1, SameSales

Exclusive(d) ==
  \A s, u \in ShiftIds :
    /\ d.shifts[s].status = "open" /\ d.shifts[u].status = "open"
    /\ d.shifts[s].cashier = d.shifts[u].cashier
    => s = u

(* The cashiers the code lets reverse a payment are those who took it: the  *)
(* condition under which lifecycleChange locks the payment's own shift.     *)
ReversesOwnOnly == \A c \in Cashiers : Reversers[c] \subseteq {c}

(* What an open transaction knows of the tills: in its snapshot no cashier  *)
(* has two, a reversal was asked by the cashier who took the payment, and   *)
(* the sales of a shift whose row nobody updated since are still the same.  *)
TillsKnown ==
  \A p \in Clients : tx[p] # NoTx =>
    /\ Exclusive(tx[p].snap)
    /\ tx[p].req.op = "reverse" =>
         tx[p].req.actor \in
           Reversers[tx[p].snap.shifts[tx[p].snap.payments[tx[p].req.payment].shift].cashier]
    /\ \A s \in ShiftIds : Row("shift", s) \notin tx[p].stale =>
         CashSales(tx[p].snap, s) = CashSales(db, s)

(* A reversal holds the row of the shift its payment was taken on. *)
LEMMA ReversalHoldsShift ==
  ASSUME ReversesOwnOnly, TypeOK, Locking, TillsKnown,
         NEW p \in Clients, tx[p] # NoTx, CommitReverse(p)
  PROVE  /\ tx[p].req.payment \in PaymentIds
         /\ db.payments[tx[p].req.payment].shift \in ShiftIds
         /\ Row("shift", db.payments[tx[p].req.payment].shift) \in tx[p].held
<1> DEFINE t == tx[p]
           i == t.req.payment
           u == t.snap.payments[i].shift
<1>1. /\ t.req \in Requests /\ t.snap \in Database /\ LocksOwned(t) /\ SnapshotCurrent(db, t)
      /\ t.pc = "commit" /\ t.req.op = "reverse" /\ t.snap.payments[i].status = "completed"
      /\ t.snap.shifts[u].status = "open"
  BY Zenon, OpenTransaction DEF Locking, CommitReverse, Transaction
<1>2. t.req \in Reversals /\ i \in PaymentIds
  BY Zenon, <1>1, RequestFields DEF Reversals
<1>3. t.snap.payments[i] # None
  <2>1. t.snap.payments[i].status = "completed"
    BY Zenon, <1>1
  <2> HIDE DEF t, i
  <2> QED
    BY <2>1 DEF None
<1>4. t.snap.payments[i] \in PaymentRow /\ u \in ShiftIds
  <2>1. t.snap.payments \in [PaymentIds -> PaymentRow \cup {None}]
    BY Zenon, <1>1 DEF Database
  <2> HIDE DEF t, i
  <2>2. t.snap.payments[i] \in PaymentRow
    BY <1>2, <1>3, <2>1
  <2> QED
    BY <2>2 DEF PaymentRow
<1>5. db.payments[i].shift = u
  BY Zenon, <1>1, <1>2, <1>3 DEF SnapshotCurrent
<1>6. PICK s \in ShiftIds : /\ t.snap.shifts[s].status = "open"
                            /\ t.snap.shifts[s].cashier = t.req.actor
                            /\ Row("shift", s) \in t.held
  BY Zenon, <1>1 DEF LocksOwned, OpenShiftsAt, OpenShifts
<1>7. t.snap.shifts[u].cashier \in Cashiers
  <2>1. t.snap.shifts \in [ShiftIds -> ShiftRow \cup {None}]
    BY Zenon, <1>1 DEF Database
  <2>2. t.snap.shifts[u] # None
    <3>1. t.snap.shifts[u].status = "open"
      BY Zenon, <1>1
    <3> HIDE DEF t, u
    <3> QED
      BY <3>1 DEF None
  <2> HIDE DEF t, u
  <2>3. t.snap.shifts[u] \in ShiftRow
    BY <1>4, <2>1, <2>2
  <2> QED
    BY Zenon, <2>3 DEF ShiftRow
<1>8. /\ Exclusive(t.snap)
      /\ t.req.actor \in Reversers[t.snap.shifts[u].cashier]
  BY <1>1, Zenon DEF TillsKnown
<1>9. t.req.actor = t.snap.shifts[u].cashier
  BY Zenon, <1>7, <1>8 DEF ReversesOwnOnly
<1>10. s = u
  BY Zenon, <1>1, <1>4, <1>6, <1>8, <1>9 DEF Exclusive
<1> QED
  BY Zenon, <1>2, <1>4, <1>5, <1>6, <1>10

(* A commit changes the sales of no shift whose row it does not hold. *)
LEMMA OnlyHeldSales ==
  ASSUME ReversesOwnOnly, TypeOK, Locking, TillsKnown, NEW p \in Clients, tx[p] # NoTx,
         \/ CommitCollect(p) \/ CommitReverse(p) \/ CommitClose(p) \/ CommitOpen(p)
         \/ CommitVoid(p) \/ CommitDiscount(p) \/ CommitFire(p),
         NEW s \in ShiftIds, Row("shift", s) \notin tx[p].held
  PROVE  CashSales(db', s) = CashSales(db, s)
<1>1. CASE CommitCollect(p)
  <2>1. PICK i \in PaymentIds : Collected1(p, i)
    BY Zenon, <1>1, CollectEffect
  <2>2. Row("shift", ShiftHeld(tx[p])) \in tx[p].held
    BY Zenon, <1>1, CollectEffect
  <2>3. /\ db.payments[i] = None /\ db'.payments[i].shift = ShiftHeld(tx[p])
        /\ \A x \in PaymentIds \ {i} : db'.payments[x] = db.payments[x]
    BY Zenon, <2>1 DEF Collected1
  <2>4. ShiftHeld(tx[p]) # s
    BY Zenon, <2>2
  <2>5. ~ Counted(db', s, i)
    BY Zenon, <2>3, <2>4 DEF Counted
  <2>6. ~ Counted(db, s, i)
    <3>1. None.status # "completed"
      BY DEF None
    <3> QED
      BY Zenon, <2>3, <3>1 DEF Counted
  <2>7. \A x \in PaymentIds : \/ db'.payments[x] = db.payments[x]
                              \/ ~ Counted(db', s, x) /\ ~ Counted(db, s, x)
    BY Zenon, <2>3, <2>5, <2>6
  <2> QED
    BY Zenon, <2>7, SameSales
<1>2. CASE CommitReverse(p)
  <2> DEFINE i == tx[p].req.payment
  <2>1. i \in PaymentIds /\ Row("shift", db.payments[i].shift) \in tx[p].held
    BY Zenon, <1>2, ReversalHoldsShift
  <2>2. Reversed1(p)
    BY Zenon, <1>2, ReverseEffect
  <2>3. /\ db'.payments[i].shift = db.payments[i].shift
        /\ \A x \in PaymentIds \ {i} : db'.payments[x] = db.payments[x]
    BY Zenon, <2>2 DEF Reversed1
  <2>4. db.payments[i].shift # s
    BY Zenon, <2>1
  <2>5. ~ Counted(db', s, i) /\ ~ Counted(db, s, i)
    BY Zenon, <2>3, <2>4 DEF Counted
  <2> HIDE DEF i
  <2>6. \A x \in PaymentIds : \/ db'.payments[x] = db.payments[x]
                              \/ ~ Counted(db', s, x) /\ ~ Counted(db, s, x)
    BY Zenon, <2>3, <2>5
  <2> QED
    BY Zenon, <2>6, SameSales
<1>3. CASE ~ CommitCollect(p) /\ ~ CommitReverse(p)
  <2>1. db'.payments = db.payments
    <3>1. CASE CommitClose(p)
      BY Zenon, <3>1, CloseEffect
    <3>2. CASE CommitOpen(p)
      BY Zenon, <3>2, OpenEffect
    <3>3. CASE CommitVoid(p)
      BY Zenon, <3>3, VoidEffect
    <3>4. CASE CommitFire(p) \/ CommitDiscount(p)
      BY <3>4, OtherEffects
    <3> QED
      BY <1>3, <3>1, <3>2, <3>3, <3>4
  <2> QED
    BY Zenon, <2>1, SamePaymentsSell
<1> QED
  BY Zenon, <1>1, <1>2, <1>3

LEMMA TillsStayKnown == ASSUME ReversesOwnOnly PROVE Spec => []TillsKnown
<1>1. Init => TillsKnown
  BY Zenon DEF Init, TillsKnown
<1>2. TypeOK /\ Locking /\ TillsExclusive /\ TillsKnown /\ [Next]_vars => TillsKnown'
  <2> SUFFICES ASSUME TypeOK, Locking, TillsExclusive, TillsKnown, [Next]_vars,
                      NEW q \in Clients, tx'[q] # NoTx
               PROVE  /\ Exclusive(tx'[q].snap)
                      /\ tx'[q].req.op = "reverse" =>
                           tx'[q].req.actor \in
                             Reversers[tx'[q].snap.shifts[
                               tx'[q].snap.payments[tx'[q].req.payment].shift].cashier]
                      /\ \A s \in ShiftIds : Row("shift", s) \notin tx'[q].stale =>
                           CashSales(tx'[q].snap, s) = CashSales(db', s)
    BY Zenon DEF TillsKnown
  <2>1. CASE db' = db /\ Starts(tx'[q])
    <3>1. tx'[q].snap = db /\ (tx'[q].req.op = "reverse" => Admissible(tx'[q].req))
      BY <2>1 DEF Starts
    <3>2. Exclusive(db)
      BY DEF Exclusive, TillsExclusive
    <3> QED
      BY Zenon, <2>1, <3>1, <3>2 DEF Admissible
  <2>2. CASE tx[q] # NoTx /\ Continues(tx[q], tx'[q])
    <3>1. /\ tx'[q].snap = tx[q].snap /\ tx'[q].req = tx[q].req
          /\ tx[q].stale \subseteq tx'[q].stale
      BY Zenon, <2>2 DEF Continues
    <3>2. /\ Exclusive(tx'[q].snap)
          /\ tx'[q].req.op = "reverse" =>
               tx'[q].req.actor \in
                 Reversers[tx'[q].snap.shifts[
                   tx'[q].snap.payments[tx'[q].req.payment].shift].cashier]
      BY Zenon, <2>2, <3>1 DEF TillsKnown
    <3>3. ASSUME NEW s \in ShiftIds, Row("shift", s) \notin tx'[q].stale
          PROVE  CashSales(tx'[q].snap, s) = CashSales(db', s)
      <4>1. CashSales(tx[q].snap, s) = CashSales(db, s)
        BY Zenon, <2>2, <3>1, <3>3 DEF TillsKnown
      <4>2. CASE db' = db
        BY Zenon, <3>1, <4>1, <4>2
      <4>3. CASE db' # db
        <5>1. PICK p \in Clients :
                /\ tx[p] # NoTx
                /\ \/ CommitCollect(p) \/ CommitReverse(p) \/ CommitClose(p) \/ CommitOpen(p)
                   \/ CommitVoid(p) \/ CommitDiscount(p) \/ CommitFire(p)
          BY <4>3, NextKinds
        <5>2. tx' = Committed(p)
          BY <5>1, CommitsWrite
        <5>3. tx'[q] = [tx[q] EXCEPT !.stale = @ \cup tx[p].held]
          BY <5>2 DEF Committed
        <5>4. tx[q] \in Transaction
          BY <2>2, OpenTransaction
        <5>5. tx'[q].stale = tx[q].stale \cup tx[p].held
          BY Zenon, <5>3, <5>4 DEF Transaction
        <5>6. Row("shift", s) \notin tx[p].held
          BY Zenon, <3>3, <5>5
        <5>7. CashSales(db', s) = CashSales(db, s)
          BY Zenon, <5>1, <5>6, OnlyHeldSales
        <5> QED
          BY Zenon, <3>1, <4>1, <5>7
      <4> QED
        BY <4>2, <4>3
    <3> QED
      BY Zenon, <3>2, <3>3
  <2> QED
    BY Zenon, <2>1, <2>2, TransactionsEvolve
<1> QED
  BY <1>1, <1>2, TypeCorrect, LockingInvariant, TillsStayExclusive, PTL DEF Spec

(* The Z Report stands.  When only the cashier who took a payment may       *)
(* reverse it, the cash sales closeShift recorded are those of the shift's  *)
(* payments for ever after: every later collect or reversal on that shift   *)
(* would have to hold the row the close has updated.  Without the condition *)
(* lifecycleChange locks the wrong shift, and the statement is false.       *)
THEOREM ZReportStands ==
  ASSUME ReversesOwnOnly
  PROVE  Spec => []ZReportMatchesPayments
<1>1. Init => ZReportMatchesPayments
  <2>1. None.status = "none"
    BY DEF None
  <2>2. Init => \A s \in ShiftIds : db.shifts[s] = None
    BY DEF Init
  <2> QED
    BY <2>1, <2>2 DEF ZReportMatchesPayments
<1>2. TypeOK /\ Locking /\ TillsKnown /\ ZReportMatchesPayments /\ [Next]_vars
        => ZReportMatchesPayments'
  <2> SUFFICES ASSUME TypeOK, Locking, TillsKnown, ZReportMatchesPayments, [Next]_vars,
                      NEW s \in ShiftIds, db'.shifts[s].status = "closed"
               PROVE  db'.shifts[s].recorded = CashSales(db', s)
    BY DEF ZReportMatchesPayments
  <2>1. CASE db' = db
    BY <2>1 DEF ZReportMatchesPayments
  <2>2. CASE db' # db
    <3>1. PICK p \in Clients :
            /\ tx[p] # NoTx
            /\ \/ CommitCollect(p) \/ CommitReverse(p) \/ CommitClose(p) \/ CommitOpen(p)
               \/ CommitVoid(p) \/ CommitDiscount(p) \/ CommitFire(p)
      BY <2>2, NextKinds
    <3>2. LocksOwned(tx[p]) /\ SnapshotCurrent(db, tx[p])
      BY Zenon, <3>1 DEF Locking
    <3>3. CASE CommitClose(p)
      <4>1. PICK c \in ShiftIds :
              /\ c = tx[p].req.shift /\ Row("shift", c) \in tx[p].held
              /\ db'.shifts[c].recorded = CashSales(tx[p].snap, c)
              /\ \A x \in ShiftIds \ {c} : db'.shifts[x] = db.shifts[x]
              /\ db'.payments = db.payments
        BY Zenon, <3>1, <3>3, CloseEffect
      <4>2. CashSales(db', s) = CashSales(db, s)
        <5>1. db'.payments = db.payments
          BY Zenon, <4>1
        <5> QED
          BY Zenon, <5>1, SamePaymentsSell
      <4>3. CASE s = c
        <5>1. Row("shift", c) \notin tx[p].stale
          <6>1. Row("shift", c)[1] = "shift"
            BY Zenon DEF Row
          <6> QED
            BY Zenon, <3>2, <4>1, <6>1 DEF SnapshotCurrent
        <5>2. CashSales(tx[p].snap, c) = CashSales(db, c)
          BY Zenon, <3>1, <5>1 DEF TillsKnown
        <5> QED
          BY Zenon, <4>1, <4>2, <4>3, <5>2
      <4>4. CASE s # c
        BY Zenon, <4>1, <4>2, <4>4 DEF ZReportMatchesPayments
      <4> QED
        BY <4>3, <4>4
    <3>4. CASE CommitOpen(p)
      <4>1. /\ db'.payments = db.payments
            /\ \E u \in ShiftIds : /\ db'.shifts[u].status = "open"
                                   /\ \A x \in ShiftIds \ {u} : db'.shifts[x] = db.shifts[x]
        BY Zenon, <3>1, <3>4, OpenEffect
      <4>2. CashSales(db', s) = CashSales(db, s)
        <5>1. db'.payments = db.payments
          BY <4>1
        <5> QED
          BY Zenon, <5>1, SamePaymentsSell
      <4> QED
        BY <4>1, <4>2 DEF ZReportMatchesPayments
    <3>5. CASE ~ CommitClose(p) /\ ~ CommitOpen(p)
      <4>1. db'.shifts = db.shifts
        <5>1. CASE CommitCollect(p)
          BY Zenon, <3>1, <5>1, CollectEffect DEF Collected1
        <5>2. CASE CommitReverse(p)
          BY Zenon, <3>1, <5>2, ReverseEffect DEF Reversed1
        <5>3. CASE CommitVoid(p)
          BY Zenon, <3>1, <5>3, VoidEffect
        <5>4. CASE CommitFire(p) \/ CommitDiscount(p)
          BY Zenon, <3>1, <5>4, OtherEffects
        <5> QED
          BY Zenon, <3>1, <3>5, <5>1, <5>2, <5>3, <5>4
      <4>2. Row("shift", s) \notin tx[p].held
        <5>1. SUFFICES ASSUME Row("shift", s) \in tx[p].held PROVE FALSE
          OBVIOUS
        <5>2. Row("shift", s)[1] = "shift"
          BY DEF Row
        <5>3. tx[p].snap.shifts[s].status = "open" /\ Row("shift", s) \notin tx[p].stale
          BY Zenon, <3>2, <5>1, <5>2 DEF LocksOwned, SnapshotCurrent
        <5>4. tx[p].snap.shifts[s] # None
          <6>1. None.status # "open"
            BY DEF None
          <6> QED
            BY Zenon, <5>3, <6>1
        <5>5. tx[p].snap.shifts[s] = db.shifts[s]
          BY Zenon, <3>2, <5>3, <5>4 DEF SnapshotCurrent
        <5> QED
          BY <4>1, <5>3, <5>5
      <4>3. CashSales(db', s) = CashSales(db, s)
        BY Zenon, <3>1, <4>2, OnlyHeldSales
      <4> QED
        BY <4>1, <4>3 DEF ZReportMatchesPayments
    <3> QED
      BY <3>3, <3>4, <3>5
  <2> QED
    BY <2>1, <2>2
<1> QED
  BY <1>1, <1>2, TypeCorrect, LockingInvariant, TillsStayKnown, PTL DEF Spec
=============================================================================
