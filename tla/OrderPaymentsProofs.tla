------------------------ MODULE OrderPaymentsProofs ------------------------
(***************************************************************************)
(* Proofs about OrderPayments, for every set of clients, orders, payments,  *)
(* shifts, keys and coupons.                                                *)
(***************************************************************************)
EXTENDS OrderPayments, TLAPS

-----------------------------------------------------------------------------
(* Facts about requests and transactions *)

(* The operation of a request tells which fields it has. *)
LEMMA RequestFields ==
  ASSUME NEW q \in Requests
  PROVE  /\ q.op = "collect"  => q \in Collects
         /\ q.op = "reverse"  => q \in Reversals
         /\ q.op = "open"     => q \in Openings
         /\ q.op = "close"    => q \in Closings
         /\ q.op = "void"     => q \in LineVoids
         /\ q.op = "discount" => q \in Discounts
         /\ q.op = "fire"     => q \in Firings
         /\ q.op \in {"collect", "reverse", "open", "close", "void", "discount", "fire"}
BY DEF Requests, Collects, Reversals, Openings, Closings, LineVoids, Discounts, Firings

(* The step after a step is one a transaction can be at. *)
LEMMA AfterTyped ==
  ASSUME NEW q, NEW pc
  PROVE  After(q, pc) \in {"order", "shift", "insert", "coupon", "commit"}
BY DEF After

(* A lock is on a row of a table, or on an entry of a unique index. *)
LEMMA RowIsLock ==
  /\ \A k, x : Row(k, x)[1] = k /\ Row(k, x)[2] = x
  /\ \A o \in Orders : Row("order", o) \in Locks
  /\ \A s \in ShiftIds : Row("shift", s) \in Locks
  /\ \A c \in Coupons : Row("coupon", c) \in Locks
  /\ \A k \in Keys : Row("key", k) \in Locks
  /\ \A c \in Cashiers : Row("till", c) \in Locks
BY DEF Locks, Row

LEMMA LockIsRow ==
  ASSUME NEW r \in Locks
  PROVE  /\ r = Row(r[1], r[2])
         /\ r[1] = "order" => r[2] \in Orders
         /\ r[1] = "shift" => r[2] \in ShiftIds
         /\ r[1] = "coupon" => r[2] \in Coupons
BY DEF Locks, Row

(* An open transaction is typed, and the order it works on is an order. *)
LEMMA OpenTransaction ==
  ASSUME TypeOK, NEW p \in Clients, tx[p] # NoTx
  PROVE  /\ tx[p] \in Transaction
         /\ tx[p].req \in Requests
         /\ tx[p].snap \in Database
         /\ tx[p].held \in SUBSET Locks
         /\ tx[p].stale \in SUBSET Locks
BY DEF TypeOK, Transaction

LEMMA NoTxIsNoTransaction == NoTx \notin Transaction
BY DEF NoTx, Transaction

LEMMA OrderOfTyped ==
  ASSUME NEW t \in Transaction, t.req.op \notin {"open", "close"},
         t.req.op = "reverse" => t.snap.payments[t.req.payment] # None
  PROVE  OrderOf(t) \in Orders
<1>1. t.req \in Requests /\ t.snap \in Database
  BY DEF Transaction
<1>2. CASE t.req.op = "reverse"
  <2>1. t.req.payment \in PaymentIds
    BY <1>1, <1>2, RequestFields DEF Reversals
  <2>2. t.snap.payments[t.req.payment] \in PaymentRow
    BY <1>1, <1>2, <2>1 DEF Database
  <2> QED
    BY <1>2, <2>2 DEF OrderOf, PaymentRow
<1>3. CASE t.req.op # "reverse"
  <2>1. t.req \in Collects \cup LineVoids \cup Discounts \cup Firings
    BY <1>1, <1>3, RequestFields
  <2> QED
    BY <1>3, <2>1 DEF OrderOf, Collects, LineVoids, Discounts, Firings
<1> QED
  BY <1>2, <1>3

-----------------------------------------------------------------------------
(* Steps that write no table *)

(* The part of the invariant about one transaction. *)
Sound(d, t) == LocksOwned(t) /\ SnapshotCurrent(d, t) /\ EntriesReserved(d, t)

(* A step that changes only what one client's transaction is keeps the      *)
(* invariant if the new transaction is sound and takes only free locks.     *)
LEMMA OneTransactionChanges ==
  ASSUME TypeOK, Locking, NEW p \in Clients, NEW t \in Transaction \cup {NoTx},
         db' = db, tx' = [tx EXCEPT ![p] = t],
         t # NoTx => Sound(db, t),
         \A r \in t.held : r \in tx[p].held \/ Free(r)
  PROVE  Locking' /\ tx' \in [Clients -> Transaction \cup {NoTx}]
<1> tx \in [Clients -> Transaction \cup {NoTx}]
  BY DEF TypeOK
<1>1. tx' \in [Clients -> Transaction \cup {NoTx}]
  OBVIOUS
<1>2. tx'[p] = t /\ \A q \in Clients \ {p} : tx'[q] = tx[q]
  OBVIOUS
<1>3. \A r \in t.held : \A q \in Clients \ {p} : r \notin tx[q].held
  BY DEF Locking, ExclusiveLocks, Free
<1>4. ExclusiveLocks'
  BY <1>2, <1>3 DEF ExclusiveLocks, Locking
<1>5. \A q \in Clients : tx'[q] # NoTx => Sound(db, tx'[q])
  BY <1>2 DEF Locking, Sound
<1> QED
  BY <1>1, <1>4, <1>5 DEF Locking, Sound

(* A transaction that has just taken its snapshot and holds nothing. *)
Started(q, pc) == [pc |-> pc, req |-> q, snap |-> db, held |-> {}, stale |-> {}]

LEMMA StartedTyped ==
  ASSUME TypeOK, NEW q \in Requests,
         NEW pc \in {"order", "shift", "insert", "coupon", "commit", "probe"}
  PROVE  /\ Started(q, pc) \in Transaction
         /\ SnapshotCurrent(db, Started(q, pc))
<1> DEFINE t == Started(q, pc)
<1>1. t \in Transaction
  BY DEF Started, Transaction, TypeOK
<1>2. t.snap = db /\ t.held = {}
  BY DEF Started
<1> QED
  BY <1>1, <1>2 DEF SnapshotCurrent

LEMMA BeginKeeps ==
  ASSUME TypeOK, Locking, NEW p \in Clients, NEW q \in Requests, Begin(p, q)
  PROVE  Locking' /\ TypeOK'
<1> DEFINE t == Started(q, After(q, "begin"))
<1>1. tx' = [tx EXCEPT ![p] = t] /\ db' = db /\ acked' = acked /\ Admissible(q)
  BY DEF Begin, Started
<1>2. t \in Transaction /\ SnapshotCurrent(db, t)
  BY AfterTyped, StartedTyped
<1>3. t.req = q /\ t.pc = After(q, "begin") /\ t.held = {} /\ t.snap = db
  BY DEF Started
<1>4. /\ q.op \notin {"open", "close"} => t.pc = "order"
      /\ q.op = "open" => t.pc = "insert"
      /\ q.op = "close" => t.pc = "shift"
  BY <1>3 DEF After
<1>5. LocksOwned(t)
  <2>1. /\ q.op = "reverse" => db.payments[q.payment] # None
        /\ q.op = "close" => db.shifts[q.shift] # None
    BY <1>1 DEF Admissible
  <2> QED
    BY <1>3, <1>4, <2>1 DEF LocksOwned
<1>6. EntriesReserved(db, t)
  BY <1>3, <1>4 DEF EntriesReserved
<1>7. Locking' /\ tx' \in [Clients -> Transaction \cup {NoTx}]
  BY Zenon, <1>1, <1>2, <1>3, <1>5, <1>6, OneTransactionChanges DEF Sound
<1> QED
  BY <1>1, <1>7 DEF TypeOK

(* Every step that ends a transaction without writing. *)
LEMMA EndKeeps ==
  ASSUME TypeOK, Locking, NEW p \in Clients, db' = db, tx' = [tx EXCEPT ![p] = NoTx]
  PROVE  Locking' /\ tx' \in [Clients -> Transaction \cup {NoTx}]
<1>1. NoTx.held = {}
  BY DEF NoTx
<1> QED
  BY Zenon, <1>1, OneTransactionChanges

-----------------------------------------------------------------------------
(* Steps that take a lock *)

(* The transaction t after it has taken the locks S and moved on to pc. *)
Advanced(t, S, pc) == [t EXCEPT !.held = @ \cup S, !.pc = pc]

LEMMA AdvancedFields ==
  ASSUME NEW t \in Transaction, NEW S \in SUBSET Locks,
         NEW pc \in {"order", "shift", "insert", "coupon", "commit", "probe"}
  PROVE  /\ Advanced(t, S, pc) \in Transaction
         /\ Advanced(t, S, pc).pc = pc
         /\ Advanced(t, S, pc).held = t.held \cup S
         /\ Advanced(t, S, pc).req = t.req
         /\ Advanced(t, S, pc).snap = t.snap
         /\ Advanced(t, S, pc).stale = t.stale
         /\ OrderOf(Advanced(t, S, pc)) = OrderOf(t)
         /\ MayCollect(Advanced(t, S, pc)) <=> MayCollect(t)
<1>1. t.held \in SUBSET Locks
  BY DEF Transaction
<1>2. /\ Advanced(t, S, pc) \in Transaction
      /\ Advanced(t, S, pc).pc = pc
      /\ Advanced(t, S, pc).held = t.held \cup S
      /\ Advanced(t, S, pc).req = t.req
      /\ Advanced(t, S, pc).snap = t.snap
      /\ Advanced(t, S, pc).stale = t.stale
  BY Zenon, <1>1 DEF Advanced, Transaction
<1> QED
  BY <1>2 DEF OrderOf, MayCollect, Net, Change

(* The part of SnapshotCurrent that does not depend on what is held. *)
UpToDate(d, snap, stale) ==
  /\ \A o \in Orders : Row("order", o) \notin stale =>
       /\ snap.orders[o] = d.orders[o]
       /\ \A i \in PaymentsOf(snap, o) \cup PaymentsOf(d, o) : snap.payments[i] = d.payments[i]
       /\ \A i \in DiscountsOf(snap, o) \cup DiscountsOf(d, o) : snap.discounts[i] = d.discounts[i]
  /\ \A s \in ShiftIds : Row("shift", s) \notin stale =>
       /\ snap.shifts[s] # None => snap.shifts[s] = d.shifts[s]
       /\ \A i \in PaymentIds :
            d.payments[i] # None /\ d.payments[i].shift = s => snap.payments[i] # None
  /\ \A c \in Coupons : Row("coupon", c) \notin stale => snap.uses[c] = d.uses[c]
  /\ \A i \in PaymentIds : snap.payments[i] # None =>
       /\ d.payments[i] # None
       /\ d.payments[i].order = snap.payments[i].order
       /\ d.payments[i].shift = snap.payments[i].shift
  /\ \A s \in ShiftIds : snap.shifts[s] # None =>
       d.shifts[s] # None /\ d.shifts[s].cashier = snap.shifts[s].cashier

LEMMA CurrentParts ==
  ASSUME NEW d, NEW t
  PROVE  SnapshotCurrent(d, t) <=>
           /\ \A r \in t.held : r[1] \in {"order", "shift", "coupon"} => r \notin t.stale
           /\ UpToDate(d, t.snap, t.stale)
BY Zenon DEF SnapshotCurrent, UpToDate

(* Taking free locks that no other transaction has updated since. *)
LEMMA AdvanceKeeps ==
  ASSUME TypeOK, Locking, NEW p \in Clients, tx[p] # NoTx, NEW S \in SUBSET Locks,
         NEW pc \in {"order", "shift", "insert", "coupon", "commit"},
         db' = db, acked' = acked,
         tx' = [tx EXCEPT ![p] = Advanced(tx[p], S, pc)],
         \A r \in S : /\ Free(r)
                      /\ r[1] \in {"order", "shift", "coupon"} => r \notin tx[p].stale,
         LocksOwned(Advanced(tx[p], S, pc)), EntriesReserved(db, Advanced(tx[p], S, pc))
  PROVE  Locking' /\ TypeOK'
<1> DEFINE t == tx[p]
           u == Advanced(t, S, pc)
<1>1. t \in Transaction
  BY OpenTransaction
<1>2. /\ u \in Transaction /\ u.held = t.held \cup S
      /\ u.snap = t.snap /\ u.stale = t.stale
  BY <1>1, AdvancedFields
<1>3. SnapshotCurrent(db, t)
  BY DEF Locking
<1>4. SnapshotCurrent(db, u)
  <2>1. \A r \in u.held : r[1] \in {"order", "shift", "coupon"} => r \notin u.stale
    <3>1. \A r \in t.held : r[1] \in {"order", "shift", "coupon"} => r \notin t.stale
      BY Zenon, <1>3 DEF SnapshotCurrent
    <3>2. \A r \in S : r[1] \in {"order", "shift", "coupon"} => r \notin t.stale
      BY Zenon
    <3> HIDE DEF t, u
    <3> QED
      BY <1>2, <3>1, <3>2
  <2> HIDE DEF t, u
  <2>2. UpToDate(db, u.snap, u.stale)
    BY Zenon, <1>2, <1>3, CurrentParts
  <2> QED
    BY Zenon, <2>1, <2>2, CurrentParts
<1>5. Locking' /\ tx' \in [Clients -> Transaction \cup {NoTx}]
  BY Zenon, <1>2, <1>4, OneTransactionChanges DEF Sound
<1> QED
  BY <1>5 DEF TypeOK

(* SELECT ... FOR UPDATE moves a transaction on to its next step. *)
LEMMA LockRowAdvances ==
  ASSUME TypeOK, NEW p \in Clients, tx[p] # NoTx, NEW r, LockRow(p, r)
  PROVE  /\ tx' = [tx EXCEPT ![p] = Advanced(tx[p], {r}, After(tx[p].req, tx[p].pc))]
         /\ db' = db /\ acked' = acked
         /\ Free(r) /\ r \notin tx[p].stale
<1>1. tx[p] \in Transaction /\ tx \in [Clients -> Transaction \cup {NoTx}]
  BY OpenTransaction DEF TypeOK
<1> QED
  BY Zenon, <1>1 DEF LockRow, Advanced, Transaction

LEMMA LockRowKeeps ==
  ASSUME TypeOK, Locking, NEW p \in Clients, tx[p] # NoTx, NEW r \in Locks, LockRow(p, r),
         LocksOwned(Advanced(tx[p], {r}, After(tx[p].req, tx[p].pc))),
         EntriesReserved(db, Advanced(tx[p], {r}, After(tx[p].req, tx[p].pc)))
  PROVE  Locking' /\ TypeOK'
<1> DEFINE n == After(tx[p].req, tx[p].pc)
<1>1. /\ tx' = [tx EXCEPT ![p] = Advanced(tx[p], {r}, n)] /\ db' = db /\ acked' = acked
      /\ Free(r) /\ r \notin tx[p].stale
  BY Zenon, LockRowAdvances
<1>2. n \in {"order", "shift", "insert", "coupon", "commit"}
  BY AfterTyped
<1>3. {r} \in SUBSET Locks
  OBVIOUS
<1>4. \A x \in {r} : Free(x) /\ (x[1] \in {"order", "shift", "coupon"} => x \notin tx[p].stale)
  BY <1>1
<1> HIDE DEF n
<1>5. LocksOwned(Advanced(tx[p], {r}, n)) /\ EntriesReserved(db, Advanced(tx[p], {r}, n))
  BY DEF n
<1> QED
  BY Zenon, <1>1, <1>2, <1>3, <1>4, <1>5, AdvanceKeeps

LEMMA LockOrderKeeps ==
  ASSUME TypeOK, Locking, NEW p \in Clients, tx[p] # NoTx, LockOrder(p)
  PROVE  Locking' /\ TypeOK'
<1> DEFINE t == tx[p]
           r == Row("order", OrderOf(t))
           n == After(t.req, "order")
           u == Advanced(t, {r}, n)
<1>1. t \in Transaction /\ t.req \in Requests /\ LocksOwned(t) /\ t.pc = "order"
  BY OpenTransaction DEF Locking, LockOrder
<1>2. t.req.op \notin {"open", "close"} /\ OrderOf(t) \in Orders
  BY <1>1, OrderOfTyped DEF LocksOwned
<1>3. r \in Locks
  BY <1>2 DEF Locks, Row
<1>4. LockRow(p, r)
  BY DEF LockOrder
<1>5. /\ n \in {"shift", "coupon", "commit"}
      /\ n = "shift" <=> t.req.op \in {"collect", "reverse"}
      /\ n = "coupon" <=> t.req.op = "discount" /\ t.req.coupon # NoCoupon
  BY <1>2 DEF After
<1>6. /\ u \in Transaction /\ u.pc = n /\ u.req = t.req /\ u.snap = t.snap
      /\ u.held = t.held \cup {r} /\ OrderOf(u) = OrderOf(t)
  <2> HIDE DEF t, r, n
  <2> QED
    BY <1>1, <1>3, <1>5, AdvancedFields
<1>7. LocksOwned(u)
  <2>1. \A s \in ShiftIds : Row("shift", s) # r
    BY DEF Row
  <2> HIDE DEF t, u, n
  <2> QED
    BY <1>1, <1>2, <1>5, <1>6, <2>1 DEF LocksOwned
<1>8. EntriesReserved(db, u)
  BY Zenon, <1>2, <1>5, <1>6 DEF EntriesReserved
<1> QED
  BY <1>1, <1>3, <1>4, <1>7, <1>8, LockRowKeeps

LEMMA LockShiftKeeps ==
  ASSUME TypeOK, Locking, NEW p \in Clients, tx[p] # NoTx, LockShift(p)
  PROVE  Locking' /\ TypeOK'
<1> DEFINE t == tx[p]
           n == After(t.req, "shift")
<1>1. t \in Transaction /\ t.req \in Requests /\ LocksOwned(t) /\ t.pc = "shift"
  BY Zenon, OpenTransaction DEF Locking, LockShift
<1>2. t.req.op \in {"collect", "reverse", "close"}
  BY Zenon, <1>1 DEF LocksOwned
<1>3. PICK s \in ShiftIds :
        /\ LockRow(p, Row("shift", s))
        /\ t.snap.shifts[s].status = "open"
        /\ t.req.op = "close" => s = t.req.shift
        /\ t.req.op # "close" => s \in OpenShiftsAt(t.snap, t.req.actor, BranchOf[OrderOf(t)])
  <2>1. CASE t.req.op = "close"
    <3>1. t.req.shift \in ShiftIds
      BY <1>1, <2>1, RequestFields DEF Closings
    <3> QED
      BY <2>1, <3>1 DEF LockShift
  <2>2. CASE t.req.op # "close"
    BY <2>2 DEF LockShift, OpenShiftsAt, OpenShifts
  <2> QED
    BY Zenon, <2>1, <2>2
<1> DEFINE r == Row("shift", s)
           u == Advanced(t, {r}, n)
<1>4. r \in Locks
  BY DEF Locks, Row
<1>5. n \in {"insert", "commit"} /\ (n = "insert" <=> t.req.op = "collect")
  BY <1>2 DEF After
<1>6. /\ u \in Transaction /\ u.pc = n /\ u.req = t.req /\ u.snap = t.snap
      /\ u.held = t.held \cup {r} /\ OrderOf(u) = OrderOf(t)
  <2> HIDE DEF t, r, n
  <2> QED
    BY <1>1, <1>4, <1>5, AdvancedFields
<1>7. LocksOwned(u)
  <2>1. \A x \in ShiftIds : Row("shift", x) = r => x = s
    BY DEF Row
  <2> HIDE DEF t, u, n, r
  <2>2. r \in u.held /\ r = Row("shift", s)
    BY <1>6 DEF r
  <2> QED
    BY Zenon, <1>1, <1>2, <1>3, <1>5, <1>6, <2>1, <2>2 DEF LocksOwned
<1>8. EntriesReserved(db, u)
  BY <1>2, <1>5, <1>6 DEF EntriesReserved
<1> QED
  BY Zenon, <1>1, <1>3, <1>4, <1>7, <1>8, LockRowKeeps

LEMMA LockCouponKeeps ==
  ASSUME TypeOK, Locking, NEW p \in Clients, tx[p] # NoTx, LockCoupon(p)
  PROVE  Locking' /\ TypeOK'
<1> DEFINE t == tx[p]
           r == Row("coupon", t.req.coupon)
           n == After(t.req, "coupon")
           u == Advanced(t, {r}, n)
<1>1. t \in Transaction /\ t.req \in Requests /\ LocksOwned(t) /\ t.pc = "coupon"
  BY OpenTransaction DEF Locking, LockCoupon
<1>2. t.req.op = "discount" /\ t.req.coupon \in Coupons
  BY Zenon, <1>1, RequestFields DEF LocksOwned, Discounts
<1>3. r \in Locks
  BY <1>2 DEF Locks, Row
<1>4. LockRow(p, r)
  BY DEF LockCoupon
<1>5. n = "commit"
  BY <1>2 DEF After
<1>6. /\ u \in Transaction /\ u.pc = n /\ u.req = t.req /\ u.snap = t.snap
      /\ u.held = t.held \cup {r} /\ OrderOf(u) = OrderOf(t)
  <2> HIDE DEF t, r, n
  <2> QED
    BY <1>1, <1>3, <1>5, AdvancedFields
<1>7. LocksOwned(u)
  <2>1. (\A s \in ShiftIds : Row("shift", s) # r) /\ r \in u.held
    BY <1>6 DEF Row
  <2> HIDE DEF t, u, n
  <2> QED
    BY <1>1, <1>2, <1>5, <1>6, <2>1 DEF LocksOwned
<1>8. EntriesReserved(db, u)
  BY Zenon, <1>2, <1>5, <1>6 DEF EntriesReserved
<1> QED
  BY <1>1, <1>3, <1>4, <1>7, <1>8, LockRowKeeps

LEMMA InsertPaymentKeeps ==
  ASSUME TypeOK, Locking, NEW p \in Clients, tx[p] # NoTx, InsertPayment(p)
  PROVE  Locking' /\ TypeOK'
<1> DEFINE t == tx[p]
           k == t.req.key
           S == {Row("key", j) : j \in {k} \ {NoKey}}
           u == Advanced(t, S, "commit")
<1>1. /\ t \in Transaction /\ t.req \in Requests /\ LocksOwned(t)
      /\ t.pc = "insert" /\ t.req.op = "collect" /\ MayCollect(t)
      /\ k # NoKey => Free(Row("key", k)) /\ PaymentsWithKey(db, k) = {}
  BY OpenTransaction DEF Locking, InsertPayment
<1>2. k \in Keys \cup {NoKey}
  BY Zenon, <1>1, RequestFields DEF Collects
<1>3. S \in SUBSET Locks
  <2>1. k # NoKey => Row("key", k) \in Locks
    BY <1>2 DEF Locks, Row
  <2> QED
    BY Zenon, <2>1
<1>4. tx' = [tx EXCEPT ![p] = u] /\ db' = db /\ acked' = acked
  <2>1. tx \in [Clients -> Transaction \cup {NoTx}]
    BY DEF TypeOK
  <2> QED
    BY Zenon, <1>1, <2>1 DEF InsertPayment, Advanced, Transaction
<1>5. \A x \in S : Free(x) /\ (x[1] \in {"order", "shift", "coupon"} => x \notin t.stale)
  BY <1>1 DEF Row
<1>6. /\ u \in Transaction /\ u.pc = "commit" /\ u.req = t.req /\ u.snap = t.snap
      /\ u.held = t.held \cup S /\ OrderOf(u) = OrderOf(t) /\ (MayCollect(u) <=> MayCollect(t))
  <2> HIDE DEF t, S
  <2>1. "commit" \in {"order", "shift", "insert", "coupon", "commit", "probe"}
    OBVIOUS
  <2>2. t \in Transaction
    BY Zenon, <1>1
  <2> QED
    BY <1>3, <2>1, <2>2, AdvancedFields
<1>7. LocksOwned(u)
  <2>1. \A s \in ShiftIds : Row("shift", s) \notin S
    BY DEF Row
  <2>2. k # NoKey => Row("key", k) \in S
    OBVIOUS
  <2> HIDE DEF t, u, S
  <2> QED
    BY Zenon, <1>1, <1>6, <2>1, <2>2 DEF LocksOwned
<1>8. EntriesReserved(db, u)
  BY Zenon, <1>1, <1>6 DEF EntriesReserved
<1> HIDE DEF S
<1> QED
  BY Zenon, <1>3, <1>4, <1>5, <1>7, <1>8, AdvanceKeeps

LEMMA InsertShiftKeeps ==
  ASSUME TypeOK, Locking, NEW p \in Clients, tx[p] # NoTx, InsertShift(p)
  PROVE  Locking' /\ TypeOK'
<1> DEFINE t == tx[p]
           r == Row("till", t.req.actor)
           u == Advanced(t, {r}, "commit")
<1>1. /\ t \in Transaction /\ t.req \in Requests /\ LocksOwned(t)
      /\ t.pc = "insert" /\ t.req.op = "open"
      /\ Free(r) /\ OpenShifts(db, t.req.actor) = {}
  BY OpenTransaction DEF Locking, InsertShift
<1>2. {r} \in SUBSET Locks
  BY <1>1, RequestFields DEF Locks, Row, Openings
<1>3. tx' = [tx EXCEPT ![p] = u] /\ db' = db /\ acked' = acked
  <2>1. tx \in [Clients -> Transaction \cup {NoTx}]
    BY DEF TypeOK
  <2> QED
    BY Zenon, <1>1, <2>1 DEF InsertShift, Advanced, Transaction
<1>4. \A x \in {r} : Free(x) /\ (x[1] \in {"order", "shift", "coupon"} => x \notin t.stale)
  BY <1>1 DEF Row
<1>5. /\ u \in Transaction /\ u.pc = "commit" /\ u.req = t.req /\ u.snap = t.snap
      /\ u.held = t.held \cup {r}
  <2> HIDE DEF t, r
  <2>1. "commit" \in {"order", "shift", "insert", "coupon", "commit", "probe"}
    OBVIOUS
  <2>2. t \in Transaction
    BY Zenon, <1>1
  <2> QED
    BY <1>2, <2>1, <2>2, AdvancedFields
<1>6. LocksOwned(u)
  <2>1. (\A s \in ShiftIds : Row("shift", s) # r) /\ r \in u.held
    BY <1>5 DEF Row
  <2> HIDE DEF t, u
  <2> QED
    BY Zenon, <1>1, <1>5, <2>1 DEF LocksOwned
<1>7. EntriesReserved(db, u)
  BY Zenon, <1>1, <1>5 DEF EntriesReserved
<1> HIDE DEF r
<1> QED
  BY Zenon, <1>2, <1>3, <1>4, <1>6, <1>7, AdvanceKeeps

-----------------------------------------------------------------------------
(* Replays *)

LEMMA KeyConflictKeeps ==
  ASSUME TypeOK, Locking, NEW p \in Clients, tx[p] # NoTx, KeyConflict(p)
  PROVE  Locking' /\ TypeOK'
<1> DEFINE t == tx[p]
           u == Started(t.req, "probe")
<1>1. t.req \in Requests /\ t.req.op = "collect"
  BY OpenTransaction DEF KeyConflict
<1>2. tx' = [tx EXCEPT ![p] = u] /\ db' = db /\ acked' = acked
  BY DEF KeyConflict, Started
<1>3. u \in Transaction /\ SnapshotCurrent(db, u)
  BY <1>1, StartedTyped
<1>4. u.pc = "probe" /\ u.req = t.req /\ u.held = {}
  BY DEF Started
<1>5. LocksOwned(u) /\ EntriesReserved(db, u)
  BY Zenon, <1>1, <1>4 DEF LocksOwned, EntriesReserved
<1>6. Locking' /\ tx' \in [Clients -> Transaction \cup {NoTx}]
  BY Zenon, <1>2, <1>3, <1>4, <1>5, OneTransactionChanges DEF Sound
<1> QED
  BY <1>2, <1>6 DEF TypeOK

LEMMA AnswerTyped ==
  ASSUME TypeOK, NEW q \in Collects, NEW i \in PaymentIds, Answer(q, i)
  PROVE  acked' \in SUBSET [req: Collects, payment: PaymentIds]
BY DEF Answer, TypeOK

LEMMA ReplayUnderLockKeeps ==
  ASSUME TypeOK, Locking, NEW p \in Clients, tx[p] # NoTx, ReplayUnderLock(p)
  PROVE  Locking' /\ TypeOK'
<1>1. tx[p].req \in Collects
  BY OpenTransaction, RequestFields DEF ReplayUnderLock
<1>2. PICK i \in PaymentIds : Answer(tx[p].req, i)
  BY DEF ReplayUnderLock, PaymentsWithKey
<1>3. acked' \in SUBSET [req: Collects, payment: PaymentIds]
  BY <1>1, <1>2, AnswerTyped
<1>4. Locking' /\ tx' \in [Clients -> Transaction \cup {NoTx}] /\ db' = db
  BY Zenon, EndKeeps DEF ReplayUnderLock
<1> QED
  BY <1>3, <1>4 DEF TypeOK

LEMMA ReplayAfterConflictKeeps ==
  ASSUME TypeOK, Locking, NEW p \in Clients, tx[p] # NoTx, ReplayAfterConflict(p)
  PROVE  Locking' /\ TypeOK'
<1>1. LocksOwned(tx[p]) /\ tx[p].pc = "probe"
  BY DEF Locking, ReplayAfterConflict
<1>2. tx[p].req \in Collects
  BY Zenon, <1>1, OpenTransaction, RequestFields DEF LocksOwned
<1>3. acked' \in SUBSET [req: Collects, payment: PaymentIds]
  BY SMTT(30), <1>2 DEF ReplayAfterConflict, PaymentsWithKey, TypeOK
<1>4. Locking' /\ tx' \in [Clients -> Transaction \cup {NoTx}] /\ db' = db
  BY Zenon, EndKeeps DEF ReplayAfterConflict
<1> QED
  BY <1>3, <1>4 DEF TypeOK

-----------------------------------------------------------------------------
(* Commits *)

(* From database d to e, only rows and index entries in H change; payments  *)
(* and shifts do not disappear and stay where they are.                     *)
ChangesOnly(d, e, H) ==
  /\ \A o \in Orders : Row("order", o) \notin H =>
       /\ e.orders[o] = d.orders[o]
       /\ \A i \in PaymentsOf(d, o) \cup PaymentsOf(e, o) : e.payments[i] = d.payments[i]
       /\ \A i \in DiscountsOf(d, o) \cup DiscountsOf(e, o) : e.discounts[i] = d.discounts[i]
  /\ \A s \in ShiftIds : Row("shift", s) \notin H =>
       /\ d.shifts[s] # None => e.shifts[s] = d.shifts[s]
       /\ \A i \in PaymentIds :
            e.payments[i] # None /\ e.payments[i].shift = s => d.payments[i] # None
  /\ \A c \in Coupons : Row("coupon", c) \notin H => e.uses[c] = d.uses[c]
  /\ \A i \in PaymentIds : d.payments[i] # None =>
       /\ e.payments[i] # None
       /\ e.payments[i].order = d.payments[i].order
       /\ e.payments[i].shift = d.payments[i].shift
  /\ \A s \in ShiftIds : d.shifts[s] # None =>
       e.shifts[s] # None /\ e.shifts[s].cashier = d.shifts[s].cashier
  /\ \A k \in Keys : Row("key", k) \notin H /\ PaymentsWithKey(d, k) = {}
       => PaymentsWithKey(e, k) = {}
  /\ \A c \in Cashiers : Row("till", c) \notin H /\ OpenShifts(d, c) = {}
       => OpenShifts(e, c) = {}

(* A snapshot stays current across a commit that it is marked stale for. *)
LEMMA StaysCurrent ==
  ASSUME NEW d, NEW e, NEW H, ChangesOnly(d, e, H),
         NEW t, SnapshotCurrent(d, t), t.held \cap H = {},
         NEW u, u.snap = t.snap, u.held = t.held, u.stale = t.stale \cup H
  PROVE  SnapshotCurrent(e, u)
<1>1. \A r \in u.held : r[1] \in {"order", "shift", "coupon"} => r \notin u.stale
  BY Zenon DEF SnapshotCurrent
<1>2. ASSUME NEW o \in Orders, Row("order", o) \notin u.stale
      PROVE  /\ u.snap.orders[o] = e.orders[o]
             /\ \A i \in PaymentsOf(u.snap, o) \cup PaymentsOf(e, o) :
                  u.snap.payments[i] = e.payments[i]
             /\ \A i \in DiscountsOf(u.snap, o) \cup DiscountsOf(e, o) :
                  u.snap.discounts[i] = e.discounts[i]
  <2>1. Row("order", o) \notin t.stale /\ Row("order", o) \notin H
    BY <1>2
  <2>2. /\ t.snap.orders[o] = d.orders[o] /\ e.orders[o] = d.orders[o]
        /\ \A i \in PaymentsOf(t.snap, o) \cup PaymentsOf(d, o) : t.snap.payments[i] = d.payments[i]
        /\ \A i \in PaymentsOf(d, o) \cup PaymentsOf(e, o) : e.payments[i] = d.payments[i]
        /\ \A i \in DiscountsOf(t.snap, o) \cup DiscountsOf(d, o) : t.snap.discounts[i] = d.discounts[i]
        /\ \A i \in DiscountsOf(d, o) \cup DiscountsOf(e, o) : e.discounts[i] = d.discounts[i]
    BY Zenon, <2>1 DEF SnapshotCurrent, ChangesOnly
  <2>3. \A i \in PaymentsOf(t.snap, o) \cup PaymentsOf(e, o) : t.snap.payments[i] = e.payments[i]
    BY <2>2 DEF PaymentsOf
  <2>4. \A i \in DiscountsOf(t.snap, o) \cup DiscountsOf(e, o) : t.snap.discounts[i] = e.discounts[i]
    BY <2>2 DEF DiscountsOf
  <2> QED
    BY <2>2, <2>3, <2>4
<1>3. ASSUME NEW s \in ShiftIds, Row("shift", s) \notin u.stale
      PROVE  /\ u.snap.shifts[s] # None => u.snap.shifts[s] = e.shifts[s]
             /\ \A i \in PaymentIds :
                  e.payments[i] # None /\ e.payments[i].shift = s => u.snap.payments[i] # None
  <2>1. Row("shift", s) \notin t.stale /\ Row("shift", s) \notin H
    BY <1>3
  <2>2. /\ t.snap.shifts[s] # None => t.snap.shifts[s] = d.shifts[s]
        /\ d.shifts[s] # None => e.shifts[s] = d.shifts[s]
        /\ \A i \in PaymentIds :
             d.payments[i] # None /\ d.payments[i].shift = s => t.snap.payments[i] # None
        /\ \A i \in PaymentIds :
             e.payments[i] # None /\ e.payments[i].shift = s => d.payments[i] # None
    BY Zenon, <2>1 DEF SnapshotCurrent, ChangesOnly
  <2>3. \A i \in PaymentIds : d.payments[i] # None => e.payments[i].shift = d.payments[i].shift
    BY DEF ChangesOnly
  <2> QED
    BY Zenon, <2>2, <2>3
<1>4. \A c \in Coupons : Row("coupon", c) \notin u.stale => u.snap.uses[c] = e.uses[c]
  <2>1. \A c \in Coupons : Row("coupon", c) \notin t.stale => t.snap.uses[c] = d.uses[c]
    BY Zenon DEF SnapshotCurrent
  <2>2. \A c \in Coupons : Row("coupon", c) \notin H => e.uses[c] = d.uses[c]
    BY Zenon DEF ChangesOnly
  <2> QED
    BY <2>1, <2>2
<1>5. \A i \in PaymentIds : u.snap.payments[i] # None =>
        /\ e.payments[i] # None
        /\ e.payments[i].order = u.snap.payments[i].order
        /\ e.payments[i].shift = u.snap.payments[i].shift
  <2>1. \A i \in PaymentIds : t.snap.payments[i] # None =>
          /\ d.payments[i] # None
          /\ d.payments[i].order = t.snap.payments[i].order
          /\ d.payments[i].shift = t.snap.payments[i].shift
    BY Zenon DEF SnapshotCurrent
  <2>2. \A i \in PaymentIds : d.payments[i] # None =>
          /\ e.payments[i] # None
          /\ e.payments[i].order = d.payments[i].order
          /\ e.payments[i].shift = d.payments[i].shift
    BY Zenon DEF ChangesOnly
  <2> QED
    BY <2>1, <2>2
<1>6. \A s \in ShiftIds : u.snap.shifts[s] # None =>
        e.shifts[s] # None /\ e.shifts[s].cashier = u.snap.shifts[s].cashier
  <2>1. \A s \in ShiftIds : t.snap.shifts[s] # None =>
          d.shifts[s] # None /\ d.shifts[s].cashier = t.snap.shifts[s].cashier
    BY Zenon DEF SnapshotCurrent
  <2>2. \A s \in ShiftIds : d.shifts[s] # None =>
          e.shifts[s] # None /\ e.shifts[s].cashier = d.shifts[s].cashier
    BY Zenon DEF ChangesOnly
  <2> QED
    BY <2>1, <2>2
<1> QED
  BY Zenon, <1>1, <1>2, <1>3, <1>4, <1>5, <1>6 DEF SnapshotCurrent

(* A commit that writes only what the transaction has locked keeps the      *)
(* invariant of every other transaction.                                    *)
LEMMA CommitKeeps ==
  ASSUME TypeOK, Locking, NEW p \in Clients, tx[p] # NoTx,
         tx' = Committed(p), ChangesOnly(db, db', tx[p].held)
  PROVE  Locking' /\ tx' \in [Clients -> Transaction \cup {NoTx}]
<1> DEFINE H == tx[p].held
           Mark(t) == [t EXCEPT !.stale = @ \cup H]
<1>1. H \in SUBSET Locks
  BY OpenTransaction
<1>2. ASSUME NEW t \in Transaction
      PROVE  /\ Mark(t) \in Transaction
             /\ Mark(t).stale = t.stale \cup H /\ Mark(t).held = t.held
             /\ Mark(t).snap = t.snap /\ Mark(t).req = t.req /\ Mark(t).pc = t.pc
  <2>1. t.stale \in SUBSET Locks
    BY DEF Transaction
  <2> HIDE DEF H
  <2> QED
    BY <1>1, <2>1 DEF Transaction
<1>3. \A q \in Clients : tx[q] # NoTx => tx[q] \in Transaction
  BY OpenTransaction
<1>4. \A q \in Clients : tx'[q] = IF q = p \/ tx[q] = NoTx THEN NoTx ELSE Mark(tx[q])
  BY DEF Committed
<1>5. tx' \in [Clients -> Transaction \cup {NoTx}]
  <2>1. \A q \in Clients : tx'[q] \in Transaction \cup {NoTx}
    BY Zenon, <1>2, <1>3, <1>4
  <2> QED
    BY <2>1 DEF Committed
<1>6. ASSUME NEW q \in Clients
      PROVE  tx'[q].held \subseteq tx[q].held
  <2>1. CASE tx'[q] = NoTx
    BY <2>1 DEF NoTx
  <2>2. CASE tx'[q] # NoTx
    <3>1. tx[q] \in Transaction /\ tx'[q] = Mark(tx[q])
      BY <1>3, <1>4, <2>2
    <3>2. Mark(tx[q]).held = tx[q].held
      BY <1>2, <3>1
    <3> QED
      BY <3>1, <3>2
  <2> QED
    BY <2>1, <2>2
<1>7. ExclusiveLocks'
  BY <1>6 DEF ExclusiveLocks, Locking
<1>8. ASSUME NEW q \in Clients, tx'[q] # NoTx
      PROVE  Sound(db', tx'[q])
  <2> DEFINE t == tx[q]
             u == tx'[q]
  <2>1. q # p /\ t \in Transaction /\ u = Mark(t)
    BY <1>3, <1>4, <1>8
  <2>2. /\ u.stale = t.stale \cup H /\ u.held = t.held /\ u.snap = t.snap
        /\ u.req = t.req /\ u.pc = t.pc
    BY <1>2, <2>1
  <2>3. Sound(db, t) /\ t.held \cap H = {}
    BY <2>1, NoTxIsNoTransaction DEF Locking, Sound, ExclusiveLocks
  <2> HIDE DEF t, u, H, Mark
  <2>4. OrderOf(u) = OrderOf(t) /\ (MayCollect(u) <=> MayCollect(t))
    BY <2>2 DEF OrderOf, MayCollect, Net, Change
  <2>5. LocksOwned(u)
    BY ZenonT(60), <2>2, <2>3, <2>4 DEF LocksOwned, Sound
  <2>6. SnapshotCurrent(db', u)
    BY <2>2, <2>3, StaysCurrent DEF Sound, H
  <2>7. EntriesReserved(db', u)
    <3>1. t.req \in Requests
      BY <2>1 DEF Transaction
    <3>2. t.req.op = "collect" => t.req.key \in Keys \cup {NoKey}
      BY <3>1, RequestFields DEF Collects
    <3>3. t.req.op = "open" => t.req.actor \in Cashiers
      BY <3>1, RequestFields DEF Openings
    <3>4. /\ t.req.op = "collect" /\ t.pc = "commit" /\ t.req.key # NoKey
               => Row("key", t.req.key) \notin H /\ PaymentsWithKey(db, t.req.key) = {}
          /\ t.req.op = "open" /\ t.pc = "commit"
               => Row("till", t.req.actor) \notin H /\ OpenShifts(db, t.req.actor) = {}
      BY Zenon, <2>3 DEF Sound, LocksOwned, EntriesReserved
    <3>5. ChangesOnly(db, db', H)
      BY DEF H
    <3>6. /\ t.req.op = "collect" /\ t.pc = "commit" /\ t.req.key # NoKey
               => PaymentsWithKey(db', t.req.key) = {}
          /\ t.req.op = "open" /\ t.pc = "commit" => OpenShifts(db', t.req.actor) = {}
      BY Zenon, <3>2, <3>3, <3>4, <3>5 DEF ChangesOnly
    <3> QED
      BY <2>2, <3>6 DEF EntriesReserved
  <2> QED
    BY <2>5, <2>6, <2>7 DEF Sound, u
<1> QED
  BY <1>5, <1>7, <1>8 DEF Locking, Sound

(* What a write to one order row, and to a payment row with it, leaves.     *)
LEMMA OrderWrite ==
  ASSUME NEW d \in Database, NEW o \in Orders, NEW r \in OrderRow,
         NEW e, e = [d EXCEPT !.orders[o] = r]
  PROVE  /\ e \in Database /\ e.orders[o] = r
         /\ \A x \in Orders : x # o => e.orders[x] = d.orders[x]
         /\ e.payments = d.payments /\ e.discounts = d.discounts
         /\ e.shifts = d.shifts /\ e.uses = d.uses
BY DEF Database

LEMMA PaymentWrite ==
  ASSUME NEW d \in Database, NEW o \in Orders, NEW r \in OrderRow,
         NEW i \in PaymentIds, NEW pay \in PaymentRow,
         NEW e, e = [d EXCEPT !.payments[i] = pay, !.orders[o] = r]
  PROVE  /\ e \in Database /\ e.orders[o] = r /\ e.payments[i] = pay
         /\ \A x \in Orders : x # o => e.orders[x] = d.orders[x]
         /\ \A x \in PaymentIds : x # i => e.payments[x] = d.payments[x]
         /\ e.discounts = d.discounts /\ e.shifts = d.shifts /\ e.uses = d.uses
BY Zenon DEF Database

LEMMA ShiftWrite ==
  ASSUME NEW d \in Database, NEW s \in ShiftIds, NEW r \in ShiftRow,
         NEW e, e = [d EXCEPT !.shifts[s] = r]
  PROVE  /\ e \in Database /\ e.shifts[s] = r
         /\ \A x \in ShiftIds : x # s => e.shifts[x] = d.shifts[x]
         /\ e.orders = d.orders /\ e.payments = d.payments
         /\ e.discounts = d.discounts /\ e.uses = d.uses
BY DEF Database

LEMMA DiscountWrite ==
  ASSUME NEW d \in Database, NEW i \in DiscountIds, NEW r \in DiscountRow,
         NEW f \in [Coupons -> Nat],
         NEW e, e = [d EXCEPT !.discounts[i] = r, !.uses = f]
  PROVE  /\ e \in Database /\ e.discounts[i] = r /\ e.uses = f
         /\ \A x \in DiscountIds : x # i => e.discounts[x] = d.discounts[x]
         /\ e.orders = d.orders /\ e.payments = d.payments /\ e.shifts = d.shifts
BY Zenon DEF Database

LEMMA NoneIsNoRow == None \notin PaymentRow \cup DiscountRow \cup ShiftRow
BY DEF None, PaymentRow, DiscountRow, ShiftRow

LEMMA OrderWriteChanges ==
  ASSUME NEW d \in Database, NEW o \in Orders, NEW r \in OrderRow,
         NEW e, e = [d EXCEPT !.orders[o] = r],
         NEW H, Row("order", o) \in H
  PROVE  ChangesOnly(d, e, H)
<1>1. /\ \A x \in Orders : x # o => e.orders[x] = d.orders[x]
      /\ e.payments = d.payments /\ e.discounts = d.discounts
      /\ e.shifts = d.shifts /\ e.uses = d.uses
  BY DEF Database
<1> QED
  BY <1>1 DEF ChangesOnly, PaymentsOf, DiscountsOf, PaymentsWithKey, OpenShifts

LEMMA ShiftWriteChanges ==
  ASSUME NEW d \in Database, NEW s \in ShiftIds, NEW r \in ShiftRow,
         NEW e, e = [d EXCEPT !.shifts[s] = r], NEW H,
         d.shifts[s] = None \/ (/\ Row("shift", s) \in H
                                /\ r.cashier = d.shifts[s].cashier),
         r.status = "open" => Row("till", r.cashier) \in H
  PROVE  ChangesOnly(d, e, H)
<1>1. /\ e.shifts[s] = r
      /\ \A x \in ShiftIds : x # s => e.shifts[x] = d.shifts[x]
      /\ e.orders = d.orders /\ e.payments = d.payments
      /\ e.discounts = d.discounts /\ e.uses = d.uses
  BY DEF Database
<1>2. r # None
  BY NoneIsNoRow
<1> QED
  BY <1>1, <1>2 DEF ChangesOnly, PaymentsOf, DiscountsOf, PaymentsWithKey, OpenShifts

LEMMA PaymentWriteChanges ==
  ASSUME NEW d \in Database, NEW o \in Orders, NEW r \in OrderRow,
         NEW i \in PaymentIds, NEW pay \in PaymentRow, pay.order = o,
         NEW e, e = [d EXCEPT !.payments[i] = pay, !.orders[o] = r],
         NEW H, Row("order", o) \in H,
         \/ /\ d.payments[i] = None
            /\ Row("shift", pay.shift) \in H
            /\ pay.key # NoKey => Row("key", pay.key) \in H
         \/ /\ d.payments[i] # None
            /\ pay.order = d.payments[i].order
            /\ pay.shift = d.payments[i].shift
            /\ pay.key = d.payments[i].key
  PROVE  ChangesOnly(d, e, H)
<1>1. /\ e.orders[o] = r /\ e.payments[i] = pay
      /\ \A x \in Orders : x # o => e.orders[x] = d.orders[x]
      /\ \A x \in PaymentIds : x # i => e.payments[x] = d.payments[x]
      /\ e.discounts = d.discounts /\ e.shifts = d.shifts /\ e.uses = d.uses
  BY DEF Database
<1>2. pay # None
  BY NoneIsNoRow
<1>3. \A x \in Orders : Row("order", x) \notin H =>
        /\ e.orders[x] = d.orders[x]
        /\ \A j \in PaymentsOf(d, x) \cup PaymentsOf(e, x) : e.payments[j] = d.payments[j]
        /\ \A j \in DiscountsOf(d, x) \cup DiscountsOf(e, x) : e.discounts[j] = d.discounts[j]
  BY <1>1, <1>2 DEF PaymentsOf, DiscountsOf
<1>4. \A k \in Keys : Row("key", k) \notin H /\ PaymentsWithKey(d, k) = {}
        => PaymentsWithKey(e, k) = {}
  <2>1. NoKey \notin Keys
    BY InstanceAssumption
  <2> QED
    BY <1>1, <2>1 DEF PaymentsWithKey
<1> QED
  BY <1>1, <1>2, <1>3, <1>4 DEF ChangesOnly, OpenShifts

LEMMA DiscountWriteChanges ==
  ASSUME NEW d \in Database, NEW i \in DiscountIds, NEW r \in DiscountRow,
         NEW f \in [Coupons -> Nat], d.discounts[i] = None,
         NEW e, e = [d EXCEPT !.discounts[i] = r, !.uses = f],
         NEW H, Row("order", r.order) \in H,
         \A c \in Coupons : Row("coupon", c) \notin H => f[c] = d.uses[c]
  PROVE  ChangesOnly(d, e, H)
<1>1. /\ e.discounts[i] = r /\ e.uses = f
      /\ \A x \in DiscountIds : x # i => e.discounts[x] = d.discounts[x]
      /\ e.orders = d.orders /\ e.payments = d.payments /\ e.shifts = d.shifts
  BY DEF Database
<1>2. r # None
  BY NoneIsNoRow
<1> QED
  BY <1>1, <1>2 DEF ChangesOnly, PaymentsOf, DiscountsOf, PaymentsWithKey, OpenShifts

LEMMA CommitCollectWrites ==
  ASSUME TypeOK, Locking, NEW p \in Clients, tx[p] # NoTx, CommitCollect(p)
  PROVE  /\ db' \in Database /\ ChangesOnly(db, db', tx[p].held) /\ tx' = Committed(p)
         /\ acked' \in SUBSET [req: Collects, payment: PaymentIds]
<1> DEFINE t == tx[p]
           o == t.req.order
           settled == Remaining(t.snap, o) = Net(t)
           s == ShiftHeld(t)
           pay == [status |-> "completed", order |-> o, shift |-> s,
                   method |-> t.req.method, tender |-> t.req.tender,
                   net |-> Net(t), key |-> t.req.key]
           row == [db.orders[o] EXCEPT !.status = IF settled THEN "paid" ELSE @,
                                       !.cogs = @ \/ settled]
<1>1. /\ t \in Transaction /\ t.req \in Requests /\ LocksOwned(t)
      /\ t.pc = "commit" /\ t.req.op = "collect"
  BY OpenTransaction DEF Locking, CommitCollect
<1>2. t.req \in Collects
  BY <1>1, RequestFields
<1>3. /\ Row("order", o) \in t.held /\ MayCollect(t)
      /\ t.req.key # NoKey => Row("key", t.req.key) \in t.held
      /\ \E x \in ShiftIds : Row("shift", x) \in t.held
  BY Zenon, <1>1 DEF LocksOwned, OrderOf
<1>4. s \in ShiftIds /\ Row("shift", s) \in t.held
  BY <1>3 DEF ShiftHeld
<1>5. pay \in PaymentRow
  <2>1. Net(t) \in 1 .. MaxMoney
    BY Zenon, <1>3 DEF MayCollect
  <2>2. t.req.tender \in 1 .. MaxMoney
    BY Zenon, <1>2, InstanceAssumption DEF Collects
  <2> HIDE DEF s
  <2> QED
    BY <1>2, <1>4, <2>1, <2>2 DEF Collects, PaymentRow
<1>6. row \in OrderRow
  <2>1. db.orders[o] \in OrderRow
    BY Zenon, <1>2 DEF TypeOK, Database, Collects
  <2> HIDE DEF settled
  <2> QED
    BY Zenon, <2>1 DEF OrderRow
<1>7. PICK i \in PaymentIds :
        /\ db.payments[i] = None
        /\ db' = [db EXCEPT !.payments[i] = pay, !.orders[o] = row]
        /\ Answer(t.req, i)
  BY Zenon DEF CommitCollect
<1>8. acked' \in SUBSET [req: Collects, payment: PaymentIds]
  BY <1>2, <1>7, AnswerTyped
<1>9. tx' = Committed(p)
  BY DEF CommitCollect
<1>10. pay.order = o /\ pay.shift = s /\ pay.key = t.req.key /\ o \in Orders /\ db \in Database
  BY Zenon, <1>2 DEF Collects, TypeOK
<1> HIDE DEF pay, row, settled, s
<1>11. db' \in Database
  BY Zenon, <1>5, <1>6, <1>7, <1>10, PaymentWrite
<1>12. ChangesOnly(db, db', t.held)
  BY Zenon, <1>3, <1>4, <1>5, <1>6, <1>7, <1>10, PaymentWriteChanges
<1> QED
  BY <1>8, <1>9, <1>11, <1>12

LEMMA MovementsTyped ==
  ASSUME NEW row \in OrderRow, NEW ls, NEW done, NEW waste \in {"waste_refund", "waste_void"}
  PROVE  WithMovements(row, ls, done, waste) \in [Lines -> [Movements -> Nat]]
<1>1. row.moves \in [Lines -> [Movements -> Nat]]
  BY DEF OrderRow
<1>2. ASSUME NEW l \in Lines
      PROVE  [row.moves[l] EXCEPT
                ![IF l \in row.fired THEN waste ELSE "void_restoration"] = @ + 1]
               \in [Movements -> Nat]
  BY <1>1, <1>2 DEF Movements
<1> QED
  BY Zenon, <1>1, <1>2 DEF WithMovements

LEMMA CommitReverseWrites ==
  ASSUME TypeOK, Locking, NEW p \in Clients, tx[p] # NoTx, CommitReverse(p)
  PROVE  /\ db' \in Database /\ ChangesOnly(db, db', tx[p].held) /\ tx' = Committed(p)
         /\ acked' = acked
<1> DEFINE t == tx[p]
           i == t.req.payment
           o == OrderOf(t)
           old == t.snap.orders[o]
           after == [t.snap EXCEPT !.payments[i] = [@ EXCEPT !.status = t.req.to]]
           st == StatusAfterReversal(after, o)
           mv == WithMovements(old, old.live, {"waste_refund", "void_restoration"}, "waste_refund")
           pay == [db.payments[i] EXCEPT !.status = t.req.to]
           row == [db.orders[o] EXCEPT !.status = st,
                                       !.moves = IF t.req.to = "voided" THEN @ ELSE mv]
<1>1. /\ t \in Transaction /\ t.req \in Requests /\ LocksOwned(t) /\ SnapshotCurrent(db, t)
      /\ t.pc = "commit" /\ t.req.op = "reverse" /\ t.snap \in Database
  BY Zenon, OpenTransaction DEF Locking, CommitReverse
<1>2. t.req \in Reversals /\ o \in Orders
  BY Zenon, <1>1, RequestFields, OrderOfTyped DEF LocksOwned
<1>3. Row("order", o) \in t.held /\ t.snap.payments[i] # None
  BY Zenon, <1>1 DEF LocksOwned
<1>4. i \in PaymentIds /\ t.req.to \in {"voided", "refunded"}
  BY <1>2 DEF Reversals
<1>5. db.payments[i] # None /\ db.payments[i].order = o
  BY Zenon, <1>1, <1>3, <1>4 DEF SnapshotCurrent, OrderOf
<1>6. db.payments[i] \in PaymentRow /\ db \in Database /\ db.orders[o] \in OrderRow /\ old \in OrderRow
  BY Zenon, <1>1, <1>2, <1>4, <1>5 DEF TypeOK, Database
<1>7. /\ pay \in PaymentRow /\ pay.order = db.payments[i].order
      /\ pay.shift = db.payments[i].shift /\ pay.key = db.payments[i].key
  BY Zenon, <1>4, <1>6 DEF PaymentRow
<1>8. row \in OrderRow
  <2>1. st \in {"open", "paid", "refunded", "voided"}
    BY DEF StatusAfterReversal, NextStatus
  <2>2. mv \in [Lines -> [Movements -> Nat]]
    BY Zenon, <1>6, MovementsTyped
  <2> HIDE DEF st, mv
  <2> QED
    BY Zenon, <1>6, <2>1, <2>2 DEF OrderRow
<1>9. db' = [db EXCEPT !.payments[i] = pay, !.orders[o] = row] /\ tx' = Committed(p) /\ acked' = acked
  BY Zenon DEF CommitReverse
<1> HIDE DEF pay, row, i, o, t
<1>10. db' \in Database
  BY Zenon, <1>2, <1>4, <1>6, <1>7, <1>8, <1>9, PaymentWrite
<1>11. ChangesOnly(db, db', t.held)
  <2>1. pay.order = o
    BY <1>5, <1>7
  <2> QED
    BY ZenonT(60), <1>2, <1>3, <1>4, <1>5, <1>6, <1>7, <1>8, <1>9, <2>1, PaymentWriteChanges
<1> QED
  BY <1>9, <1>10, <1>11 DEF t

LEMMA CommitCloseWrites ==
  ASSUME TypeOK, Locking, NEW p \in Clients, tx[p] # NoTx, CommitClose(p)
  PROVE  /\ db' \in Database /\ ChangesOnly(db, db', tx[p].held) /\ tx' = Committed(p)
         /\ acked' = acked
<1> DEFINE t == tx[p]
           s == t.req.shift
           sales == CashSales(t.snap, s)
           row == [db.shifts[s] EXCEPT !.status = "closed", !.recorded = sales]
<1>1. /\ t \in Transaction /\ t.req \in Requests /\ LocksOwned(t) /\ SnapshotCurrent(db, t)
      /\ t.pc = "commit" /\ t.req.op = "close" /\ sales \in -MaxMoney .. MaxMoney
  BY OpenTransaction DEF Locking, CommitClose
<1>2. s \in ShiftIds
  BY <1>1, RequestFields DEF Closings
<1>3. Row("shift", s) \in t.held /\ db.shifts[s] # None
  BY Zenon, <1>1, <1>2 DEF LocksOwned, SnapshotCurrent
<1>4. db.shifts[s] \in ShiftRow /\ db \in Database
  BY Zenon, <1>2, <1>3 DEF TypeOK, Database
<1>5. db' = [db EXCEPT !.shifts[s] = row] /\ tx' = Committed(p) /\ acked' = acked
  BY DEF CommitClose
<1> HIDE DEF sales
<1>6. row \in ShiftRow /\ row.status = "closed" /\ row.cashier = db.shifts[s].cashier
  BY Zenon, <1>1, <1>4 DEF ShiftRow
<1> HIDE DEF row, s, t
<1>7. db' \in Database
  BY <1>2, <1>4, <1>5, <1>6, ShiftWrite
<1>8. ChangesOnly(db, db', t.held)
  BY <1>2, <1>3, <1>4, <1>5, <1>6, ShiftWriteChanges
<1> QED
  BY <1>5, <1>7, <1>8 DEF t

LEMMA CommitOpenWrites ==
  ASSUME TypeOK, Locking, NEW p \in Clients, tx[p] # NoTx, CommitOpen(p)
  PROVE  /\ db' \in Database /\ ChangesOnly(db, db', tx[p].held) /\ tx' = Committed(p)
         /\ acked' = acked
<1> DEFINE t == tx[p]
           row == [status |-> "open", cashier |-> t.req.actor,
                   branch |-> t.req.branch, recorded |-> 0]
<1>1. /\ t.req \in Requests /\ LocksOwned(t) /\ t.pc = "commit" /\ t.req.op = "open"
  BY OpenTransaction DEF Locking, CommitOpen
<1>2. t.req \in Openings
  BY <1>1, RequestFields
<1>3. Row("till", t.req.actor) \in t.held
  BY Zenon, <1>1 DEF LocksOwned
<1>4. PICK s \in ShiftIds : db.shifts[s] = None /\ db' = [db EXCEPT !.shifts[s] = row]
  BY Zenon DEF CommitOpen
<1>5. tx' = Committed(p) /\ acked' = acked /\ db \in Database
  BY DEF CommitOpen, TypeOK
<1>6. row \in ShiftRow /\ row.cashier = t.req.actor
  <2>1. 0 \in -MaxMoney .. MaxMoney
    BY InstanceAssumption
  <2> QED
    BY <1>2, <2>1 DEF Openings, ShiftRow
<1> HIDE DEF row
<1>7. db' \in Database
  BY <1>4, <1>5, <1>6, ShiftWrite
<1>8. ChangesOnly(db, db', t.held)
  BY <1>3, <1>4, <1>5, <1>6, ShiftWriteChanges
<1> QED
  BY <1>5, <1>7, <1>8

LEMMA CommitVoidWrites ==
  ASSUME TypeOK, Locking, NEW p \in Clients, tx[p] # NoTx, CommitVoid(p)
  PROVE  /\ db' \in Database /\ ChangesOnly(db, db', tx[p].held) /\ tx' = Committed(p)
         /\ acked' = acked
<1> DEFINE t == tx[p]
           o == t.req.order
           ls == t.req.lines
           old == t.snap.orders[o]
           mv == WithMovements(old, ls, {"void_restoration"}, "waste_void")
           row == [db.orders[o] EXCEPT !.live = @ \ ls,
                                       !.status = IF old.live = ls THEN "voided" ELSE @,
                                       !.moves = mv]
<1>1. /\ t.req \in Requests /\ LocksOwned(t) /\ t.pc = "commit" /\ t.req.op = "void"
      /\ t.snap \in Database
  BY Zenon, OpenTransaction DEF Locking, CommitVoid
<1>2. t.req \in LineVoids
  BY <1>1, RequestFields
<1>3. o \in Orders /\ Row("order", o) \in t.held
  BY Zenon, <1>1, <1>2 DEF LocksOwned, OrderOf, LineVoids
<1>4. db \in Database /\ db.orders[o] \in OrderRow /\ old \in OrderRow
  BY Zenon, <1>1, <1>3 DEF TypeOK, Database
<1>5. row \in OrderRow
  <2>1. mv \in [Lines -> [Movements -> Nat]]
    BY Zenon, <1>4, MovementsTyped
  <2> HIDE DEF mv, old
  <2> QED
    BY Zenon, <1>4, <2>1 DEF OrderRow
<1>6. db' = [db EXCEPT !.orders[o] = row] /\ tx' = Committed(p) /\ acked' = acked
  BY Zenon DEF CommitVoid
<1> HIDE DEF row, o, t
<1>7. db' \in Database
  BY <1>3, <1>4, <1>5, <1>6, OrderWrite
<1>8. ChangesOnly(db, db', t.held)
  BY <1>3, <1>4, <1>5, <1>6, OrderWriteChanges
<1> QED
  BY <1>6, <1>7, <1>8 DEF t

LEMMA CommitFireWrites ==
  ASSUME TypeOK, Locking, NEW p \in Clients, tx[p] # NoTx, CommitFire(p)
  PROVE  /\ db' \in Database /\ ChangesOnly(db, db', tx[p].held) /\ tx' = Committed(p)
         /\ acked' = acked
<1> DEFINE t == tx[p]
           o == t.req.order
           row == [db.orders[o] EXCEPT !.fired = @ \cup {t.req.line}]
<1>1. /\ t.req \in Requests /\ LocksOwned(t) /\ t.pc = "commit" /\ t.req.op = "fire"
  BY Zenon, OpenTransaction DEF Locking, CommitFire
<1>2. t.req \in Firings
  BY <1>1, RequestFields
<1>3. o \in Orders /\ t.req.line \in Lines /\ Row("order", o) \in t.held
  BY Zenon, <1>1, <1>2 DEF LocksOwned, OrderOf, Firings
<1>4. db \in Database /\ db.orders[o] \in OrderRow
  BY Zenon, <1>3 DEF TypeOK, Database
<1>5. row \in OrderRow
  BY Zenon, <1>3, <1>4 DEF OrderRow
<1>6. db' = [db EXCEPT !.orders[o] = row] /\ tx' = Committed(p) /\ acked' = acked
  BY Zenon DEF CommitFire
<1> HIDE DEF row, o, t
<1>7. db' \in Database
  BY <1>3, <1>4, <1>5, <1>6, OrderWrite
<1>8. ChangesOnly(db, db', t.held)
  BY <1>3, <1>4, <1>5, <1>6, OrderWriteChanges
<1> QED
  BY <1>6, <1>7, <1>8 DEF t

LEMMA CommitDiscountWrites ==
  ASSUME TypeOK, Locking, NEW p \in Clients, tx[p] # NoTx, CommitDiscount(p)
  PROVE  /\ db' \in Database /\ ChangesOnly(db, db', tx[p].held) /\ tx' = Committed(p)
         /\ acked' = acked
<1> DEFINE t == tx[p]
           o == t.req.order
           c == t.req.coupon
           applied == Lesser(t.req.amount, Subtotal(t.snap, o) - DiscountTotal(t.snap, o))
           row == [status |-> "applied", order |-> o, amount |-> applied, coupon |-> c]
           uses == [k \in Coupons |-> db.uses[k] + IF k = c THEN 1 ELSE 0]
<1>1. /\ t.req \in Requests /\ LocksOwned(t) /\ t.pc = "commit" /\ t.req.op = "discount"
      /\ applied \in 0 .. MaxMoney
  BY OpenTransaction DEF Locking, CommitDiscount
<1>2. t.req \in Discounts
  BY <1>1, RequestFields
<1>3. /\ o \in Orders /\ Row("order", o) \in t.held
      /\ c # NoCoupon => Row("coupon", c) \in t.held
  BY Zenon, <1>1, <1>2 DEF LocksOwned, OrderOf, Discounts
<1>4. PICK i \in DiscountIds : db.discounts[i] = None
                               /\ db' = [db EXCEPT !.discounts[i] = row, !.uses = uses]
  BY Zenon DEF CommitDiscount
<1>5. tx' = Committed(p) /\ acked' = acked /\ db \in Database /\ db.uses \in [Coupons -> Nat]
  BY DEF CommitDiscount, TypeOK, Database
<1> HIDE DEF applied
<1>6. row \in DiscountRow /\ row.order = o
  BY Zenon, <1>1, <1>2 DEF Discounts, DiscountRow
<1>7. uses \in [Coupons -> Nat]
  BY <1>5
<1>8. \A k \in Coupons : Row("coupon", k) \notin t.held => uses[k] = db.uses[k]
  <2>1. c \in Coupons => c # NoCoupon
    BY InstanceAssumption
  <2>2. \A k \in Coupons : uses[k] = db.uses[k] + IF k = c THEN 1 ELSE 0
    OBVIOUS
  <2>3. \A k \in Coupons : k # c => uses[k] = db.uses[k]
    BY <1>5, <2>2
  <2> QED
    BY Zenon, <1>3, <2>1, <2>3
<1> HIDE DEF row, uses, o, t
<1>9. db' \in Database
  BY Zenon, <1>4, <1>5, <1>6, <1>7, DiscountWrite
<1>10. ChangesOnly(db, db', t.held)
  BY Zenon, <1>3, <1>4, <1>5, <1>6, <1>7, <1>8, DiscountWriteChanges
<1> QED
  BY <1>5, <1>9, <1>10 DEF t

-----------------------------------------------------------------------------
(* The invariant holds *)

LEMMA InitEstablishes == Init => TypeOK /\ Locking
<1> SUFFICES ASSUME Init PROVE TypeOK /\ Locking
  OBVIOUS
<1>1. db \in Database
  <2> DEFINE row(o) == [status |-> "open", live |-> ItemsOf[o], fired |-> {},
                        moves |-> [l \in Lines |-> [m \in Movements |-> 0]],
                        cogs |-> FALSE]
  <2>1. \A o \in Orders : row(o) \in OrderRow
    BY InstanceAssumption DEF OrderRow
  <2>2. db = [orders |-> [o \in Orders |-> row(o)],
              payments  |-> [i \in PaymentIds |-> None],
              discounts |-> [i \in DiscountIds |-> None],
              shifts    |-> [s \in ShiftIds |-> None],
              uses      |-> [c \in Coupons |-> 0]]
    BY DEF Init
  <2> HIDE DEF row
  <2> QED
    BY <2>1, <2>2 DEF Database
<1>2. TypeOK
  BY <1>1 DEF Init, TypeOK
<1>3. Locking
  BY Zenon DEF Init, Locking, ExclusiveLocks, NoTx
<1> QED
  BY <1>2, <1>3

LEMMA IdleTakesNoStep ==
  ASSUME NEW p \in Clients, Step(p)
  PROVE  tx[p] # NoTx
<1>1. NoTx.pc = "idle"
  BY DEF NoTx
<1>2. LockOrder(p) => tx[p].pc # "idle"
  BY DEF LockOrder
<1>3. LockShift(p) => tx[p].pc # "idle"
  BY Zenon DEF LockShift
<1>4. LockCoupon(p) => tx[p].pc # "idle"
  BY DEF LockCoupon
<1>5. InsertPayment(p) => tx[p].pc # "idle"
  BY DEF InsertPayment
<1>6. InsertShift(p) => tx[p].pc # "idle"
  BY DEF InsertShift
<1>7. CommitCollect(p) => tx[p].pc # "idle"
  BY DEF CommitCollect
<1>8. CommitReverse(p) => tx[p].pc # "idle"
  BY Zenon DEF CommitReverse
<1>9. CommitClose(p) => tx[p].pc # "idle"
  BY DEF CommitClose
<1>10. CommitOpen(p) => tx[p].pc # "idle"
  BY DEF CommitOpen
<1>11. CommitVoid(p) => tx[p].pc # "idle"
  BY Zenon DEF CommitVoid
<1>12. CommitDiscount(p) => tx[p].pc # "idle"
  BY DEF CommitDiscount
<1>13. CommitFire(p) => tx[p].pc # "idle"
  BY Zenon DEF CommitFire
<1>14. ReplayUnderLock(p) => tx[p].pc # "idle"
  BY DEF ReplayUnderLock
<1>15. KeyConflict(p) => tx[p].pc # "idle"
  BY DEF KeyConflict
<1>16. ReplayAfterConflict(p) => tx[p].pc # "idle"
  BY DEF ReplayAfterConflict
<1> QED
  BY Zenon, <1>1, <1>2, <1>3, <1>4, <1>5, <1>6, <1>7, <1>8, <1>9,
     <1>10, <1>11, <1>12, <1>13, <1>14, <1>15, <1>16 DEF Step

(* A commit changes, outside its own transaction, only rows it had locked. *)
LEMMA CommitsWrite ==
  ASSUME TypeOK, Locking, NEW p \in Clients, tx[p] # NoTx,
         \/ CommitCollect(p) \/ CommitReverse(p) \/ CommitClose(p) \/ CommitOpen(p)
         \/ CommitVoid(p) \/ CommitDiscount(p) \/ CommitFire(p)
  PROVE  /\ db' \in Database /\ ChangesOnly(db, db', tx[p].held) /\ tx' = Committed(p)
         /\ acked' \in SUBSET [req: Collects, payment: PaymentIds]
<1>1. CASE CommitCollect(p)
  BY <1>1, CommitCollectWrites
<1>2. CASE CommitReverse(p)
  BY <1>2, CommitReverseWrites DEF TypeOK
<1>3. CASE CommitClose(p)
  BY <1>3, CommitCloseWrites DEF TypeOK
<1>4. CASE CommitOpen(p)
  BY <1>4, CommitOpenWrites DEF TypeOK
<1>5. CASE CommitVoid(p)
  BY <1>5, CommitVoidWrites DEF TypeOK
<1>6. CASE CommitDiscount(p)
  BY <1>6, CommitDiscountWrites DEF TypeOK
<1>7. CASE CommitFire(p)
  BY <1>7, CommitFireWrites DEF TypeOK
<1> QED
  BY <1>1, <1>2, <1>3, <1>4, <1>5, <1>6, <1>7

LEMMA CommitStepKeeps ==
  ASSUME TypeOK, Locking, NEW p \in Clients, tx[p] # NoTx,
         \/ CommitCollect(p) \/ CommitReverse(p) \/ CommitClose(p) \/ CommitOpen(p)
         \/ CommitVoid(p) \/ CommitDiscount(p) \/ CommitFire(p)
  PROVE  Locking' /\ TypeOK'
<1>1. /\ db' \in Database /\ ChangesOnly(db, db', tx[p].held) /\ tx' = Committed(p)
      /\ acked' \in SUBSET [req: Collects, payment: PaymentIds]
  BY CommitsWrite
<1>2. Locking' /\ tx' \in [Clients -> Transaction \cup {NoTx}]
  BY <1>1, CommitKeeps
<1> QED
  BY <1>1, <1>2 DEF TypeOK

LEMMA NextKeeps == TypeOK /\ Locking /\ [Next]_vars => TypeOK' /\ Locking'
<1> SUFFICES ASSUME TypeOK, Locking, [Next]_vars PROVE TypeOK' /\ Locking'
  OBVIOUS
<1>1. CASE UNCHANGED vars
  BY <1>1 DEF vars, TypeOK, Locking, ExclusiveLocks
<1>2. ASSUME NEW p \in Clients, NEW q \in Requests, Begin(p, q) PROVE TypeOK' /\ Locking'
  BY <1>2, BeginKeeps
<1>3. ASSUME NEW p \in Clients, Rollback(p) PROVE TypeOK' /\ Locking'
  <2>1. Locking' /\ tx' \in [Clients -> Transaction \cup {NoTx}]
    BY Zenon, <1>3, EndKeeps DEF Rollback
  <2> QED
    BY <1>3, <2>1 DEF Rollback, TypeOK
<1>4. ASSUME NEW p \in Clients, Step(p) PROVE TypeOK' /\ Locking'
  <2>1. tx[p] # NoTx
    BY <1>4, IdleTakesNoStep
  <2>2. CASE LockOrder(p)
    BY <2>1, <2>2, LockOrderKeeps
  <2>3. CASE LockShift(p)
    BY <2>1, <2>3, LockShiftKeeps
  <2>4. CASE LockCoupon(p)
    BY <2>1, <2>4, LockCouponKeeps
  <2>5. CASE InsertPayment(p)
    BY <2>1, <2>5, InsertPaymentKeeps
  <2>6. CASE InsertShift(p)
    BY <2>1, <2>6, InsertShiftKeeps
  <2>7. CASE ReplayUnderLock(p)
    BY <2>1, <2>7, ReplayUnderLockKeeps
  <2>8. CASE KeyConflict(p)
    BY <2>1, <2>8, KeyConflictKeeps
  <2>9. CASE ReplayAfterConflict(p)
    BY <2>1, <2>9, ReplayAfterConflictKeeps
  <2>10. CASE \/ CommitCollect(p) \/ CommitReverse(p) \/ CommitClose(p) \/ CommitOpen(p)
              \/ CommitVoid(p) \/ CommitDiscount(p) \/ CommitFire(p)
    BY <2>1, <2>10, CommitStepKeeps
  <2> QED
    BY <1>4, <2>2, <2>3, <2>4, <2>5, <2>6, <2>7, <2>8, <2>9, <2>10 DEF Step
<1> QED
  BY <1>1, <1>2, <1>3, <1>4 DEF Next

(* Type correctness: every row, snapshot and lock of the model has its type *)
(* in every reachable state.                                                *)
THEOREM TypeCorrect == Spec => []TypeOK
<1>1. Init => TypeOK /\ Locking
  BY InitEstablishes
<1>2. TypeOK /\ Locking /\ [Next]_vars => (TypeOK /\ Locking)'
  BY NextKeeps
<1> QED
  BY <1>1, <1>2, PTL DEF Spec

(* The locking invariant is inductive. *)
THEOREM LockingInvariant == Spec => []Locking
<1>1. Init => TypeOK /\ Locking
  BY InitEstablishes
<1>2. TypeOK /\ Locking /\ [Next]_vars => (TypeOK /\ Locking)'
  BY NextKeeps
<1> QED
  BY <1>1, <1>2, PTL DEF Spec

(* Whatever a transaction has locked, it decides on current data: the       *)
(* snapshot it read before it waited for the lock still is the database.    *)
THEOREM LockedDataStaysCurrent == Spec => []LockedDataIsCurrent
<1>1. TypeOK /\ Locking => LockedDataIsCurrent
  <2> SUFFICES ASSUME TypeOK, Locking, NEW p \in Clients, NEW r \in tx[p].held
               PROVE  LET snap == tx[p].snap IN
                      /\ r[1] = "order" =>
                           /\ snap.orders[r[2]] = db.orders[r[2]]
                           /\ \A i \in PaymentsOf(snap, r[2]) \cup PaymentsOf(db, r[2]) :
                                snap.payments[i] = db.payments[i]
                           /\ \A i \in DiscountsOf(snap, r[2]) \cup DiscountsOf(db, r[2]) :
                                snap.discounts[i] = db.discounts[i]
                      /\ r[1] = "shift" =>
                           /\ snap.shifts[r[2]] = db.shifts[r[2]]
                           /\ \A i \in PaymentIds :
                                db.payments[i] # None /\ db.payments[i].shift = r[2]
                                  => snap.payments[i] # None
                      /\ r[1] = "coupon" => snap.uses[r[2]] = db.uses[r[2]]
    BY Zenon DEF LockedDataIsCurrent
  <2>1. tx[p] # NoTx
    <3>1. NoTx.held = {}
      BY DEF NoTx
    <3> QED
      BY <3>1
  <2>2. LocksOwned(tx[p]) /\ SnapshotCurrent(db, tx[p]) /\ r \in Locks
    BY Zenon, <2>1, OpenTransaction DEF Locking
  <2>3. CASE r[1] = "order"
    <3>1. r[2] \in Orders /\ r = Row("order", r[2])
      BY Zenon, <2>2, <2>3, LockIsRow
    <3> QED
      BY ZenonT(60), <2>2, <2>3, <3>1 DEF SnapshotCurrent
  <2>4. CASE r[1] = "shift"
    <3>1. r[2] \in ShiftIds /\ r = Row("shift", r[2])
      BY Zenon, <2>2, <2>4, LockIsRow
    <3>2. tx[p].snap.shifts[r[2]].status = "open" /\ None.status = "none"
      BY Zenon, <2>2, <3>1 DEF LocksOwned, None
    <3>3. r \notin tx[p].stale /\ tx[p].snap.shifts[r[2]] # None
      BY Zenon, <2>2, <2>4, <3>2 DEF SnapshotCurrent
    <3> QED
      BY ZenonT(60), <2>2, <2>4, <3>1, <3>3 DEF SnapshotCurrent
  <2>5. CASE r[1] = "coupon"
    <3>1. r[2] \in Coupons /\ r = Row("coupon", r[2])
      BY Zenon, <2>2, <2>5, LockIsRow
    <3> QED
      BY ZenonT(60), <2>2, <2>5, <3>1 DEF SnapshotCurrent
  <2> QED
    BY Zenon, <2>3, <2>4, <2>5
<1> QED
  BY <1>1, TypeCorrect, LockingInvariant, PTL

-----------------------------------------------------------------------------
(* What each commit does to the tables *)

(* One payment is added to the order, whose lines stay as they are. *)
Collected1(p, i) ==
  LET t == tx[p]
      o == t.req.order
  IN /\ db.payments[i] = None
     /\ db'.payments[i] \in PaymentRow
     /\ db'.payments[i].status = "completed"
     /\ db'.payments[i].order = o
     /\ db'.payments[i].shift = ShiftHeld(t)
     /\ db'.payments[i].key = t.req.key
     /\ db'.payments[i].method = t.req.method
     /\ db'.payments[i].tender = t.req.tender
     /\ db'.payments[i].net = Net(t)
     /\ \A x \in PaymentIds \ {i} : db'.payments[x] = db.payments[x]
     /\ db'.orders[o].live = db.orders[o].live
     /\ db'.orders[o].fired = db.orders[o].fired
     /\ db'.orders[o].moves = db.orders[o].moves
     /\ db'.orders[o].status = IF Remaining(t.snap, o) = Net(t) THEN "paid" ELSE db.orders[o].status
     /\ \A x \in Orders \ {o} : db'.orders[x] = db.orders[x]
     /\ db'.shifts = db.shifts /\ db'.discounts = db.discounts /\ db'.uses = db.uses

LEMMA CollectEffect ==
  ASSUME TypeOK, Locking, NEW p \in Clients, tx[p] # NoTx, CommitCollect(p)
  PROVE  /\ tx[p].req \in Collects /\ MayCollect(tx[p])
         /\ Row("order", tx[p].req.order) \in tx[p].held
         /\ tx[p].req.key # NoKey => PaymentsWithKey(db, tx[p].req.key) = {}
         /\ ShiftHeld(tx[p]) \in ShiftIds /\ Row("shift", ShiftHeld(tx[p])) \in tx[p].held
         /\ \E i \in PaymentIds : Collected1(p, i) /\ Answer(tx[p].req, i)
<1> DEFINE t == tx[p]
           o == t.req.order
           settled == Remaining(t.snap, o) = Net(t)
           pay == [status |-> "completed", order |-> o, shift |-> ShiftHeld(t),
                   method |-> t.req.method, tender |-> t.req.tender,
                   net |-> Net(t), key |-> t.req.key]
           row == [db.orders[o] EXCEPT !.status = IF settled THEN "paid" ELSE @,
                                       !.cogs = @ \/ settled]
<1>1. /\ t.req \in Requests /\ LocksOwned(t) /\ EntriesReserved(db, t)
      /\ t.pc = "commit" /\ t.req.op = "collect"
  BY OpenTransaction DEF Locking, CommitCollect
<1>2. t.req \in Collects /\ o \in Orders
  BY <1>1, RequestFields DEF Collects
<1>3. /\ MayCollect(t) /\ Row("order", o) \in t.held
      /\ t.req.key # NoKey => PaymentsWithKey(db, t.req.key) = {}
      /\ \E s \in ShiftIds : Row("shift", s) \in t.held
  BY Zenon, <1>1 DEF LocksOwned, OrderOf, EntriesReserved
<1>4. ShiftHeld(t) \in ShiftIds /\ Row("shift", ShiftHeld(t)) \in t.held
  BY Zenon, <1>3 DEF ShiftHeld
<1>5. PICK i \in PaymentIds :
        /\ db.payments[i] = None /\ db' = [db EXCEPT !.payments[i] = pay, !.orders[o] = row]
        /\ Answer(t.req, i)
  BY Zenon DEF CommitCollect
<1>6. db' \in Database /\ db \in Database
  BY CommitCollectWrites DEF TypeOK
<1>7. /\ pay.status = "completed" /\ pay.order = o /\ pay.shift = ShiftHeld(t)
      /\ pay.key = t.req.key /\ pay.net = Net(t)
      /\ pay.method = t.req.method /\ pay.tender = t.req.tender
  OBVIOUS
<1>8. /\ row.live = db.orders[o].live /\ row.fired = db.orders[o].fired
      /\ row.moves = db.orders[o].moves
      /\ row.status = IF settled THEN "paid" ELSE db.orders[o].status
  <2>1. db.orders[o] \in OrderRow
    BY <1>2, <1>6 DEF Database
  <2> HIDE DEF settled
  <2> QED
    BY <2>1 DEF OrderRow
<1>9. /\ db'.payments[i] = pay /\ db'.orders[o] = row /\ db'.shifts = db.shifts
      /\ db'.discounts = db.discounts /\ db'.uses = db.uses
      /\ \A x \in PaymentIds \ {i} : db'.payments[x] = db.payments[x]
      /\ \A x \in Orders \ {o} : db'.orders[x] = db.orders[x]
  <2> HIDE DEF pay, row, o
  <2> QED
    BY <1>2, <1>5, <1>6 DEF Database
<1>10. db'.payments[i] \in PaymentRow
  <2>1. db'.payments[i] \in PaymentRow \cup {None}
    BY <1>6 DEF Database
  <2>2. None.status = "none"
    BY DEF None
  <2> QED
    BY <1>7, <1>9, <2>1, <2>2
<1> HIDE DEF pay, row
<1>11. Collected1(p, i)
  BY Zenon, <1>5, <1>7, <1>8, <1>9, <1>10 DEF Collected1
<1> QED
  BY <1>2, <1>3, <1>4, <1>5, <1>11

(* The snapshot a reversal works on, with the payment reversed. *)
AfterReversal(t) ==
  [t.snap EXCEPT !.payments[t.req.payment] = [@ EXCEPT !.status = t.req.to]]

(* One payment changes status; the status of its order is recomputed. *)
Reversed1(p) ==
  LET t == tx[p]
      i == t.req.payment
      o == OrderOf(t)
  IN /\ db.payments[i] # None /\ db'.payments[i] # None
     /\ db'.payments[i].status = t.req.to
     /\ db'.payments[i].order = db.payments[i].order
     /\ db'.payments[i].shift = db.payments[i].shift
     /\ db'.payments[i].key = db.payments[i].key
     /\ db'.payments[i].method = db.payments[i].method
     /\ db'.payments[i].tender = db.payments[i].tender
     /\ db'.payments[i].net = db.payments[i].net
     /\ \A x \in PaymentIds \ {i} : db'.payments[x] = db.payments[x]
     /\ db'.orders[o].live = db.orders[o].live
     /\ db'.orders[o].fired = db.orders[o].fired
     /\ db'.orders[o].moves = IF t.req.to = "voided" THEN db.orders[o].moves
                             ELSE WithMovements(t.snap.orders[o], t.snap.orders[o].live,
                                    {"waste_refund", "void_restoration"}, "waste_refund")
     /\ db'.orders[o].status = StatusAfterReversal(AfterReversal(t), o)
     /\ \A x \in Orders \ {o} : db'.orders[x] = db.orders[x]
     /\ db'.shifts = db.shifts /\ db'.discounts = db.discounts /\ db'.uses = db.uses

LEMMA ReverseEffect ==
  ASSUME TypeOK, Locking, NEW p \in Clients, tx[p] # NoTx, CommitReverse(p)
  PROVE  /\ tx[p].req \in Reversals /\ OrderOf(tx[p]) \in Orders
         /\ db.payments[tx[p].req.payment].order = OrderOf(tx[p])
         /\ Row("order", OrderOf(tx[p])) \in tx[p].held
         /\ Reversed1(p)
<1> DEFINE t == tx[p]
           i == t.req.payment
           o == OrderOf(t)
           old == t.snap.orders[o]
           st == StatusAfterReversal(AfterReversal(t), o)
           mv == WithMovements(old, old.live, {"waste_refund", "void_restoration"}, "waste_refund")
           pay == [db.payments[i] EXCEPT !.status = t.req.to]
           row == [db.orders[o] EXCEPT !.status = st,
                                       !.moves = IF t.req.to = "voided" THEN @ ELSE mv]
<1>1. /\ t \in Transaction /\ t.req \in Requests /\ LocksOwned(t) /\ SnapshotCurrent(db, t)
      /\ t.pc = "commit" /\ t.req.op = "reverse"
  BY Zenon, OpenTransaction DEF Locking, CommitReverse
<1>2. t.req \in Reversals /\ o \in Orders
  BY Zenon, <1>1, RequestFields, OrderOfTyped DEF LocksOwned
<1>3. /\ Row("order", o) \in t.held /\ t.snap.payments[i] # None
      /\ i \in PaymentIds /\ t.req.to \in {"voided", "refunded"}
  BY Zenon, <1>1, <1>2 DEF LocksOwned, Reversals
<1>4. db.payments[i] # None /\ db.payments[i].order = o
  BY Zenon, <1>1, <1>3 DEF SnapshotCurrent, OrderOf
<1>5. db \in Database /\ db.payments[i] \in PaymentRow /\ db.orders[o] \in OrderRow
  BY Zenon, <1>2, <1>3, <1>4 DEF TypeOK, Database
<1>6. db' = [db EXCEPT !.payments[i] = pay, !.orders[o] = row]
  BY Zenon DEF CommitReverse, AfterReversal
<1>7. /\ pay \in PaymentRow /\ pay.status = t.req.to /\ pay.order = db.payments[i].order
      /\ pay.shift = db.payments[i].shift /\ pay.key = db.payments[i].key
      /\ pay.method = db.payments[i].method /\ pay.tender = db.payments[i].tender
      /\ pay.net = db.payments[i].net
  BY Zenon, <1>3, <1>5 DEF PaymentRow
<1>8. /\ row.live = db.orders[o].live /\ row.fired = db.orders[o].fired /\ row.status = st
      /\ row.moves = IF t.req.to = "voided" THEN db.orders[o].moves ELSE mv
  <2> HIDE DEF st, mv
  <2> QED
    BY <1>5 DEF OrderRow
<1>9. /\ db'.payments[i] = pay /\ db'.orders[o] = row /\ db'.shifts = db.shifts
      /\ db'.discounts = db.discounts /\ db'.uses = db.uses
      /\ \A x \in PaymentIds \ {i} : db'.payments[x] = db.payments[x]
      /\ \A x \in Orders \ {o} : db'.orders[x] = db.orders[x]
  <2> HIDE DEF pay, row, o, i
  <2> QED
    BY <1>2, <1>3, <1>5, <1>6 DEF Database
<1>10. db'.payments[i] # None
  BY ZenonT(60), <1>7, <1>9, NoneIsNoRow
<1> HIDE DEF pay, row
<1>11. Reversed1(p)
  BY Zenon, <1>4, <1>7, <1>8, <1>9, <1>10 DEF Reversed1
<1> QED
  BY Zenon, <1>2, <1>3, <1>4, <1>11

(* One shift is closed, or opened by a cashier who holds none. *)
LEMMA CloseEffect ==
  ASSUME TypeOK, Locking, NEW p \in Clients, tx[p] # NoTx, CommitClose(p)
  PROVE  \E s \in ShiftIds :
           /\ s = tx[p].req.shift /\ Row("shift", s) \in tx[p].held
           /\ db.shifts[s] # None /\ db'.shifts[s] # None
           /\ db'.shifts[s].status = "closed"
           /\ db'.shifts[s].recorded = CashSales(tx[p].snap, s)
           /\ db'.shifts[s].cashier = db.shifts[s].cashier
           /\ \A x \in ShiftIds \ {s} : db'.shifts[x] = db.shifts[x]
           /\ db'.orders = db.orders /\ db'.payments = db.payments
           /\ db'.discounts = db.discounts /\ db'.uses = db.uses
<1> DEFINE t == tx[p]
           s == t.req.shift
           sales == CashSales(t.snap, s)
           row == [db.shifts[s] EXCEPT !.status = "closed", !.recorded = sales]
<1>1. /\ t \in Transaction /\ t.req \in Requests /\ LocksOwned(t) /\ SnapshotCurrent(db, t)
      /\ t.pc = "commit" /\ t.req.op = "close" /\ sales \in -MaxMoney .. MaxMoney
  BY OpenTransaction DEF Locking, CommitClose
<1>2. s \in ShiftIds
  BY <1>1, RequestFields DEF Closings
<1>3. Row("shift", s) \in t.held /\ db.shifts[s] # None
  BY Zenon, <1>1, <1>2 DEF LocksOwned, SnapshotCurrent
<1>4. db.shifts[s] \in ShiftRow /\ db \in Database
  BY Zenon, <1>2, <1>3 DEF TypeOK, Database
<1>5. db' = [db EXCEPT !.shifts[s] = row]
  BY DEF CommitClose
<1>6. /\ row \in ShiftRow /\ row.status = "closed" /\ row.recorded = sales
      /\ row.cashier = db.shifts[s].cashier
  <2> HIDE DEF sales
  <2> QED
    BY Zenon, <1>1, <1>4 DEF ShiftRow
<1>7. /\ db'.shifts[s] = row
      /\ \A x \in ShiftIds \ {s} : db'.shifts[x] = db.shifts[x]
      /\ db'.orders = db.orders /\ db'.payments = db.payments
      /\ db'.discounts = db.discounts /\ db'.uses = db.uses
  <2> HIDE DEF row, s
  <2> QED
    BY <1>2, <1>4, <1>5 DEF Database
<1>8. row # None
  BY <1>6, NoneIsNoRow
<1> HIDE DEF row
<1> QED
  BY <1>2, <1>3, <1>6, <1>7, <1>8

LEMMA OpenEffect ==
  ASSUME TypeOK, Locking, NEW p \in Clients, tx[p] # NoTx, CommitOpen(p)
  PROVE  /\ OpenShifts(db, tx[p].req.actor) = {}
         /\ db'.orders = db.orders /\ db'.payments = db.payments
         /\ db'.discounts = db.discounts /\ db'.uses = db.uses
         /\ \E s \in ShiftIds :
              /\ db.shifts[s] = None /\ db'.shifts[s] # None
              /\ db'.shifts[s].status = "open"
              /\ db'.shifts[s].cashier = tx[p].req.actor
              /\ \A x \in ShiftIds \ {s} : db'.shifts[x] = db.shifts[x]
<1> DEFINE t == tx[p]
           row == [status |-> "open", cashier |-> t.req.actor,
                   branch |-> t.req.branch, recorded |-> 0]
<1>1. /\ EntriesReserved(db, t) /\ t.pc = "commit" /\ t.req.op = "open" /\ db \in Database
  BY DEF Locking, CommitOpen, TypeOK
<1>2. OpenShifts(db, t.req.actor) = {}
  BY <1>1 DEF EntriesReserved
<1>3. PICK s \in ShiftIds : db.shifts[s] = None /\ db' = [db EXCEPT !.shifts[s] = row]
  BY Zenon DEF CommitOpen
<1>4. /\ db'.shifts[s] = row
      /\ \A x \in ShiftIds \ {s} : db'.shifts[x] = db.shifts[x]
      /\ db'.orders = db.orders /\ db'.payments = db.payments
      /\ db'.discounts = db.discounts /\ db'.uses = db.uses
  <2> HIDE DEF row
  <2> QED
    BY <1>1, <1>3 DEF Database
<1>5. row # None /\ row.status = "open" /\ row.cashier = t.req.actor
  <2>1. None.status = "none" /\ row.status = "open"
    BY DEF None
  <2> QED
    BY <2>1
<1> HIDE DEF row
<1> QED
  BY <1>2, <1>3, <1>4, <1>5

(* Lines are voided; the order is voided when the last one is. *)
LEMMA VoidEffect ==
  ASSUME TypeOK, Locking, NEW p \in Clients, tx[p] # NoTx, CommitVoid(p)
  PROVE  \E o \in Orders : \E ls \in SUBSET db.orders[o].live :
           /\ db.orders[o].status = "open"
           /\ db'.orders[o].fired = db.orders[o].fired
           /\ db'.orders[o].moves = WithMovements(db.orders[o], ls, {"void_restoration"}, "waste_void")
           /\ db'.orders[o].live = db.orders[o].live \ ls
           /\ db'.orders[o].status = IF db.orders[o].live = ls THEN "voided" ELSE "open"
           /\ \A x \in Orders \ {o} : db'.orders[x] = db.orders[x]
           /\ db'.payments = db.payments /\ db'.shifts = db.shifts
           /\ db'.discounts = db.discounts /\ db'.uses = db.uses
<1> DEFINE t == tx[p]
           o == t.req.order
           ls == t.req.lines
           old == t.snap.orders[o]
           mv == WithMovements(old, ls, {"void_restoration"}, "waste_void")
           row == [db.orders[o] EXCEPT !.live = @ \ ls,
                                       !.status = IF old.live = ls THEN "voided" ELSE @,
                                       !.moves = mv]
<1>1. /\ t.req \in Requests /\ LocksOwned(t) /\ SnapshotCurrent(db, t)
      /\ t.pc = "commit" /\ t.req.op = "void" /\ old.status = "open" /\ ls \subseteq old.live
  BY Zenon, OpenTransaction DEF Locking, CommitVoid
<1>2. t.req \in LineVoids
  BY Zenon, <1>1, RequestFields
<1>3. o \in Orders /\ Row("order", o) \in t.held
  BY Zenon, <1>1, <1>2 DEF LocksOwned, OrderOf, LineVoids
<1>4. old = db.orders[o]
  <2>1. Row("order", o)[1] = "order"
    BY DEF Row
  <2> QED
    BY Zenon, <1>1, <1>3, <2>1 DEF SnapshotCurrent
<1>5. db \in Database /\ db.orders[o] \in OrderRow
  BY Zenon, <1>3 DEF TypeOK, Database
<1>6. /\ row.live = db.orders[o].live \ ls
      /\ row.fired = db.orders[o].fired /\ row.moves = mv
      /\ row.status = IF db.orders[o].live = ls THEN "voided" ELSE "open"
  <2> HIDE DEF mv, old
  <2> QED
    BY Zenon, <1>1, <1>4, <1>5 DEF OrderRow
<1>7. db' = [db EXCEPT !.orders[o] = row]
  BY Zenon DEF CommitVoid
<1>8. /\ db'.orders[o] = row
      /\ \A x \in Orders \ {o} : db'.orders[x] = db.orders[x]
      /\ db'.payments = db.payments /\ db'.shifts = db.shifts
      /\ db'.discounts = db.discounts /\ db'.uses = db.uses
  <2> HIDE DEF row, o
  <2> QED
    BY <1>3, <1>5, <1>7 DEF Database
<1>9. mv = WithMovements(db.orders[o], ls, {"void_restoration"}, "waste_void")
  BY Zenon, <1>4
<1>10. ls \in SUBSET db.orders[o].live /\ db.orders[o].status = "open"
  BY Zenon, <1>1, <1>4
<1> HIDE DEF row, old, mv
<1> QED
  BY Zenon, <1>3, <1>6, <1>8, <1>9, <1>10

(* A kitchen ticket is noted on the line. *)
LEMMA FireEffect ==
  ASSUME TypeOK, Locking, NEW p \in Clients, tx[p] # NoTx, CommitFire(p)
  PROVE  /\ \E o \in Orders : \E l \in Lines :
              /\ db'.orders[o].fired = db.orders[o].fired \cup {l}
              /\ db'.orders[o].live = db.orders[o].live
              /\ db'.orders[o].moves = db.orders[o].moves
              /\ db'.orders[o].status = db.orders[o].status
              /\ \A x \in Orders \ {o} : db'.orders[x] = db.orders[x]
         /\ db'.payments = db.payments /\ db'.shifts = db.shifts
         /\ db'.discounts = db.discounts /\ db'.uses = db.uses
<1> DEFINE o == tx[p].req.order
           l == tx[p].req.line
           row == [db.orders[o] EXCEPT !.fired = @ \cup {l}]
<1>1. db \in Database
  BY DEF TypeOK
<1>2. o \in Orders /\ l \in Lines
  BY Zenon, OpenTransaction, RequestFields DEF CommitFire, Firings
<1>3. /\ row.live = db.orders[o].live /\ row.status = db.orders[o].status
      /\ row.moves = db.orders[o].moves /\ row.fired = db.orders[o].fired \cup {l}
  BY <1>1, <1>2 DEF Database, OrderRow
<1>4. db' = [db EXCEPT !.orders[o] = row]
  BY Zenon DEF CommitFire
<1> HIDE DEF row, o, l
<1>5. /\ db'.payments = db.payments /\ db'.shifts = db.shifts /\ db'.orders[o] = row
      /\ db'.discounts = db.discounts /\ db'.uses = db.uses
      /\ \A x \in Orders \ {o} : db'.orders[x] = db.orders[x]
  BY <1>1, <1>2, <1>4 DEF Database
<1> QED
  BY Zenon, <1>2, <1>3, <1>5

(* One discount is added to the order, and one use to its coupon. *)
Discounted1(p, i) ==
  LET q == tx[p].req
  IN /\ db.discounts[i] = None
     /\ db'.discounts[i] \in DiscountRow
     /\ db'.discounts[i].order = q.order
     /\ db'.discounts[i].coupon = q.coupon
     /\ \A x \in DiscountIds \ {i} : db'.discounts[x] = db.discounts[x]
     /\ db'.uses = [k \in Coupons |-> db.uses[k] + IF k = q.coupon THEN 1 ELSE 0]
     /\ db'.orders = db.orders /\ db'.payments = db.payments /\ db'.shifts = db.shifts

LEMMA DiscountEffect ==
  ASSUME TypeOK, Locking, NEW p \in Clients, tx[p] # NoTx, CommitDiscount(p)
  PROVE  /\ tx[p].req \in Discounts
         /\ tx[p].req.coupon # NoCoupon => db.uses[tx[p].req.coupon] < MaxUses
         /\ \E i \in DiscountIds : Discounted1(p, i)
<1> DEFINE t == tx[p]
           q == t.req
           left == Subtotal(t.snap, q.order) - DiscountTotal(t.snap, q.order)
           applied == Lesser(q.amount, left)
           row == [status |-> "applied", order |-> q.order, amount |-> applied, coupon |-> q.coupon]
           uses == [k \in Coupons |-> db.uses[k] + IF k = q.coupon THEN 1 ELSE 0]
<1>1. /\ t.req \in Requests /\ LocksOwned(t) /\ SnapshotCurrent(db, t) /\ db \in Database
      /\ t.pc = "commit" /\ q.op = "discount" /\ applied \in 0 .. MaxMoney
      /\ q.coupon # NoCoupon => t.snap.uses[q.coupon] < MaxUses
  BY Zenon, OpenTransaction DEF Locking, CommitDiscount, TypeOK
<1>2. q \in Discounts
  BY Zenon, <1>1, RequestFields
<1>3. q.coupon # NoCoupon => db.uses[q.coupon] < MaxUses
  <2> SUFFICES ASSUME q.coupon # NoCoupon PROVE db.uses[q.coupon] = t.snap.uses[q.coupon]
    BY Zenon, <1>1
  <2>1. q.coupon \in Coupons /\ Row("coupon", q.coupon) \in t.held
    BY Zenon, <1>1, <1>2 DEF LocksOwned, Discounts
  <2>2. Row("coupon", q.coupon)[1] = "coupon"
    BY DEF Row
  <2>3. Row("coupon", q.coupon) \notin t.stale
    BY Zenon, <1>1, <2>1, <2>2 DEF SnapshotCurrent
  <2> QED
    BY Zenon, <1>1, <2>1, <2>3 DEF SnapshotCurrent
<1>4. PICK i \in DiscountIds : /\ db.discounts[i] = None
                               /\ db' = [db EXCEPT !.discounts[i] = row, !.uses = uses]
  BY Zenon DEF CommitDiscount
<1> HIDE DEF applied
<1>5. row \in DiscountRow /\ row.order = q.order /\ row.coupon = q.coupon
  BY Zenon, <1>1, <1>2 DEF Discounts, DiscountRow
<1> HIDE DEF row, uses
<1>6. /\ db'.discounts[i] = row /\ db'.uses = uses
      /\ \A x \in DiscountIds \ {i} : db'.discounts[x] = db.discounts[x]
      /\ db'.orders = db.orders /\ db'.payments = db.payments /\ db'.shifts = db.shifts
  BY <1>1, <1>4 DEF Database
<1>7. Discounted1(p, i)
  BY Zenon, <1>4, <1>5, <1>6 DEF Discounted1, uses
<1> QED
  BY <1>2, <1>3, <1>7

(* A kitchen ticket and a discount leave payments, shifts, lines and status. *)
LEMMA OtherEffects ==
  ASSUME TypeOK, Locking, NEW p \in Clients, tx[p] # NoTx,
         CommitFire(p) \/ CommitDiscount(p)
  PROVE  /\ db'.payments = db.payments /\ db'.shifts = db.shifts
         /\ \A x \in Orders : /\ db'.orders[x].live = db.orders[x].live
                              /\ db'.orders[x].status = db.orders[x].status
<1>1. CASE CommitFire(p)
  BY Zenon, <1>1, FireEffect
<1>2. CASE CommitDiscount(p)
  <2>1. \E i \in DiscountIds : Discounted1(p, i)
    BY <1>2, DiscountEffect
  <2> QED
    BY Zenon, <2>1 DEF Discounted1
<1> QED
  BY <1>1, <1>2

(* A step either leaves the tables alone or is one of the commits. *)
LEMMA StepKinds ==
  ASSUME NEW p \in Clients, Step(p)
  PROVE  \/ db' = db
         \/ /\ tx[p] # NoTx
            /\ \/ CommitCollect(p) \/ CommitReverse(p) \/ CommitClose(p) \/ CommitOpen(p)
               \/ CommitVoid(p) \/ CommitDiscount(p) \/ CommitFire(p)
<1>1. tx[p] # NoTx
  BY IdleTakesNoStep
<1>2. CASE \/ LockOrder(p) \/ LockShift(p) \/ LockCoupon(p)
           \/ InsertPayment(p) \/ InsertShift(p)
           \/ ReplayUnderLock(p) \/ KeyConflict(p) \/ ReplayAfterConflict(p)
  BY Zenon, <1>2 DEF LockOrder, LockShift, LockCoupon, LockRow, InsertPayment, InsertShift,
              ReplayUnderLock, KeyConflict, ReplayAfterConflict
<1> QED
  BY <1>1, <1>2 DEF Step

LEMMA NextKinds ==
  ASSUME [Next]_vars, db' # db
  PROVE  \E p \in Clients :
           /\ tx[p] # NoTx
           /\ \/ CommitCollect(p) \/ CommitReverse(p) \/ CommitClose(p) \/ CommitOpen(p)
              \/ CommitVoid(p) \/ CommitDiscount(p) \/ CommitFire(p)
<1>1. PICK p \in Clients : (\E q \in Requests : Begin(p, q)) \/ Step(p) \/ Rollback(p)
  BY DEF Next, vars
<1>2. Step(p)
  BY <1>1 DEF Begin, Rollback
<1> QED
  BY <1>2, StepKinds


-----------------------------------------------------------------------------
(* Balances *)

(* The balance of an order is a function of its live lines, the amounts of  *)
(* its discounts, and the amounts and statuses of its payments.             *)
LEMMA SameRemaining ==
  ASSUME NEW d, NEW e, NEW o, d.orders[o].live = e.orders[o].live,
         PaymentsOf(d, o) = PaymentsOf(e, o), DiscountsOf(d, o) = DiscountsOf(e, o),
         \A i \in PaymentsOf(e, o) : /\ d.payments[i].net = e.payments[i].net
                                     /\ d.payments[i].status = e.payments[i].status,
         \A i \in DiscountsOf(e, o) : d.discounts[i].amount = e.discounts[i].amount
  PROVE  /\ Subtotal(d, o) = Subtotal(e, o)
         /\ DiscountTotal(d, o) = DiscountTotal(e, o)
         /\ Collected(d, o) = Collected(e, o)
         /\ Remaining(d, o) = Remaining(e, o)
<1> DEFINE C == {j \in PaymentsOf(e, o) : e.payments[j].status = "completed"}
<1>1. {<<i, d.discounts[i].amount>> : i \in DiscountsOf(d, o)}
        = {<<i, e.discounts[i].amount>> : i \in DiscountsOf(e, o)}
  OBVIOUS
<1>2. {j \in PaymentsOf(d, o) : d.payments[j].status = "completed"} = C
  OBVIOUS
<1>3. C \subseteq PaymentsOf(e, o)
  OBVIOUS
<1> HIDE DEF C
<1>4. {<<i, d.payments[i].net>> : i \in C} = {<<i, e.payments[i].net>> : i \in C}
  BY <1>3
<1>5. Subtotal(d, o) = Subtotal(e, o)
  BY DEF Subtotal
<1>6. DiscountTotal(d, o) = DiscountTotal(e, o)
  BY <1>1, <1>5, Zenon DEF DiscountTotal
<1>7. Collected(d, o) = Collected(e, o)
  BY <1>2, <1>4, Zenon DEF Collected, C
<1> QED
  BY <1>5, <1>6, <1>7 DEF Remaining

(* A transaction that holds an order row knows its true balance. *)
LEMMA RemainingCurrent ==
  ASSUME NEW t, NEW o \in Orders, SnapshotCurrent(db, t), Row("order", o) \in t.held
  PROVE  /\ t.snap.orders[o] = db.orders[o]
         /\ PaymentsOf(t.snap, o) = PaymentsOf(db, o)
         /\ \A i \in PaymentsOf(db, o) : t.snap.payments[i] = db.payments[i]
         /\ DiscountsOf(t.snap, o) = DiscountsOf(db, o)
         /\ \A i \in DiscountsOf(db, o) : t.snap.discounts[i] = db.discounts[i]
         /\ Subtotal(t.snap, o) = Subtotal(db, o)
         /\ DiscountTotal(t.snap, o) = DiscountTotal(db, o)
         /\ Remaining(t.snap, o) = Remaining(db, o)
<1>0. Row("order", o)[1] = "order"
  BY DEF Row
<1>1. /\ t.snap.orders[o] = db.orders[o]
      /\ \A i \in PaymentsOf(t.snap, o) \cup PaymentsOf(db, o) : t.snap.payments[i] = db.payments[i]
      /\ \A i \in DiscountsOf(t.snap, o) \cup DiscountsOf(db, o) : t.snap.discounts[i] = db.discounts[i]
  BY <1>0 DEF SnapshotCurrent
<1>2. PaymentsOf(t.snap, o) = PaymentsOf(db, o)
  BY <1>1 DEF PaymentsOf
<1>3. DiscountsOf(t.snap, o) = DiscountsOf(db, o)
  BY <1>1 DEF DiscountsOf
<1>4. /\ Subtotal(t.snap, o) = Subtotal(db, o)
      /\ DiscountTotal(t.snap, o) = DiscountTotal(db, o)
      /\ Remaining(t.snap, o) = Remaining(db, o)
  <2>1. /\ t.snap.orders[o].live = db.orders[o].live
        /\ \A i \in DiscountsOf(db, o) : t.snap.discounts[i].amount = db.discounts[i].amount
        /\ \A i \in PaymentsOf(db, o) : /\ t.snap.payments[i].net = db.payments[i].net
                                        /\ t.snap.payments[i].status = db.payments[i].status
    BY Zenon, <1>1
  <2> QED
    BY Zenon, <1>2, <1>3, <2>1, SameRemaining
<1> QED
  BY Zenon, <1>1, <1>2, <1>3, <1>4

(* So is its discount of the lines and the discounts alone. *)
LEMMA SameDiscounts ==
  ASSUME NEW d, NEW e, NEW o, d.discounts = e.discounts, Subtotal(d, o) = Subtotal(e, o)
  PROVE  DiscountTotal(d, o) = DiscountTotal(e, o)
<1>1. DiscountsOf(d, o) = DiscountsOf(e, o)
  BY Zenon DEF DiscountsOf
<1>2. {<<i, d.discounts[i].amount>> : i \in DiscountsOf(d, o)}
        = {<<i, e.discounts[i].amount>> : i \in DiscountsOf(e, o)}
  BY <1>1
<1> QED
  BY Zenon, <1>2 DEF DiscountTotal

-----------------------------------------------------------------------------
(* Open tills *)

(* Two open shifts of one cashier are the same shift. *)
TillsExclusive ==
  \A s, u \in ShiftIds :
    /\ db.shifts[s].status = "open" /\ db.shifts[u].status = "open"
    /\ db.shifts[s].cashier = db.shifts[u].cashier
    => s = u

LEMMA TillsStayExclusive == Spec => []TillsExclusive
<1>1. Init => TillsExclusive
  BY DEF Init, TillsExclusive, None
<1>2. TypeOK /\ Locking /\ TillsExclusive /\ [Next]_vars => TillsExclusive'
  <2> SUFFICES ASSUME TypeOK, Locking, TillsExclusive, [Next]_vars
               PROVE  TillsExclusive'
    OBVIOUS
  <2>1. CASE db' = db
    BY <2>1 DEF TillsExclusive
  <2>2. CASE db' # db
    <3>1. PICK p \in Clients :
            /\ tx[p] # NoTx
            /\ \/ CommitCollect(p) \/ CommitReverse(p) \/ CommitClose(p) \/ CommitOpen(p)
               \/ CommitVoid(p) \/ CommitDiscount(p) \/ CommitFire(p)
      BY <2>2, NextKinds
    <3>2. CASE CommitOpen(p)
      <4>1. PICK s \in ShiftIds :
              /\ db'.shifts[s].cashier = tx[p].req.actor
              /\ \A x \in ShiftIds \ {s} : db'.shifts[x] = db.shifts[x]
        BY Zenon, <3>1, <3>2, OpenEffect
      <4>2. \A x \in ShiftIds : ~ (db.shifts[x].status = "open"
                                    /\ db.shifts[x].cashier = tx[p].req.actor)
        BY Zenon, <3>1, <3>2, OpenEffect DEF OpenShifts
      <4> QED
        BY <4>1, <4>2 DEF TillsExclusive
    <3>3. CASE CommitClose(p)
      <4>1. PICK s \in ShiftIds : /\ db'.shifts[s].status = "closed"
                                  /\ \A x \in ShiftIds \ {s} : db'.shifts[x] = db.shifts[x]
        BY Zenon, <3>1, <3>3, CloseEffect
      <4> QED
        BY <4>1 DEF TillsExclusive
    <3>4. CASE ~ CommitOpen(p) /\ ~ CommitClose(p)
      <4>1. db'.shifts = db.shifts
        <5>1. CASE CommitCollect(p)
          <6>1. \E i \in PaymentIds : Collected1(p, i)
            BY Zenon, <3>1, <5>1, CollectEffect
          <6> QED
            BY <6>1, Zenon DEF Collected1
        <5>2. CASE CommitReverse(p)
          <6>1. Reversed1(p)
            BY Zenon, <3>1, <5>2, ReverseEffect
          <6> QED
            BY <6>1, Zenon DEF Reversed1
        <5>3. CASE CommitVoid(p) \/ CommitFire(p) \/ CommitDiscount(p)
          BY <3>1, <5>3, VoidEffect, OtherEffects
        <5> QED
          BY <3>1, <3>4, <5>1, <5>2, <5>3
      <4> QED
        BY <4>1 DEF TillsExclusive
    <3> QED
      BY <3>2, <3>3, <3>4
  <2> QED
    BY <2>1, <2>2
<1> QED
  BY <1>1, <1>2, TypeCorrect, LockingInvariant, PTL DEF Spec
=============================================================================
