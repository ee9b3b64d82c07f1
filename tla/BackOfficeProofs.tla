-------------------------- MODULE BackOfficeProofs ---------------------------
(***************************************************************************)
(* Proofs about the services behind the back office: the outbox of every    *)
(* branch is a gapless, ordered feed, for any number of writers and         *)
(* branches, and every caller shares one pool.                              *)
(***************************************************************************)
EXTENDS EventOutbox, SharedPool, TLAPS

-----------------------------------------------------------------------------
(* The outbox *)

(* What an open transaction has inserted: nothing, or the numbers that      *)
(* follow the committed ones, with the sequence row held by no one else.    *)
Reservation(w) ==
  LET t == tx[w]
      b == tx[w].branch
  IN /\ t.mine = {} => t.next = t.snap
     /\ t.snap <= t.next
     /\ t.mine = (t.snap + 1) .. t.next
     /\ t.mine # {} => t.snap = last[b]

OutboxInv ==
  /\ \A b \in Branches : rows[b] = 1 .. last[b]
  /\ \A w \in Writers : tx[w] # NoTx => Reservation(w)
  /\ \A v, w \in Writers : \A b \in Branches : v # w => ~(Holds(v, b) /\ Holds(w, b))

LEMMA OpenIsTransaction ==
  ASSUME TypeOK, NEW w \in Writers
  PROVE  /\ tx[w].open <=> tx[w] # NoTx
         /\ tx[w] # NoTx => tx[w] \in Transaction
<1>1. NoTx.open = FALSE /\ \A t \in Transaction : t.open = TRUE
  BY Zenon DEF NoTx, Transaction
<1>2. tx[w] \in Transaction \cup {NoTx}
  BY DEF TypeOK
<1> QED
  BY <1>1, <1>2

(* sequence numbers stay positive and every row keeps its shape *)
THEOREM OutboxTyped == Spec => []TypeOK
<1>1. Init => TypeOK
  BY DEF Init, TypeOK
<1>2. TypeOK /\ [Next]_vars => TypeOK'
  <2> SUFFICES ASSUME TypeOK, [Next]_vars PROVE TypeOK'
    OBVIOUS
  <2>1. ASSUME NEW w \in Writers, NEW b \in Branches, Begin(w, b) PROVE TypeOK'
    BY Zenon, <2>1 DEF TypeOK, Begin, Transaction
  <2>2. ASSUME NEW w \in Writers, AppendEvent(w) PROVE TypeOK'
    <3>1. tx[w] \in Transaction
      BY <2>2, OpenIsTransaction DEF AppendEvent
    <3> DEFINE k == tx[w].next + 1
               m == tx[w].mine \cup {k}
               u == [tx[w] EXCEPT !.next = k, !.mine = m]
    <3>2. u \in Transaction
      <4>0. tx[w].next \in Nat /\ tx[w].mine \in SUBSET (Nat \ {0})
        BY Zenon, <3>1 DEF Transaction
      <4>1. k \in Nat /\ m \in SUBSET (Nat \ {0})
        BY <4>0
      <4> HIDE DEF k, m
      <4> QED
        BY Zenon, <3>1, <4>1 DEF Transaction
    <3>3. /\ tx' = [tx EXCEPT ![w].next = tx[w].next + 1,
                              ![w].mine = tx[w].mine \cup {tx[w].next + 1}]
          /\ last' = last /\ rows' = rows
      BY <2>2, Zenon DEF AppendEvent
    <3>4. tx' = [tx EXCEPT ![w] = u]
      BY Zenon, <3>1, <3>3 DEF TypeOK, Transaction
    <3> HIDE DEF u
    <3> QED
      BY Zenon, <3>2, <3>3, <3>4 DEF TypeOK
  <2>3. ASSUME NEW w \in Writers, Commit(w) PROVE TypeOK'
    <3>1. tx[w].branch \in Branches /\ tx[w].next \in Nat /\ tx[w].mine \subseteq Nat \ {0}
      BY Zenon, <2>3, OpenIsTransaction DEF Commit, Transaction
    <3> QED
      BY <2>3, <3>1 DEF TypeOK, Commit
  <2>4. ASSUME NEW w \in Writers, Rollback(w) PROVE TypeOK'
    BY <2>4 DEF TypeOK, Rollback
  <2>5. CASE UNCHANGED vars
    BY <2>5 DEF TypeOK, vars
  <2> QED
    BY <2>1, <2>2, <2>3, <2>4, <2>5 DEF Next
<1> QED
  BY <1>1, <1>2, PTL DEF Spec

LEMMA BeginKeepsOutbox ==
  ASSUME TypeOK, OutboxInv, NEW w \in Writers, NEW b \in Branches, Begin(w, b)
  PROVE  OutboxInv'
<1>1. /\ tx' = [tx EXCEPT ![w] = [open |-> TRUE, branch |-> b, snap |-> last[b],
                                  next |-> last[b], mine |-> {}]]
      /\ last' = last /\ rows' = rows /\ last[b] \in Nat
  BY DEF Begin, TypeOK
<1>2. \A v \in Writers \ {w} : tx'[v] = tx[v]
  BY <1>1 DEF TypeOK
<1>3. tx'[w].mine = {} /\ tx'[w].next = last[b] /\ tx'[w].snap = last[b]
  BY <1>1 DEF TypeOK
<1>4. Reservation(w)'
  <2>1. (last[b] + 1) .. last[b] = {} /\ last[b] <= last[b]
    BY <1>1
  <2> QED
    BY <1>3, <2>1 DEF Reservation
<1>5. \A v \in Writers \ {w} : tx[v] # NoTx => Reservation(v)'
  BY <1>1, <1>2 DEF OutboxInv, Reservation
<1>6. \A x \in Branches : ~Holds(w, x)' /\ \A v \in Writers \ {w} : Holds(v, x)' <=> Holds(v, x)
  BY <1>2, <1>3 DEF Holds
<1> QED
  BY <1>1, <1>2, <1>4, <1>5, <1>6 DEF OutboxInv

LEMMA AppendKeepsOutbox ==
  ASSUME TypeOK, OutboxInv, NEW w \in Writers, AppendEvent(w)
  PROVE  OutboxInv'
<1> DEFINE t == tx[w]
           u == [t EXCEPT !.next = t.next + 1, !.mine = t.mine \cup {t.next + 1}]
<1>1. t # NoTx /\ t \in Transaction /\ Reservation(w)
  BY OpenIsTransaction DEF AppendEvent, OutboxInv
<1>2. /\ tx' = [tx EXCEPT ![w] = u] /\ last' = last /\ rows' = rows
      /\ \A v \in Writers \ {w} : ~Holds(v, t.branch)
      /\ t.mine # {} \/ last[t.branch] = t.snap
  <2>1. tx' = [tx EXCEPT ![w].next = t.next + 1, ![w].mine = t.mine \cup {t.next + 1}]
    BY DEF AppendEvent
  <2>2. tx' = [tx EXCEPT ![w] = u]
    BY Zenon, <2>1, <1>1 DEF TypeOK, Transaction
  <2> QED
    BY Zenon, <2>2 DEF AppendEvent
<1>3. /\ u.next = t.next + 1 /\ u.mine = t.mine \cup {t.next + 1} /\ u.snap = t.snap
      /\ u.branch = t.branch /\ u.open = TRUE /\ t.snap \in Nat /\ t.next \in Nat
      /\ t.branch \in Branches
  BY Zenon, <1>1 DEF Transaction
<1> HIDE DEF u
<1>4. tx'[w] = u /\ \A v \in Writers \ {w} : tx'[v] = tx[v]
  BY <1>2 DEF TypeOK
<1>5. Reservation(w)'
  <2>1. t.snap <= t.next /\ t.mine = (t.snap + 1) .. t.next /\ (t.mine # {} => t.snap = last[t.branch])
    BY <1>1 DEF Reservation
  <2>2. u.mine = (t.snap + 1) .. (t.next + 1)
    BY <1>3, <2>1
  <2>3. t.snap = last[t.branch]
    BY <1>2, <2>1
  <2>4. u.mine # {}
    BY <1>3
  <2> QED
    BY <1>2, <1>3, <1>4, <2>1, <2>2, <2>3, <2>4 DEF Reservation
<1>6. \A v \in Writers \ {w} : tx[v] # NoTx => Reservation(v)'
  BY <1>2, <1>4 DEF OutboxInv, Reservation
<1>7. \A v \in Writers \ {w}, b \in Branches : Holds(v, b)' <=> Holds(v, b)
  BY <1>4 DEF Holds
<1>8. \A b \in Branches : Holds(w, b)' => b = t.branch
  BY <1>3, <1>4 DEF Holds
<1> QED
  BY <1>1, <1>2, <1>4, <1>5, <1>6, <1>7, <1>8 DEF OutboxInv

LEMMA CommitKeepsOutbox ==
  ASSUME TypeOK, OutboxInv, NEW w \in Writers, Commit(w)
  PROVE  OutboxInv'
<1> DEFINE t == tx[w]
           b == t.branch
<1>1. t # NoTx /\ t \in Transaction /\ Reservation(w)
  BY OpenIsTransaction DEF Commit, OutboxInv
<1>2. /\ b \in Branches /\ t.snap \in Nat /\ t.next \in Nat /\ last[b] \in Nat
      /\ t.open = TRUE
  BY Zenon, <1>1 DEF Transaction, TypeOK
<1>3. /\ rows'[b] = rows[b] \cup t.mine
      /\ last'[b] = IF t.mine = {} THEN last[b] ELSE t.next
      /\ \A x \in Branches \ {b} : rows'[x] = rows[x] /\ last'[x] = last[x]
      /\ tx'[w] = NoTx /\ \A v \in Writers \ {w} : tx'[v] = tx[v]
  BY <1>2 DEF Commit, TypeOK
<1>4. /\ t.snap <= t.next /\ t.mine = (t.snap + 1) .. t.next
      /\ t.mine # {} => t.snap = last[b]
      /\ rows[b] = 1 .. last[b]
  BY <1>1, <1>2 DEF Reservation, OutboxInv
<1>5. rows'[b] = 1 .. last'[b]
  BY <1>2, <1>3, <1>4
<1>6. NoTx.open = FALSE
  BY DEF NoTx
<1>7. \A v \in Writers \ {w} : tx[v] # NoTx => Reservation(v)'
  <2> SUFFICES ASSUME NEW v \in Writers \ {w}, tx[v] # NoTx PROVE Reservation(v)'
    OBVIOUS
  <2>1. Reservation(v) /\ tx[v] \in Transaction /\ tx[v].open
    BY OpenIsTransaction DEF OutboxInv
  <2>2. CASE tx[v].branch # b \/ t.mine = {}
    <3>1. tx[v].branch \in Branches
      BY Zenon, <2>1 DEF Transaction
    <3>2. last'[tx[v].branch] = last[tx[v].branch]
      BY <1>3, <2>2, <3>1
    <3> QED
      BY Zenon, <1>3, <2>1, <3>2 DEF Reservation
  <2>3. CASE tx[v].branch = b /\ t.mine # {}
    <3>1. Holds(w, b)
      BY <1>2, <2>3 DEF Holds
    <3>2. ~Holds(v, b)
      BY <1>2, <3>1 DEF OutboxInv
    <3>3. tx[v].mine = {}
      BY <2>1, <2>3, <3>2 DEF Holds
    <3> QED
      BY Zenon, <1>3, <2>1, <3>3 DEF Reservation
  <2> QED
    BY <2>2, <2>3
<1>8. \A x \in Branches : ~Holds(w, x)' /\ \A v \in Writers \ {w} : Holds(v, x)' <=> Holds(v, x)
  BY <1>3, <1>6 DEF Holds
<1> QED
  BY <1>3, <1>4, <1>5, <1>7, <1>8 DEF OutboxInv

LEMMA RollbackKeepsOutbox ==
  ASSUME TypeOK, OutboxInv, NEW w \in Writers, Rollback(w)
  PROVE  OutboxInv'
<1>1. /\ tx'[w] = NoTx /\ \A v \in Writers \ {w} : tx'[v] = tx[v]
      /\ last' = last /\ rows' = rows
  BY DEF Rollback, TypeOK
<1>2. NoTx.open = FALSE
  BY DEF NoTx
<1>3. \A x \in Branches : ~Holds(w, x)' /\ \A v \in Writers \ {w} : Holds(v, x)' <=> Holds(v, x)
  BY <1>1, <1>2 DEF Holds
<1>4. \A v \in Writers \ {w} : tx[v] # NoTx => Reservation(v)'
  BY <1>1 DEF OutboxInv, Reservation
<1> QED
  BY <1>1, <1>3, <1>4 DEF OutboxInv

(* The committed numbers of a branch are 1 .. last_sequence, and those of   *)
(* an open transaction follow them.                                         *)
LEMMA OutboxInvariant == Spec => []OutboxInv
<1>1. Init => OutboxInv
  BY DEF Init, OutboxInv, Holds, NoTx
<1>2. TypeOK /\ OutboxInv /\ [Next]_vars => OutboxInv'
  <2> SUFFICES ASSUME TypeOK, OutboxInv, [Next]_vars PROVE OutboxInv'
    OBVIOUS
  <2>1. CASE UNCHANGED vars
    BY <2>1 DEF vars, OutboxInv, Reservation, Holds
  <2> QED
    BY <2>1, BeginKeepsOutbox, AppendKeepsOutbox, CommitKeepsOutbox, RollbackKeepsOutbox
       DEF Next
<1> QED
  BY <1>1, <1>2, OutboxTyped, PTL DEF Spec

(* append_order_event never hands out a number twice, neither to two open   *)
(* transactions nor one that is in the outbox.                              *)
THEOREM NumbersAreUnique == Spec => []NumbersReservedOnce
<1>1. TypeOK /\ OutboxInv => NumbersReservedOnce
  <2> SUFFICES ASSUME TypeOK, OutboxInv, NEW v \in Writers, NEW w \in Writers, tx[v].open
               PROVE  /\ tx[v].mine \cap rows[tx[v].branch] = {}
                      /\ v # w /\ tx[w].open /\ tx[v].branch = tx[w].branch
                           => tx[v].mine \cap tx[w].mine = {}
    BY DEF NumbersReservedOnce
  <2>1. tx[v] \in Transaction /\ Reservation(v) /\ tx[v].branch \in Branches
    BY Zenon, OpenIsTransaction DEF OutboxInv, Transaction
  <2>2. rows[tx[v].branch] = 1 .. last[tx[v].branch] /\ last[tx[v].branch] \in Nat
    BY <2>1 DEF OutboxInv, TypeOK
  <2>3. tx[v].mine \cap rows[tx[v].branch] = {}
    BY <2>1, <2>2 DEF Reservation, Transaction
  <2>4. ASSUME v # w, tx[w].open, tx[v].branch = tx[w].branch
        PROVE  tx[v].mine \cap tx[w].mine = {}
    BY <2>1, <2>4 DEF OutboxInv, Holds
  <2> QED
    BY <2>3, <2>4
<1> QED
  BY <1>1, OutboxTyped, OutboxInvariant, PTL

(* The outbox of each branch implements the feed: it grows only at its end  *)
(* and stays gapless, so a display that has seen n has seen all before n.   *)
THEOREM OutboxImplementsFeed == Spec => PublishesInOrder
<1>1. Init => \A b \in Branches : Feed(b)!Init
  BY DEF Init, Feed!Init
<1>2. TypeOK /\ OutboxInv /\ OutboxInv' /\ TypeOK' /\ [Next]_vars
        => [\A b \in Branches : [Feed(b)!Next]_(rows[b])]_vars
  <2> SUFFICES ASSUME TypeOK, OutboxInv, OutboxInv', TypeOK', [Next]_vars,
                      NEW b \in Branches, rows'[b] # rows[b]
               PROVE  Feed(b)!Next
    OBVIOUS
  <2>1. PICK w \in Writers : Commit(w)
    BY Zenon DEF Next, Begin, AppendEvent, Rollback, vars
  <2>2. tx[w].branch \in Branches
    BY <2>1, OpenIsTransaction DEF Commit, Transaction
  <2>3. rows[b] \subseteq rows'[b]
    BY <2>1, <2>2 DEF Commit, TypeOK
  <2>4. rows'[b] = 1 .. last'[b] /\ last'[b] \in Nat
    BY DEF OutboxInv, TypeOK
  <2>5. last'[b] \in rows'[b] \cup {0}
    BY <2>4
  <2>6. Feed(b)!Gapless(rows'[b])
    BY <2>4, <2>5 DEF Feed!Gapless
  <2> QED
    BY <2>3, <2>6 DEF Feed!Next, Feed!Publish
<1> QED
  BY <1>1, <1>2, OutboxTyped, OutboxInvariant, PTL DEF Spec, PublishesInOrder

-----------------------------------------------------------------------------
(* The shared pool: however calls of ensureSharedPool, closePool and the     *)
(* microtasks interleave, the memo and the pool agree.                      *)

States == {"pending", "rejected", "open", "ended"}

PoolTyped ==
  /\ creation \in Seq(States)
  /\ memo \in 0 .. Len(creation)
  /\ shared \in 0 .. Len(creation)
  /\ overtaken \subseteq 1 .. Len(creation)

(* Microtasks run in the order of scheduling. *)
InOrder == \A i, j \in 1 .. Len(creation) :
             i < j /\ creation[i] = "pending" => creation[j] = "pending"

(* The memo is the newest creation; a pending one that is not the memo was   *)
(* overtaken by closePool.                                                   *)
MemoIsNewest ==
  /\ memo # 0 => memo = Len(creation)
  /\ \A i \in 1 .. Len(creation) : creation[i] = "pending" => i = memo \/ i \in overtaken

(* The shared pool is open, and it is the memo's unless closePool overtook it. *)
SharedIsMemo ==
  shared # 0 => /\ creation[shared] = "open"
                /\ shared = memo \/ shared \in overtaken

PoolInv == PoolTyped /\ InOrder /\ MemoIsNewest /\ SharedIsMemo /\ OpenPoolIsShared /\ MemoisedPoolIsOpen

LEMMA PoolStarts == PoolInit => PoolInv
BY DEF PoolInit, PoolInv, PoolTyped, States, InOrder, MemoIsNewest, SharedIsMemo, OpenPoolIsShared, MemoisedPoolIsOpen

LEMMA PoolStep == PoolInv /\ [PoolNext]_poolVars => PoolInv'
<1> SUFFICES ASSUME PoolInv, [PoolNext]_poolVars PROVE PoolInv'
  OBVIOUS
<1> USE DEF PoolInv, PoolTyped, States
<1>1. CASE ensureSharedPool
  <2>1. /\ Len(creation') = Len(creation) + 1
        /\ creation'[Len(creation) + 1] = "pending"
        /\ \A i \in 1 .. Len(creation) : creation'[i] = creation[i]
        /\ DOMAIN creation' = 1 .. Len(creation) + 1
        /\ creation' \in Seq(States)
    BY <1>1 DEF ensureSharedPool
  <2>2. memo' = Len(creation) + 1 /\ shared' = shared /\ overtaken' = overtaken /\ memo = 0
    BY <1>1, <2>1 DEF ensureSharedPool
  <2>3. PoolTyped'
    BY <2>1, <2>2
  <2>4. InOrder'
    BY <2>1, <2>2 DEF InOrder
  <2>5. MemoIsNewest'
    BY <2>1, <2>2 DEF MemoIsNewest
  <2>6. SharedIsMemo'
    BY <2>1, <2>2 DEF SharedIsMemo
  <2>7. OpenPoolIsShared' /\ MemoisedPoolIsOpen'
    BY <2>1, <2>2 DEF OpenPoolIsShared, MemoisedPoolIsOpen
  <2> QED
    BY <2>3, <2>4, <2>5, <2>6, <2>7
<1>2. CASE closePool
  <2>1. /\ Len(creation') = Len(creation)
        /\ creation' \in Seq(States)
        /\ DOMAIN creation' = 1 .. Len(creation)
        /\ \A i \in 1 .. Len(creation) : i # shared => creation'[i] = creation[i]
        /\ shared # 0 => creation'[shared] = "ended"
    BY <1>2 DEF closePool
  <2> DEFINE met == {i \in {memo} \cap DOMAIN creation : creation[i] = "pending"}
  <2>a. memo' = 0 /\ shared' = 0 /\ overtaken' = overtaken \cup met
    BY <1>2 DEF closePool
  <2>b. met \subseteq 1 .. Len(creation)
    OBVIOUS
  <2>2. memo' = 0 /\ shared' = 0 /\ overtaken \subseteq overtaken' /\ overtaken' \subseteq 1 .. Len(creation)
    <3> HIDE DEF met
    <3> QED BY <2>a, <2>b
  <2>3. \A i \in 1 .. Len(creation) : creation[i] = "pending" => i \in overtaken'
    BY <1>2 DEF closePool, MemoIsNewest
  <2>4. InOrder'
    BY <2>1 DEF InOrder, SharedIsMemo
  <2>5. MemoIsNewest'
    BY Zenon, <2>1, <2>2, <2>3 DEF MemoIsNewest
  <2>6. OpenPoolIsShared'
    BY <2>1, <2>2 DEF OpenPoolIsShared
  <2> QED
    BY <2>1, <2>2, <2>4, <2>5, <2>6 DEF SharedIsMemo, MemoisedPoolIsOpen
<1>3. ASSUME NEW i \in DOMAIN creation, NEW ok \in BOOLEAN, createSharedPool(i, ok)
      PROVE  PoolInv'
  <2>1. /\ Len(creation') = Len(creation)
        /\ creation' \in Seq(States)
        /\ DOMAIN creation' = 1 .. Len(creation)
        /\ \A j \in 1 .. Len(creation) : j # i => creation'[j] = creation[j]
        /\ creation[i] = "pending"
        /\ creation'[i] = IF ok THEN "open" ELSE "rejected"
        /\ i \in 1 .. Len(creation)
    BY <1>3 DEF createSharedPool
  <2>2. memo' = memo /\ overtaken' = overtaken /\ shared' = IF ok THEN i ELSE shared
    BY <1>3 DEF createSharedPool
  <2>3. \A j \in 1 .. Len(creation) : j < i => creation[j] # "pending"
    BY <1>3, <2>1 DEF createSharedPool
  (* An open pool that loses its place was overtaken: the memo is the newest *)
  (* creation, and had it run then nothing would be pending.                 *)
  <2>4. shared # 0 => shared \in overtaken
    <3>1. SUFFICES ASSUME shared # 0, shared = memo PROVE FALSE
      BY DEF SharedIsMemo
    <3>2. shared = Len(creation) /\ creation[shared] = "open" /\ shared \in 1 .. Len(creation)
      BY <3>1 DEF SharedIsMemo, MemoIsNewest
    <3>3. i < shared
      BY <2>1, <3>2
    <3> QED
      BY <2>1, <3>2, <3>3 DEF InOrder
  <2>5. InOrder'
    BY <2>1, <2>3 DEF InOrder
  <2>6. MemoIsNewest'
    BY Zenon, <2>1, <2>2 DEF MemoIsNewest
  <2>7. SharedIsMemo'
    <3>1. CASE ok
      BY Zenon, <3>1, <2>1, <2>2 DEF SharedIsMemo, MemoIsNewest
    <3>2. CASE ~ok
      <4>1. shared' = shared /\ (shared # 0 => shared # i /\ shared \in 1 .. Len(creation))
        BY <3>2, <2>1, <2>2 DEF SharedIsMemo
      <4> QED
        BY <4>1, <2>1, <2>2 DEF SharedIsMemo
    <3> QED
      BY <3>1, <3>2
  <2>8. OpenPoolIsShared'
    BY <2>1, <2>2, <2>4 DEF OpenPoolIsShared
  <2>9. MemoisedPoolIsOpen'
    BY <2>1, <2>2 DEF MemoisedPoolIsOpen
  <2> QED
    BY <2>1, <2>2, <2>5, <2>6, <2>7, <2>8, <2>9
<1>4. CASE UNCHANGED poolVars
  BY <1>4 DEF poolVars, InOrder, MemoIsNewest, SharedIsMemo, OpenPoolIsShared, MemoisedPoolIsOpen
<1> QED
  BY <1>1, <1>2, <1>3, <1>4 DEF PoolNext

(* pool.ts: at any moment every open pool is the one closePool would end,   *)
(* except those whose creation closePool overtook, and the memoised promise *)
(* never leads to a pool that was ended, however many creations there are.  *)
THEOREM PoolsAreShared == PoolSpec => [](OpenPoolIsShared /\ MemoisedPoolIsOpen)
<1>1. PoolInv => OpenPoolIsShared /\ MemoisedPoolIsOpen
  BY DEF PoolInv
<1> QED
  BY PoolStarts, PoolStep, <1>1, PTL DEF PoolSpec
=============================================================================
