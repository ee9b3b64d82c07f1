----------------------------- MODULE EventOutbox -----------------------------
(***************************************************************************)
(* The transactional outbox: every order mutation appends its events to     *)
(* order_events_outbox in its own REPEATABLE READ transaction, numbering    *)
(* them from the branch's row of order_event_sequences.  Taking a number    *)
(* locks that row until the transaction ends; a transaction that waited and *)
(* finds the row changed since its snapshot fails with 40001.               *)
(***************************************************************************)
EXTENDS Integers

CONSTANTS
  Writers,    \* concurrent order mutations
  Branches,
  MaxEvents   \* bound: events per branch

ASSUME OutboxAssumption == MaxEvents \in Nat

VARIABLES
  last,       \* order_event_sequences.last_sequence, 0 before the first event
  rows,       \* [Branches -> set of sequence_id], the committed outbox
  tx          \* the open transaction of each writer

vars == <<last, rows, tx>>

NoTx == [open |-> FALSE]

Transaction ==
  [open: {TRUE}, branch: Branches,
   snap: Nat,          \* last_sequence in the snapshot
   next: Nat,          \* last_sequence as this transaction has left it
   mine: SUBSET (Nat \ {0})]   \* outbox rows it has inserted

TypeOK ==
  /\ last \in [Branches -> Nat]
  /\ rows \in [Branches -> SUBSET (Nat \ {0})]
  /\ tx \in [Writers -> Transaction \cup {NoTx}]

Init ==
  /\ last = [b \in Branches |-> 0]
  /\ rows = [b \in Branches |-> {}]
  /\ tx = [w \in Writers |-> NoTx]

Begin(w, b) ==
  /\ tx[w] = NoTx
  /\ tx' = [tx EXCEPT ![w] = [open |-> TRUE, branch |-> b, snap |-> last[b],
                              next |-> last[b], mine |-> {}]]
  /\ UNCHANGED <<last, rows>>

(* Does w hold the sequence row of branch b? *)
Holds(w, b) == tx[w].open /\ tx[w].branch = b /\ tx[w].mine # {}

(* Slip: a sequence object, whose numbers a rollback does not give back. *)
AppendNonTransactional(w) ==
  LET t == tx[w] IN
  /\ t.open
  /\ last[t.branch] < MaxEvents
  /\ tx' = [tx EXCEPT ![w].next = last[t.branch] + 1,
                      ![w].mine = t.mine \cup {last[t.branch] + 1}]
  /\ last' = [last EXCEPT ![t.branch] = @ + 1]
  /\ UNCHANGED rows

(* append_order_event: next_order_event_sequence under the row lock, and    *)
(* the insert of the event.  A cascade or an order void appends several.    *)
AppendEvent(w) ==
  LET t == tx[w] IN
  /\ t.open
  /\ \A v \in Writers \ {w} : ~Holds(v, t.branch)
  /\ t.mine # {} \/ last[t.branch] = t.snap
  /\ t.next < MaxEvents
  /\ tx' = [tx EXCEPT ![w].next = t.next + 1, ![w].mine = t.mine \cup {t.next + 1}]
  /\ UNCHANGED <<last, rows>>

Commit(w) ==
  LET t == tx[w] IN
  /\ t.open
  /\ rows' = [rows EXCEPT ![t.branch] = @ \cup t.mine]
  /\ last' = [last EXCEPT ![t.branch] = IF t.mine = {} THEN @ ELSE t.next]
  /\ tx' = [tx EXCEPT ![w] = NoTx]

Rollback(w) ==
  /\ tx[w].open
  /\ tx' = [tx EXCEPT ![w] = NoTx]
  /\ UNCHANGED <<last, rows>>

Next ==
  \E w \in Writers :
    \/ \E b \in Branches : Begin(w, b)
    \/ AppendEvent(w) \/ Commit(w) \/ Rollback(w)

Spec == Init /\ [][Next]_vars

-----------------------------------------------------------------------------
(* Properties *)

(* Two open transactions never number an event alike, and no number handed  *)
(* out is one already in the outbox (the UNIQUE constraint never fires).    *)
NumbersReservedOnce ==
  \A v, w \in Writers :
    /\ tx[v].open => tx[v].mine \cap rows[tx[v].branch] = {}
    /\ v # w /\ tx[v].open /\ tx[w].open /\ tx[v].branch = tx[w].branch
         => tx[v].mine \cap tx[w].mine = {}

Feed(b) == INSTANCE OrderFeed WITH published <- rows[b], delivered <- << >>

(* The outbox of every branch is a gapless feed: whatever commits and rolls *)
(* back, its rows are 1..N, and a row never appears below one already there *)
(* ("replays everything after my last sequence_id with NO lost events").    *)
PublishesInOrder ==
  /\ \A b \in Branches : Feed(b)!Init
  /\ [][\A b \in Branches : [Feed(b)!Next]_(rows[b])]_vars
=============================================================================
