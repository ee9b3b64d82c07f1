-------------------------- MODULE MCOrderPayments --------------------------
(* Small instances of OrderPayments for TLC.  A run asks several questions;    *)
(* a behaviour is about one of them, its scenario, which says which requests    *)
(* clients issue.                                                                *)
EXTENDS OrderPayments, SequencesExt, TLC

CONSTANTS o1, o2, l1, l2, l3, b1,
          Asked   \* the scenarios of the run

VARIABLE scenario
MCvars == <<vars, scenario>>

(* Lines l1 and l2 are worth 1, l3 is worth 2. *)
Prices       == [l \in Lines |-> IF l = l3 THEN 2 ELSE 1]
TwoLines     == [o \in {o1} |-> {l1, l2}]
TwoOrders    == [o \in {o1, o2} |-> IF o = o1 THEN {l1} ELSE {l3}]
OneBranch    == [o \in Orders |-> b1]

OwnReversals == [c \in Cashiers |-> {c}]
AnyReversals == [c \in Cashiers |-> Cashiers]

OneToTwo     == 1 .. 2
OnlyOne      == {1}
OnlyTwo      == {2}

Scenarios ==
  [till       |-> [ops |-> {"collect", "open", "close", "reverse"}, tenders |-> 1 .. 2,
                   keyed |-> FALSE, cashiers |-> 2, payments |-> 2],
   order_life |-> [ops |-> {"collect", "open", "reverse", "void", "fire"}, tenders |-> {1},
                   keyed |-> FALSE, cashiers |-> 1, payments |-> 2],
   keys       |-> [ops |-> {"collect", "open"}, tenders |-> {1},
                   keyed |-> TRUE, cashiers |-> 2, payments |-> 2],
   discounts  |-> [ops |-> {"collect", "open", "discount"}, tenders |-> {1},
                   keyed |-> FALSE, cashiers |-> 1, payments |-> 1]]

Issued ==
  [n \in Asked |->
     {q \in Requests :
        /\ q.op \in Scenarios[n].ops
        /\ q.op = "collect" => /\ q.tender \in Scenarios[n].tenders
                               /\ Scenarios[n].keyed \/ q.key = NoKey}]

(* Where the scenario has one cashier, whoever acts first is that cashier. *)
Acts(q) ==
  Scenarios[scenario].cashiers = 1 /\ "actor" \in DOMAIN q =>
    /\ \A s \in ShiftIds : db.shifts[s] # None => db.shifts[s].cashier = q.actor
    /\ \A p \in Clients :
         tx[p] # NoTx /\ "actor" \in DOMAIN tx[p].req => tx[p].req.actor = q.actor

(* Ids of shifts and discounts are taken in a fixed order. *)
InOrder(table, ids) ==
  LET order == SetToSeq(ids) IN
  \A n \in DOMAIN order : n > 1 /\ table[order[n]] # None => table[order[n - 1]] # None

MCInit == Init /\ scenario \in Asked

MCNext ==
  /\ \E p \in Clients :
       \/ \E q \in Issued[scenario] : Acts(q) /\ Begin(p, q)
       \/ Step(p) \/ Rollback(p)
  /\ InOrder(db'.shifts, ShiftIds) /\ InOrder(db'.discounts, DiscountIds)
  /\ Cardinality({i \in PaymentIds : db'.payments[i] # None}) <= Scenarios[scenario].payments
  /\ UNCHANGED scenario

MCSpec == MCInit /\ [][MCNext]_MCvars

(* Clients, ids of payments and cashiers are interchangeable. *)
Interchangeable == Permutations(Clients) \cup Permutations(PaymentIds) \cup Permutations(Cashiers)

(* In the two-line instance so are the lines, which cost the same. *)
LinesToo == Interchangeable \cup Permutations(Lines)
=============================================================================
