------------------------------ MODULE Bill ------------------------------
(* One order's bill while cashiers discount it and void its lines.  A      *)
(* discount is computed twice: in a reading pass before the manager's       *)
(* challenge, and again under the order's lock.                             *)
EXTENDS Pricing, Sequences, TLC

CONSTANTS Cashiers, Lines,
          Orders,        \* the orders placed: [amount, taxes, strategy]
          Requests,      \* discounts asked for: [kind, value]
          CapSets,       \* the caps an actor may have: [percent, fixed]
          MaxDiscounts

VARIABLES live,       \* lines not voided
          order,      \* what the lines cost and which taxes they carry
          caps,       \* the actor's caps
          discounts,  \* the order_discounts rows
          tx          \* cashier -> the discount it is applying

vars == <<live, order, caps, discounts, tx>>

Idle == [request |-> [kind |-> "none", value |-> 0], challenged |-> FALSE]

Discounted(ds) == SumOver([n \in DOMAIN ds |-> ds[n].applied])
(* loadOrderFinancialSnapshot: the live lines and the rows of the order. *)
Snapshot(ls, ds) == [amount |-> [l \in ls |-> order.amount[l]], taxes |-> [l \in ls |-> order.taxes[l]],
                     strategy |-> order.strategy, discounted |-> Discounted(ds)]
Current == Snapshot(live, discounts)

Init ==
  /\ order \in Orders /\ caps \in CapSets
  /\ live = Lines /\ discounts = <<>> /\ tx = [c \in Cashiers |-> Idle]

(* The pre-pass: the kind must be granted and the stage computable; when an  *)
(* override is required the manager is challenged, and succeeds.             *)
Precheck(c, r) ==
  LET basis == RemainingSubtotal(Current) IN
  /\ tx[c] = Idle /\ Len(discounts) < MaxDiscounts
  /\ (IF r.kind = "percentage" THEN caps.percent ELSE caps.fixed) # Null
  /\ StageValid(basis, r)
  /\ tx' = [tx EXCEPT ![c] = [request |-> r, challenged |-> overrideRequired(basis, r, caps)]]
  /\ UNCHANGED <<live, order, caps, discounts>>

Insert(c, basis, required) ==
  discounts' = Append(discounts, [applied |-> Applied(basis, tx[c].request), approved |-> required])

(* Slip: the decision of the pre-pass is kept. *)
WriteAsPrechecked(c) ==
  LET basis == RemainingSubtotal(Current) IN
  /\ tx[c] # Idle
  /\ tx' = [tx EXCEPT ![c] = Idle]
  /\ IF StageValid(basis, tx[c].request) /\ Len(discounts) < MaxDiscounts
       THEN Insert(c, basis, tx[c].challenged) ELSE UNCHANGED discounts
  /\ UNCHANGED <<live, order, caps>>

(* The write transaction: lock, recompute, refuse what now needs a           *)
(* challenge that was never made, record the row.                            *)
Write(c) ==
  LET basis == RemainingSubtotal(Current)
      r == tx[c].request
      required == overrideRequired(basis, r, caps) IN
  /\ tx[c] # Idle
  /\ tx' = [tx EXCEPT ![c] = Idle]
  /\ IF StageValid(basis, r) /\ (required => tx[c].challenged) /\ Len(discounts) < MaxDiscounts
       THEN Insert(c, basis, required) ELSE UNCHANGED discounts
  /\ UNCHANGED <<live, order, caps>>

VoidLine(l) ==
  /\ live' = live \ {l}
  /\ UNCHANGED <<order, caps, discounts, tx>>

Next ==
  \/ \E c \in Cashiers : (\E r \in Requests : Precheck(c, r)) \/ Write(c)
  \/ \E l \in live : VoidLine(l)

----------------------------------------------------------------------------
(* A discount recorded without a manager's approval leaves part of the        *)
(* subtotal it was taken from and stays inside both caps of the actor (the    *)
(* percentage up to the rounding of the amount, half a minor unit, or of the   *)
(* percentage compared, half of its last digit, of the subtotal), for the      *)
(* subtotal as it is when the row is written: discounts and voids of other     *)
(* cashiers between the pre-pass and the write do not widen a cap.             *)
UnapprovedWithinCaps ==
  [][Len(discounts') > Len(discounts) /\ ~discounts'[Len(discounts')].approved =>
       LET basis == RemainingSubtotal(Current)
           applied == discounts'[Len(discounts')].applied
       IN /\ applied < basis
          /\ caps.fixed # Null => applied <= caps.fixed
          /\ caps.percent # Null =>
               2 * applied * DbpsPerPercent <= 2 * basis * caps.percent + Max({DbpsPerPercent, basis})]_vars

(* However many discounts are stacked, and by whomever, an order none of      *)
(* whose lines was voided costs something until a manager approved.            *)
FreeNeedsApproval ==
  live = Lines /\ (\A n \in DOMAIN discounts : ~discounts[n].approved) /\ Subtotal(Current) > 0
    => RemainingSubtotal(Current) > 0

(* The bill adds up, whatever lines are left under the discounts.  The       *)
(* shares of the discount add up to it and no line's share exceeds the line,    *)
(* so that no tax base is negative (assertTaxAmount).  Under invoice_total the  *)
(* tax collected for one rate at the lowest priority is the exact tax of the    *)
(* discounted bases rounded once, half up, and every line's tax is less than    *)
(* one unit away from its exact tax (allocateInvoiceTax).  Under the order's    *)
(* own strategy, what each priority adds is the exact exclusive tax of the      *)
(* bases so far, rounded once per rate or once per line and rate, and the       *)
(* total is the discounted lines with all of it (computeOrderTotals).           *)
BillAddsUp ==
  /\ SumOver(DiscountShares(Current)) = DiscountTotal(Current)
  /\ LET shares == DiscountShares(Current) IN \A l \in live : shares[l] \in 0 .. order.amount[l]
  /\ \A t \in UNION {order.taxes[l] : l \in live} :
       LET discounted == DiscountedAmounts(Current)
           base == [l \in {m \in live : t \in order.taxes[m]} |-> discounted[l]]
           tax == TaxAt(base, order.taxes, "invoice_total", t)
           exact == SumOver(base) * t.bps
           d == Denominator(t)
       IN t.priority = 1 =>
            /\ 2 * SumOver(tax) * d - 2 * exact \in 1 - d .. d
            /\ \A l \in DOMAIN base : tax[l] * d - base[l] * t.bps \in 1 - d .. d - 1
  /\ LET charged(p) == Cascade(DiscountedAmounts(Current),
                               [l \in live |-> {t \in order.taxes[l] : t.priority <= p}], order.strategy)
         priorities == Priorities(Current.taxes)
     IN /\ \A p \in priorities :
             LET before == charged(p - 1)
                 added == {x \in live \X UNION {order.taxes[l] : l \in live} :
                             x[2] \in order.taxes[x[1]] /\ x[2].priority = p /\ ~x[2].inclusive}
                 exact == MapThenSumSet(LAMBDA x : before[x[1]] * x[2].bps, added)
                 rounded == Cardinality(IF order.strategy = "per_line" THEN added ELSE {x[2] : x \in added})
             IN 2 * (SumOver(charged(p)) - SumOver(before)) * BasisPoints - 2 * exact
                  \in rounded * (1 - BasisPoints) .. rounded * BasisPoints
        /\ computeOrderTotals(Current) = SumOver(charged(Max(priorities \cup {0})))
============================================================================
