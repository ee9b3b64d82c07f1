---------------------------- MODULE Pricing ----------------------------
(* The money arithmetic: rounding, largest-remainder allocation, cascading *)
(* taxes, discount stages and the totals of an order.  Amounts are minor    *)
(* units.                                                                   *)
EXTENDS Integers, FiniteSets, FiniteSetsExt

BasisPoints == 10000
DbpsPerPercent == 1000000       \* a percentage with four decimals, of 100
Null == -1                      \* a cap that is not granted

SumOver(f) == MapThenSumSet(LAMBDA x : f[x], DOMAIN f)

(* BigInt division truncates toward zero. *)
Truncated(n, d) == IF n < 0 THEN -((-n) \div d) ELSE n \div d

divideRoundHalfToEven(n, d) ==
  LET q == Truncated(n, d)
      twice == 2 * (IF n < 0 THEN q * d - n ELSE n - q * d)
  IN IF twice < d \/ (twice = d /\ q % 2 = 0) THEN q ELSE IF n < 0 THEN q - 1 ELSE q + 1

roundTaxHalfUp(n, d) == n \div d + (IF 2 * (n % d) >= d THEN 1 ELSE 0)

Denominator(t) == BasisPoints + (IF t.inclusive THEN t.bps ELSE 0)

calculateTaxAmount(amount, t) == roundTaxHalfUp(amount * t.bps, Denominator(t))

----------------------------------------------------------------------------

(* Every line gets the floor of its exact share; the units left over go to   *)
(* the largest remainders, ties to the smaller line id.                      *)
LargestRemainder(numerator, d, total) ==
  LET floors == [l \in DOMAIN numerator |-> numerator[l] \div d]
      remainder == [l \in DOMAIN numerator |-> numerator[l] % d]
      left == total - SumOver(floors)
      before(l) == {m \in DOMAIN numerator : \/ remainder[m] > remainder[l]
                                             \/ remainder[m] = remainder[l] /\ m < l}
  IN [l \in DOMAIN numerator |-> floors[l] + (IF Cardinality(before(l)) < left THEN 1 ELSE 0)]

allocateProportionally(total, weight) ==
  IF total = 0 \/ SumOver(weight) = 0
    THEN [l \in DOMAIN weight |-> 0]
    ELSE LargestRemainder([l \in DOMAIN weight |-> total * weight[l]], SumOver(weight), total)

(* Slip: each line's tax is rounded on its own. *)
allocateRoundedLines(base, t) == [l \in DOMAIN base |-> calculateTaxAmount(base[l], t)]

(* The group's exact tax is rounded once and then shared out. *)
allocateInvoiceTax(base, t) ==
  LET numerator == [l \in DOMAIN base |-> base[l] * t.bps]
  IN LargestRemainder(numerator, Denominator(t), roundTaxHalfUp(SumOver(numerator), Denominator(t)))

----------------------------------------------------------------------------
(* calculateCascadingTaxes: amount and taxes are functions on the lines.     *)
(* Taxes of one priority share the base; only exclusive tax of strictly      *)
(* lower priorities is added to it.                                          *)
TaxAt(base, taxes, strategy, t) ==
  LET group == {l \in DOMAIN base : t \in taxes[l]} IN
  IF strategy = "invoice_total"
    THEN allocateInvoiceTax([l \in group |-> base[l]], t)
    ELSE [l \in group |-> calculateTaxAmount(base[l], t)]

Priorities(taxes) == {t.priority : t \in UNION {taxes[l] : l \in DOMAIN taxes}}

(* The bases after the priorities up to p: the amount plus exclusive tax. *)
Cascade(amount, taxes, strategy) ==
  LET top == Max(Priorities(taxes) \cup {0})
      at(p, l) == {t \in taxes[l] : t.priority = p /\ ~t.inclusive}
      bases[p \in 0 .. top] ==
        IF p = 0 THEN amount
        ELSE [l \in DOMAIN amount |->
                bases[p - 1][l] + MapThenSumSet(LAMBDA t : TaxAt(bases[p - 1], taxes, strategy, t)[l], at(p, l))]
  IN bases[top]

----------------------------------------------------------------------------
(* computeOrderTotals.  An order has amount and taxes on its live lines, a    *)
(* rounding strategy and the amounts of its discounts.                        *)
Subtotal(o) == SumOver(o.amount)
DiscountTotal(o) == Min({o.discounted, Subtotal(o)})
RemainingSubtotal(o) == Subtotal(o) - DiscountTotal(o)
DiscountShares(o) == allocateProportionally(DiscountTotal(o), o.amount)
DiscountedAmounts(o) == LET shares == DiscountShares(o) IN [l \in DOMAIN o.amount |-> o.amount[l] - shares[l]]
Taxed(o) == {l \in DOMAIN o.amount : o.taxes[l] # {}}
TaxMinor(o) ==
  LET discounted == DiscountedAmounts(o)
      amount == [l \in Taxed(o) |-> discounted[l]]
      taxes == [l \in Taxed(o) |-> o.taxes[l]]
  IN SumOver(Cascade(amount, taxes, o.strategy)) - SumOver(amount)
computeOrderTotals(o) == RemainingSubtotal(o) + TaxMinor(o)

----------------------------------------------------------------------------
(* computeDiscountStage *)
Requested(basis, r) ==
  IF r.kind = "percentage" THEN divideRoundHalfToEven(basis * r.value, DbpsPerPercent) ELSE r.value
Applied(basis, r) == Min({Requested(basis, r), basis})
StageValid(basis, r) == Requested(basis, r) > 0

MatchingExceeded(r, caps) == r.value > (IF r.kind = "percentage" THEN caps.percent ELSE caps.fixed)
CrossExceeded(basis, r, caps) ==
  IF r.kind = "percentage"
    THEN caps.fixed # Null /\ Requested(basis, r) > caps.fixed
    ELSE caps.percent # Null /\ divideRoundHalfToEven(r.value * DbpsPerPercent, basis) > caps.percent

(* Slip: a discount inside the caps may take everything that is left. *)
overrideRequiredByCaps(basis, r, caps) ==
  basis = 0 \/ MatchingExceeded(r, caps) \/ CrossExceeded(basis, r, caps)

(* discountOverrideRequirement *)
overrideRequired(basis, r, caps) ==
  \/ Applied(basis, r) >= basis
  \/ MatchingExceeded(r, caps)
  \/ CrossExceeded(basis, r, caps)
============================================================================
