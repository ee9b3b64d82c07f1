---------------------------- MODULE MCBackOffice ----------------------------
(* Small instances of the components behind the counter: the event outbox, the *)
(* connection pool, stock, taxes, the arithmetic of a bill and currency          *)
(* conversion.  They share no state, so that a behaviour exercises one of them,  *)
(* its focus, while the others stand still.                                      *)
EXTENDS EventOutbox, SharedPool, FiniteSets, TLC

CONSTANT Sessions   \* of the payments store, for the exchange rates

VARIABLES focus,
          stock, orders, claims, attempts, events, request, requests,
          rates, inactive, primary, additional, override, consents, registered,
          edit, inv, priced, changes,
          live, order, caps, discounts, sale,
          clock, method, ledger, payments, session, report

-----------------------------------------------------------------------------
N(i, q) == [item |-> i, qty |-> q]

Store == INSTANCE Stock WITH
           tx <- request, Clients <- {1, 2}, Items <- {"a", "b"},
           Recipes <- {<<N("a", 1), N("b", 1)>>, <<N("b", 1), N("a", 2)>>, <<N("m", 1)>>},
           Initial <- 1, Threshold <- 1, Deltas <- {-1, 2}, Approvals <- {1}, Challenged <- BOOLEAN,
           Restorations <- BOOLEAN \X BOOLEAN, MaxRequests <- 2

Seeded(c, n) == [id |-> n, owner |-> "platform", category |-> c, from |-> 1, to |-> 3, bps |-> 500, superseded |-> FALSE]
Rule(p, party) == [platform |-> p, registered |-> TRUE, party |-> party, from |-> 1, to |-> 3]

Taxes == INSTANCE TaxRegistry WITH
           Cashiers <- {1}, Items <- {"i", "j"}, VatCategories <- {"vat"}, ExciseCategories <- {"e1", "e2"},
           Days <- {1, 2}, Bps <- {500}, OnFile <- {Seeded("vat", 1), Seeded("e2", 2)},
           Menu <- [i \in {"i", "j"} |-> "vat"], Rules <- {Rule("none", "restaurant"), Rule("app", "marketplace")},
           Invoices <- {<<"i", "j">>}, Platform <- "app", MaxRates <- 3, MaxChanges <- 3, MaxInvoices <- 1

T(r, p, b, i) == [rate |-> r, priority |-> p, bps |-> b, inclusive |-> i]
Vat == T("v", 2, 1500, FALSE)
Exc == T("e", 1, 5000, FALSE)
Inc == T("w", 1, 2000, TRUE)
Placed ==
  [amount : {<<3, 3, 1>>, <<0, 5, 3>>, <<1, 7, 3>>},
   taxes : {<<{Exc}, {Exc}, {Exc}>>, <<{Vat, Exc}, {Exc}, {}>>,
            <<{Vat, Exc}, {Vat, Exc}, {Vat}>>, <<{Vat, Inc}, {Inc}, {}>>},
   strategy : {"per_line", "invoice_total"}]
Discount(kind, value) == [kind |-> kind, value |-> value]
Granted == {[percent |-> 400000, fixed |-> 3], [percent |-> -1, fixed |-> 9]}

Bills == INSTANCE Bill WITH
           tx <- sale, Cashiers <- {1, 2}, Lines <- {1, 2, 3}, Orders <- Placed,
           Requests <- {Discount("percentage", 250000), Discount("fixed", 2), Discount("fixed", 4)},
           CapSets <- Granted, MaxDiscounts <- 2

Rates == INSTANCE Exchange WITH
           tx <- session, Clients <- Sessions, Times <- {1},
           Texts <- {[coefficient |-> 25, scale |-> 1], [coefficient |-> 125, scale |-> 3]},
           Sources <- {"market", "none"}, Amounts <- {60}, Digits <- [from |-> 2, to |-> 2],
           MaxClock <- 8, MaxRecorded <- 1

(* Rates recorded for reports are no part of what is asked of the tills: the *)
(* longest behaviours go without.                                             *)
Recorded == Cardinality({i \in 1 .. Len(ledger) : ledger[i].source # "till_manual"})
Short == clock <= 8 - 4 * Recorded

Symmetry == Permutations(Sessions)

-----------------------------------------------------------------------------
storeVars == <<stock, orders, claims, attempts, events, request, requests>>
taxVars == <<rates, inactive, primary, additional, override, consents, registered, edit, inv, priced, changes>>
billVars == <<live, order, caps, discounts, sale>>
rateVars == <<clock, method, ledger, payments, session, report>>
MCvars == <<focus, vars, poolVars, storeVars, taxVars, billVars, rateVars>>

MCInit ==
  /\ focus \in {"outbox", "pool", "stock", "taxes", "bill", "rates"}
  /\ Init /\ PoolInit /\ Store!Init /\ Taxes!Init /\ Bills!Init /\ Rates!Init
  /\ focus # "bill" =>
       order = [amount |-> <<3, 3, 1>>, taxes |-> <<{Exc}, {Exc}, {Exc}>>, strategy |-> "per_line"] /\ caps.fixed = 3

MCNext ==
  /\ UNCHANGED focus
  /\ IF focus = "outbox" THEN Next ELSE UNCHANGED vars
  /\ IF focus = "pool" THEN PoolNext ELSE UNCHANGED poolVars
  /\ IF focus = "stock" THEN Store!Next ELSE UNCHANGED storeVars
  /\ IF focus = "taxes" THEN Taxes!Next ELSE UNCHANGED taxVars
  /\ IF focus = "bill" THEN Bills!Next ELSE UNCHANGED billVars
  /\ IF focus = "rates" THEN Rates!Next /\ Short' ELSE UNCHANGED rateVars

MCSpec == MCInit /\ [][MCNext]_MCvars

-----------------------------------------------------------------------------
(* An order takes a component below zero only with an approval claimed for it *)
(* (order-creation-engine.ts, the stock triggers).                             *)
NegativeNeedsOverride == Store!NegativeNeedsOverride

(* One low-stock event per crossing of the threshold. *)
CrossingAnnouncedOnce == Store!CrossingAnnouncedOnce

(* No change of the rates takes a day's rate away                             *)
(* (closeAndSupersedeTaxRate).                                                  *)
NoDayLosesItsRate == Taxes!NoDayLosesItsRate

(* One invoice pays one rate per category (resolveInvoiceAndSnapshot). *)
OneRatePerInvoice == focus = "taxes" => Taxes!OneRatePerInvoice

(* Excise is charged only where that category was confirmed (prepareLine). *)
ExciseWasConfirmed == focus = "taxes" => Taxes!ExciseWasConfirmed

(* A discount without approval is inside the caps when it is written          *)
(* (applyDiscount).                                                             *)
UnapprovedWithinCaps == Bills!UnapprovedWithinCaps

(* No stack of unapproved discounts makes an order free                       *)
(* (discountOverrideRequirement).                                               *)
FreeNeedsApproval == focus = "bill" => Bills!FreeNeedsApproval

(* Discount shares and taxes of a bill add up, each rounded once               *)
(* (allocateProportionally, allocateInvoiceTax).                                *)
BillAddsUp == focus = "bill" => Bills!BillAddsUp

(* The ledger of exchange rates explains the rate of every foreign payment    *)
(* (log_payment_method_rate_change, recordPayment).                             *)
TenderExplained == Rates!TenderExplained
=============================================================================
