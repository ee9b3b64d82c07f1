-------------------------- MODULE TaxRegistry --------------------------
(* Which taxes a line is charged, and who may change that.  Platform and   *)
(* tenant administrators keep effective-dated rates, the tenant attaches   *)
(* categories to items (excise only through a confirmed path), and an      *)
(* invoice resolves its lines one after the other inside one REPEATABLE    *)
(* READ transaction while the administrators keep working.                 *)
EXTENDS Integers, FiniteSets, Sequences, TLC

CONSTANTS Cashiers,       \* transactions that price invoices
          Items,          \* menu items
          VatCategories, ExciseCategories,
          Days,           \* branch-local calendar days, 1 .. n
          Bps,            \* rates, in basis points
          OnFile,         \* the rates the platform seeded
          Menu,           \* item -> the ordinary category it was created with
          Rules,          \* the liability rules on file
          Invoices,       \* the invoices asked for: sequences of items
          Platform,       \* the delivery platform of a delivery order
          MaxRates, MaxChanges, MaxInvoices

VARIABLES rates,      \* the rows of tax_rates and tenant_tax_rates
          inactive,   \* deactivated categories
          primary,    \* item -> menu_items.tax_rule_id
          additional, \* item -> its additional categories
          override,   \* category -> the branch's override of it
          consents,   \* menu_item_excise_confirmations
          registered, \* the tenant's VAT registration
          edit,       \* the catalog's update of an item in progress
          inv,        \* cashier -> its invoice transaction
          priced,     \* the committed order_line_tax_snapshots
          changes     \* administrative changes so far

registry == <<rates, inactive, primary, additional, override, consents, registered>>
vars == <<registry, edit, inv, priced, changes>>

Categories == VatCategories \cup ExciseCategories
Family(c) == IF c \in ExciseCategories THEN "excise" ELSE "vat"
NoCategory == "none"
Forever == Cardinality(Days) + 1        \* effective_to IS NULL
Idle == [lines |-> <<>>]
NoEdit == [item |-> "none"]

Registry == [rates |-> rates, inactive |-> inactive, primary |-> primary, additional |-> additional,
             override |-> override, consents |-> consents, registered |-> registered]

----------------------------------------------------------------------------
(* Rates. *)

Covers(r, d) == r.from <= d /\ d <= r.to
(* tax_rates_no_overlap *)
NoOverlap(rs) == \A r, s \in rs : r # s /\ r.owner = s.owner /\ r.category = s.category
                                    => ~\E d \in 1 .. Forever : Covers(r, d) /\ Covers(s, d)
NewId == Cardinality(rates) + 1

Change == changes < MaxChanges /\ changes' = changes + 1

createTaxRate(owner, c, from, to, bps) ==
  /\ Change /\ Cardinality(rates) < MaxRates /\ from <= to
  /\ rates' = rates \cup {[id |-> NewId, owner |-> owner, category |-> c, from |-> from, to |-> to,
                           bps |-> bps, superseded |-> FALSE]}
  /\ NoOverlap(rates')
  /\ UNCHANGED <<inactive, primary, additional, override, consents, registered, edit, inv, priced>>

(* Slip: the successor starts the day after the one asked for. *)
closeAndSupersedeLate(r, from, bps) ==
  /\ Change /\ Cardinality(rates) < MaxRates
  /\ ~r.superseded /\ from > r.from /\ from < r.to
  /\ rates' = (rates \ {r}) \cup {[r EXCEPT !.to = from - 1, !.superseded = TRUE],
                                  [r EXCEPT !.id = NewId, !.from = from + 1, !.bps = bps]}
  /\ NoOverlap(rates')
  /\ UNCHANGED <<inactive, primary, additional, override, consents, registered, edit, inv, priced>>

(* close_and_supersede_tax_rate: under the row's lock, the period is split. *)
closeAndSupersedeTaxRate(r, from, bps) ==
  /\ Change /\ Cardinality(rates) < MaxRates
  /\ ~r.superseded /\ from > r.from /\ from <= r.to
  /\ rates' = (rates \ {r}) \cup {[r EXCEPT !.to = from - 1, !.superseded = TRUE],
                                  [r EXCEPT !.id = NewId, !.from = from, !.bps = bps]}
  /\ NoOverlap(rates')
  /\ UNCHANGED <<inactive, primary, additional, override, consents, registered, edit, inv, priced>>

(* getApplicableRate: the tenant's own rate first, then the platform's. *)
RatesOn(reg, owner, c, d) == {r \in reg.rates : r.owner = owner /\ r.category = c /\ Covers(r, d)}
getApplicableRate(reg, c, d) ==
  IF RatesOn(reg, "tenant", c, d) # {} THEN RatesOn(reg, "tenant", c, d) ELSE RatesOn(reg, "platform", c, d)

setCategoryActive(c) ==
  /\ Change
  /\ inactive' = IF c \in inactive THEN inactive \ {c} ELSE inactive \cup {c}
  /\ UNCHANGED <<rates, primary, additional, override, consents, registered, edit, inv, priced>>

setVatRegistration ==
  /\ Change /\ registered' = ~registered
  /\ UNCHANGED <<rates, inactive, primary, additional, override, consents, edit, inv, priced>>

----------------------------------------------------------------------------
(* Assignments. *)

(* assertOrdinaryTaxCategory *)
Ordinary(c) == c \notin inactive /\ Family(c) # "excise"

assignAdditionalCategory(i, c) ==
  /\ Change /\ Ordinary(c) /\ primary[i] # c
  /\ additional' = [additional EXCEPT ![i] = @ \cup {c}]
  /\ UNCHANGED <<rates, inactive, primary, override, consents, registered, edit, inv, priced>>

removeAdditionalCategory(i, c) ==
  /\ Change /\ c \in additional[i]
  /\ additional' = [additional EXCEPT ![i] = @ \ {c}]
  /\ UNCHANGED <<rates, inactive, primary, override, consents, registered, edit, inv, priced>>

(* confirm_menu_item_excise: the item is locked, the consent recorded, and  *)
(* the category attached in the slot asked for.                             *)
confirmExciseAssignment(i, c, slot) ==
  /\ Change /\ Family(c) = "excise" /\ c \notin inactive
  /\ consents' = consents \cup {<<i, c>>}
  /\ IF slot = "primary"
       THEN c \notin additional[i] /\ primary' = [primary EXCEPT ![i] = c] /\ UNCHANGED additional
       ELSE primary[i] # c /\ additional' = [additional EXCEPT ![i] = @ \cup {c}] /\ UNCHANGED primary
  /\ UNCHANGED <<rates, inactive, override, registered, edit, inv, priced>>

(* validateOverride *)
OverrideFits(c, target) == c # target /\ Family(c) = Family(target) /\ target \notin inactive

setBranchOverride(c, target) ==
  /\ Change /\ OverrideFits(c, target) /\ Ordinary(target)
  /\ override' = [override EXCEPT ![c] = target]
  /\ UNCHANGED <<rates, inactive, primary, additional, consents, registered, edit, inv, priced>>

removeBranchOverride(c) ==
  /\ Change /\ override[c] # NoCategory
  /\ override' = [override EXCEPT ![c] = NoCategory]
  /\ UNCHANGED <<rates, inactive, primary, additional, consents, registered, edit, inv, priced>>

(* confirm_excise_branch_override: the list confirmed must be exactly the    *)
(* items attached to the source category at that moment.                     *)
confirmExciseBranchOverride(c, target) ==
  LET affected == {i \in Items : primary[i] = c \/ c \in additional[i]} IN
  /\ Change /\ OverrideFits(c, target) /\ Family(target) = "excise" /\ affected # {}
  /\ consents' = consents \cup (affected \X {target})
  /\ override' = [override EXCEPT ![c] = target]
  /\ UNCHANGED <<rates, inactive, primary, additional, registered, edit, inv, priced>>

(* CatalogEngine.doUpdateItem: the item is read in one transaction; a new    *)
(* category must be ordinary.                                                *)
readItem(i, c) ==
  /\ edit = NoEdit /\ Change
  /\ c # primary[i] => Ordinary(c)
  /\ edit' = [item |-> i, category |-> c]
  /\ UNCHANGED <<registry, inv, priced>>

(* updateItem of the repository, the second transaction: under the row's     *)
(* lock, a category that is not the stored one any more is checked again;    *)
(* the trigger refuses one that is already additional.                       *)
updateItem ==
  /\ edit # NoEdit
  /\ primary' = [primary EXCEPT ![edit.item] =
                   IF edit.category # @ /\ (~Ordinary(edit.category) \/ edit.category \in additional[edit.item])
                     THEN @ ELSE edit.category]
  /\ edit' = NoEdit
  /\ UNCHANGED <<rates, inactive, additional, override, consents, registered, inv, priced, changes>>

----------------------------------------------------------------------------
(* Resolution of a line. *)

(* chooseLiabilityRule: rules naming the platform beat rules naming none;    *)
(* two at the same level are a configuration error.                          *)
LiabilityRules(reg, platform, d) ==
  LET matching == {r \in Rules : r.registered = reg.registered /\ Covers(r, d)
                                 /\ r.platform \in {"none", platform}}
      exact == {r \in matching : r.platform = platform}
  IN IF exact # {} THEN exact ELSE {r \in matching : r.platform = "none"}

Assigned(reg, i) == {reg.primary[i]} \cup reg.additional[i]
Resolve(reg, c) == IF reg.override[c] = NoCategory THEN c ELSE reg.override[c]

(* Slip: the consent looked for is the one to the assigned category. *)
ExciseConsentToSource(reg, i, c) == Family(c) = "excise" => <<i, c>> \in reg.consents

(* hasExciseConfirmation, asked for the category the override resolves to.   *)
ExciseConsent(reg, i, c) == Family(c) = "excise" => <<i, Resolve(reg, c)>> \in reg.consents

(* The steps of prepareLine that may refuse the line, in their order; a       *)
(* missing rate is never taken for zero.                                      *)
Resolvable(reg, i, d) ==
  /\ reg.primary[i] # NoCategory
  /\ \A c \in Assigned(reg, i) : /\ c \notin reg.inactive /\ Resolve(reg, c) \notin reg.inactive
                                 /\ ExciseConsent(reg, i, c)
  /\ Cardinality({Resolve(reg, c) : c \in Assigned(reg, i)}) = Cardinality(Assigned(reg, i))
  /\ \A c \in Assigned(reg, i) : getApplicableRate(reg, Resolve(reg, c), d) # {}

TaxesOf(reg, i, d) ==
  {CHOOSE r \in getApplicableRate(reg, Resolve(reg, c), d) : TRUE : c \in Assigned(reg, i)}

(* The server's clock fixes the day when the transaction begins. *)
beginInvoice(k, items, platform, d) ==
  /\ inv[k] = Idle /\ Len(priced) < MaxInvoices
  /\ inv' = [inv EXCEPT ![k] = [lines |-> items, platform |-> platform, day |-> d,
                                snapshot |-> Registry, taxes |-> <<>>]]
  /\ UNCHANGED <<registry, edit, priced, changes>>

(* Slip: each line reads the registry as committed when it is resolved. *)
readsLatest(t) == Registry

(* Every query of the transaction sees the snapshot taken when it began. *)
reads(t) == t.snapshot

(* prepareLine for the next line; an error rolls the invoice back, and a line *)
(* whose platform is liable carries no tax of the restaurant.                 *)
prepareLine(k) ==
  LET t == inv[k]
      reg == reads(t)
      item == t.lines[Len(t.taxes) + 1]
      liable == LiabilityRules(reg, t.platform, t.day) IN
  /\ t # Idle /\ Len(t.taxes) < Len(t.lines)
  /\ inv' = [inv EXCEPT ![k] =
       IF Cardinality(liable) # 1 \/ \E r \in liable : r.party = "marketplace" /\ t.platform = "none"
         THEN Idle
         ELSE IF \E r \in liable : r.party = "marketplace"
                THEN [t EXCEPT !.taxes = Append(@, [item |-> item, external |-> TRUE, rates |-> {}])]
                ELSE IF Resolvable(reg, item, t.day)
                       THEN [t EXCEPT !.taxes = Append(@, [item |-> item, external |-> FALSE,
                                                           rates |-> TaxesOf(reg, item, t.day)])]
                       ELSE Idle]
  /\ UNCHANGED <<registry, edit, priced, changes>>

(* persistPrepared for every line, and COMMIT. *)
commitInvoice(k) ==
  /\ inv[k] # Idle /\ Len(inv[k].taxes) = Len(inv[k].lines)
  /\ priced' = Append(priced, inv[k].taxes)
  /\ inv' = [inv EXCEPT ![k] = Idle]
  /\ UNCHANGED <<registry, edit, changes>>

----------------------------------------------------------------------------
Init ==
  /\ rates = OnFile /\ inactive = {} /\ consents = {} /\ registered = TRUE
  /\ primary = Menu /\ additional = [i \in Items |-> {}]
  /\ override = [c \in Categories |-> NoCategory]
  /\ edit = NoEdit /\ inv = [k \in Cashiers |-> Idle] /\ priced = <<>> /\ changes = 0

Administer ==
  \/ \E owner \in {"platform", "tenant"}, c \in Categories, from \in Days, to \in Days \cup {Forever}, b \in Bps :
       createTaxRate(owner, c, from, to, b)
  \/ \E r \in rates, from \in Days, b \in Bps : closeAndSupersedeTaxRate(r, from, b)
  \/ \E c \in Categories : setCategoryActive(c) \/ removeBranchOverride(c)
  \/ setVatRegistration
  \/ \E i \in Items, c \in Categories :
       \/ assignAdditionalCategory(i, c) \/ removeAdditionalCategory(i, c) \/ readItem(i, c)
       \/ \E slot \in {"primary", "additional"} : confirmExciseAssignment(i, c, slot)
  \/ \E c, target \in Categories : setBranchOverride(c, target) \/ confirmExciseBranchOverride(c, target)
  \/ updateItem

Price(k) ==
  \/ \E items \in Invoices, platform \in {"none", Platform}, d \in Days : beginInvoice(k, items, platform, d)
  \/ prepareLine(k)
  \/ commitInvoice(k)

Next == Administer \/ \E k \in Cashiers : Price(k)

----------------------------------------------------------------------------
(* No administrator can take a rate away from a day that has one: after any   *)
(* change the day has exactly one rate of that owner, which is the one it had  *)
(* at the same value or a successor created by that change.                    *)
NoDayLosesItsRate ==
  [][\A owner \in {"platform", "tenant"}, c \in Categories, d \in Days :
       \A r \in RatesOn(Registry, owner, c, d) :
         LET after == RatesOn(Registry', owner, c, d) IN
         /\ Cardinality(after) = 1
         /\ \A s \in after : (s.id = r.id /\ s.bps = r.bps) \/ s.id \notin {q.id : q \in rates}]_vars

(* Two lines of one invoice that pay the same category pay it at the same     *)
(* rate, whatever is superseded while the invoice is being resolved: the       *)
(* whole invoice reads one snapshot.                                           *)
OneRatePerInvoice ==
  \A n \in DOMAIN priced : \A a, b \in DOMAIN priced[n] :
    \A r \in priced[n][a].rates, s \in priced[n][b].rates : r.category = s.category => r = s

(* An excise tax is charged only on an item whose manufacturer or importer    *)
(* confirmed that very category, also when a branch override replaced it and   *)
(* when the item was attached after the override was confirmed.                *)
ExciseWasConfirmed ==
  \A n \in DOMAIN priced : \A a \in DOMAIN priced[n] : \A r \in priced[n][a].rates :
    r.category \in ExciseCategories => <<priced[n][a].item, r.category>> \in consents
============================================================================
