---------------------------- MODULE Exchange ----------------------------
(* The append-only ledger of exchange rates.  A foreign cash method carries a *)
(* manual rate that payments copy; a trigger appends every change of it to    *)
(* the ledger, stamped with the start of the changing transaction, next to    *)
(* the rates recorded for reports.  One method of one currency pair, whose    *)
(* base currency is the reporting currency.  The ledger is a sequence in the  *)
(* order of effective_at and, where that is the same, of the random id; done, *)
(* the moment of the COMMIT, is not a column.                                 *)
EXTENDS Pricing, SequencesExt

CONSTANTS Clients,   \* sessions that change the method or take a payment
          Times,     \* moments of recorded rates and of reports
          Texts,     \* rates as NUMERIC text: [coefficient, scale]
          Sources,   \* rate_source of a recorded rate, "none" the NULL
          Amounts,   \* amounts tendered and converted
          Digits,    \* minor unit digits: [from, to]
          MaxClock, MaxRecorded

VARIABLES clock, method, ledger, payments, tx,
          report     \* the answer of the conversion just made

vars == <<clock, method, ledger, payments, tx, report>>

NoRate == [coefficient |-> 0, scale |-> 0]
NoMethod == [rate |-> NoRate, active |-> FALSE, version |-> 0]
Idle == [pc |-> "idle", at |-> 0, seen |-> NoMethod]
NoReport == [found |-> FALSE, result |-> 0]

TenTo(n) == 10 ^ n

Scaled(rate) == TenTo(Digits.from) * TenTo(rate.scale)

convertMoneyAtRate(amount, rate) ==
  divideRoundHalfToEven(amount * rate.coefficient * TenTo(Digits.to), Scaled(rate))

(* Without a source the rates of all sources count, NULL included. *)
findAtOrBefore(t, source) ==
  LET rows == SelectSeq(ledger, LAMBDA r : r.at <= t /\ (source = "any" \/ r.source = source))
  IN IF rows = <<>> THEN NoRate ELSE Last(rows).rate

(* Among rows of one effective_at the random id falls anywhere. *)
Insert(at, rate, source, done) ==
  \E i \in 1 .. Len(ledger) + 1 :
    /\ \A j \in 1 .. Len(ledger) : IF j < i THEN ledger[j].at <= at ELSE at <= ledger[j].at
    /\ ledger' = InsertAt(ledger, i, [at |-> at, source |-> source, rate |-> rate, done |-> done])

append(at, rate, source) ==
  /\ Cardinality({i \in 1 .. Len(ledger) : ledger[i].source # "till_manual"}) < MaxRecorded
  /\ Insert(at, rate, source, at)
  /\ report' = NoReport
  /\ UNCHANGED <<clock, method, payments, tx>>

convertUsingRateSource(amount, t, source) ==
  /\ report' = LET rate == findAtOrBefore(t, source)
               IN IF rate = NoRate THEN NoReport ELSE [found |-> TRUE, result |-> convertMoneyAtRate(amount, rate)]
  /\ UNCHANGED <<clock, method, ledger, payments, tx>>

convert(amount, t) == convertUsingRateSource(amount, t, "any")
convertToReportingCurrency(amount, t) == convertUsingRateSource(amount, t, "market")

----------------------------------------------------------------------------
(* A transaction of the payments store: now() is the moment of its BEGIN,     *)
(* its snapshot that of its first query.                                      *)
Tick == clock < MaxClock /\ clock' = clock + 1

Begin(c) ==
  /\ Tick
  /\ tx[c].pc = "idle"
  /\ tx' = [tx EXCEPT ![c] = [Idle EXCEPT !.pc = "begun", !.at = clock]]
  /\ report' = NoReport /\ UNCHANGED <<method, ledger, payments>>

FirstQuery(c) ==
  /\ tx[c].pc = "begun"
  /\ tx' = [tx EXCEPT ![c].pc = "reading", ![c].seen = method]
  /\ report' = NoReport /\ UNCHANGED <<clock, method, ledger, payments>>

Ended(c) == tx[c].pc = "reading" /\ tx' = [tx EXCEPT ![c] = Idle]

(* Slip: a rate that the ledger already holds is not recorded again. *)
LoggedOnce(old, new, at) ==
  IF \E r \in ToSet(ledger) : r.source = "till_manual" /\ r.rate = new
    THEN ledger' = ledger ELSE Insert(at, new, "till_manual", clock)

(* The trigger on INSERT and UPDATE of a method. *)
log_payment_method_rate_change(old, new, at) ==
  IF new = old THEN ledger' = ledger ELSE Insert(at, new, "till_manual", clock)

insertPaymentMethod(c, rate, active) ==
  /\ Tick /\ Ended(c)
  /\ method = NoMethod
  /\ method' = [rate |-> rate, active |-> active, version |-> 1]
  /\ log_payment_method_rate_change(NoRate, rate, tx[c].at)
  /\ report' = NoReport /\ UNCHANGED payments

(* An input that is left out keeps the column, and the new rate may be the    *)
(* old one.  A row changed since the snapshot is a 40001, see Rollback.       *)
updatePaymentMethod(c, rate, active) ==
  /\ Tick /\ Ended(c)
  /\ method # NoMethod /\ tx[c].seen = method
  /\ method' = [rate |-> rate, active |-> active, version |-> method.version + 1]
  /\ log_payment_method_rate_change(method.rate, rate, tx[c].at)
  /\ report' = NoReport /\ UNCHANGED payments

(* The check of validate_payment: half a minor unit of the base currency. *)
WithinTolerance(amount, rate) ==
  LET off == amount * rate.coefficient * TenTo(Digits.to) - convertMoneyAtRate(amount, rate) * Scaled(rate)
  IN 2 * (IF off < 0 THEN -off ELSE off) <= Scaled(rate)

(* The foreign tender of recordPayment, with the rate of the snapshot, which  *)
(* validate_payment compares with the same snapshot.                          *)
recordPayment(c, amount) ==
  /\ Tick /\ Ended(c)
  /\ tx[c].seen.active
  /\ convertMoneyAtRate(amount, tx[c].seen.rate) > 0
  /\ WithinTolerance(amount, tx[c].seen.rate)
  /\ payments' = payments \cup {[at |-> tx[c].at, done |-> clock, rate |-> tx[c].seen.rate]}
  /\ report' = NoReport /\ UNCHANGED <<method, ledger>>

Rollback(c) ==
  /\ Ended(c)
  /\ report' = NoReport /\ UNCHANGED <<clock, method, ledger, payments>>

----------------------------------------------------------------------------
Init ==
  /\ clock = 0 /\ method = NoMethod /\ ledger = <<>> /\ payments = {}
  /\ tx = [c \in Clients |-> Idle] /\ report = NoReport

Next ==
  \/ \E at \in Times, rate \in Texts, source \in Sources : append(at, rate, source)
  \/ \E amount \in Amounts, t \in Times :
       convert(amount, t) \/ convertToReportingCurrency(amount, t)
  \/ \E c \in Clients :
       \/ Begin(c) \/ FirstQuery(c) \/ Rollback(c)
       \/ \E rate \in Texts, active \in BOOLEAN : insertPaymentMethod(c, rate, active) \/ updatePaymentMethod(c, rate, active)
       \/ \E amount \in Amounts : recordPayment(c, amount)

----------------------------------------------------------------------------
Overlap(x, y) == x.at < y.done /\ y.at < x.done

(* The ledger explains every foreign payment: the rate it copied is a change   *)
(* of the method on the ledger that began before the payment ended, and any     *)
(* other change dated between the two overlapped the payment or that change.    *)
(* Dates are those of BEGIN and rates those of a snapshot, so that the lookup   *)
(* at the payment's created_at finds its rate except in such an overlap         *)
(* (log_payment_method_rate_change, recordPayment).                             *)
TenderExplained ==
  LET till == {r \in ToSet(ledger) : r.source = "till_manual"} IN
  \A p \in payments : \E r \in till :
    /\ r.rate = p.rate
    /\ r.at < p.done
    /\ \A q \in till \ {r} : r.at <= q.at /\ q.at <= p.at => Overlap(q, p) \/ Overlap(q, r)
============================================================================
