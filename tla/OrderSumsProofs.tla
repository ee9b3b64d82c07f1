-------------------------- MODULE OrderSumsProofs --------------------------
(***************************************************************************)
(* What is counted and added up in OrderPayments, for every instance: the   *)
(* open shifts of a cashier, the uses of a coupon, and what an order has    *)
(* been paid.                                                               *)
(***************************************************************************)
EXTENDS OrderPaymentsProofs, FiniteSetTheorems

-----------------------------------------------------------------------------
(* Sums *)

(* SumPairs adds up a set in the order CHOOSE picks its members.  That the  *)
(* order does not matter is an induction over finite sets, done here by     *)
(* minimal counterexample: proper inclusion of finite sets is well founded. *)
Pick(s) == CHOOSE x \in s : TRUE

(* g is the function by which the fold over T is defined. *)
Solves(g, T) ==
  g = [s \in SUBSET T |-> IF s = {} THEN 0 ELSE Pick(s)[2] + g[s \ {Pick(s)}]]

Fold(T) == CHOOSE g : Solves(g, T)

LEMMA SumIsFold == ASSUME NEW S PROVE SumPairs(S) = Fold(S)[S]
BY DEF SumPairs, MapThenFoldSet, Fold, Solves, Pick

(* A non-empty family of finite sets has a minimal member. *)
Minimal(m, B) == m \in B /\ \A s \in B : s \subseteq m => s = m

LEMMA MinimalSet ==
  ASSUME NEW T, NEW B \in SUBSET SUBSET T, B # {}, \A s \in B : IsFiniteSet(s)
  PROVE  \E m : Minimal(m, B)
<1>1. B \subseteq FiniteSubsetsOf(T)
  BY DEF FiniteSubsetsOf
<1>2. IsWellFoundedOn(StrictSubsetOrdering(T), FiniteSubsetsOf(T))
  BY FS_StrictSubsetOrderingWellFounded
<1>3. PICK m \in B : \A s \in B : <<s, m>> \notin StrictSubsetOrdering(T)
  BY <1>1, <1>2, WFMin, Zenon
<1> QED
  BY Zenon, <1>3 DEF StrictSubsetOrdering, Minimal

LEMMA PickIn == ASSUME NEW s, s # {} PROVE Pick(s) \in s
BY DEF Pick

LEMMA SolvesAt ==
  ASSUME NEW g, NEW T, Solves(g, T), NEW s \in SUBSET T
  PROVE  g[s] = IF s = {} THEN 0 ELSE Pick(s)[2] + g[s \ {Pick(s)}]
BY Zenon DEF Solves

(* Two such functions agree on the finite sets both are defined for. *)
LEMMA FoldsAgree ==
  ASSUME NEW g, NEW T, Solves(g, T), NEW h, NEW U, Solves(h, U),
         NEW S \in SUBSET T, S \subseteq U, IsFiniteSet(S)
  PROVE  g[S] = h[S]
<1> DEFINE B == {s \in SUBSET S : g[s] # h[s]}
<1>1. SUFFICES ASSUME B # {} PROVE FALSE
  OBVIOUS
<1>2. B \in SUBSET SUBSET S /\ \A s \in B : IsFiniteSet(s)
  BY FS_Subset
<1>3. PICK m : Minimal(m, B)
  <2> HIDE DEF B
  <2> QED
    BY <1>1, <1>2, MinimalSet, Zenon
<1>4. /\ m \in SUBSET S /\ m \in SUBSET T /\ m \in SUBSET U /\ g[m] # h[m]
      /\ \A s \in SUBSET m : s # m => g[s] = h[s]
  BY <1>3 DEF Minimal
<1> HIDE DEF B
<1>5. m # {}
  BY Zenon, <1>4, SolvesAt
<1>6. g[m \ {Pick(m)}] = h[m \ {Pick(m)}]
  BY <1>4, <1>5, PickIn
<1> QED
  BY <1>4, <1>5, <1>6, SolvesAt

(* A finite set has such a function. *)
LEMMA FoldExists ==
  ASSUME NEW T, IsFiniteSet(T)
  PROVE  Solves(Fold(T), T)
<1> DEFINE B == {s \in SUBSET T : ~ Solves(Fold(s), s)}
<1>1. SUFFICES ASSUME B # {} PROVE FALSE
  OBVIOUS
<1>2. B \in SUBSET SUBSET T /\ \A s \in SUBSET T : IsFiniteSet(s)
  BY FS_Subset
<1>3. PICK m : Minimal(m, B)
  <2> HIDE DEF B
  <2>1. \A s \in B : IsFiniteSet(s)
    BY <1>2
  <2> QED
    BY <1>1, <1>2, <2>1, MinimalSet, Zenon
<1>4. /\ m \in SUBSET T /\ ~ Solves(Fold(m), m)
      /\ \A s \in SUBSET m : s # m => Solves(Fold(s), s)
  BY <1>3 DEF Minimal
<1> HIDE DEF B
<1> DEFINE rest(s) == s \ {Pick(s)}
           g == [s \in SUBSET m |-> IF s = {} THEN 0 ELSE Pick(s)[2] + Fold(rest(s))[rest(s)]]
<1>5. ASSUME NEW s \in SUBSET m, s # {}
      PROVE  /\ rest(s) \in SUBSET m /\ rest(s) # m
             /\ IsFiniteSet(rest(s)) /\ rest(s) \subseteq s
  BY <1>2, <1>4, <1>5, PickIn
<1>6. ASSUME NEW v \in SUBSET m, v # m PROVE g[v] = Fold(v)[v]
  <2>1. Solves(Fold(v), v)
    BY <1>4, <1>6
  <2>2. CASE v = {}
    BY <2>1, <2>2, SolvesAt
  <2>3. CASE v # {}
    <3>1. /\ rest(v) \in SUBSET m /\ rest(v) # m /\ IsFiniteSet(rest(v)) /\ rest(v) \subseteq v
      BY <1>5, <2>3
    <3>2. Solves(Fold(rest(v)), rest(v))
      BY <1>4, <3>1
    <3>3. Fold(v)[rest(v)] = Fold(rest(v))[rest(v)]
      <4> HIDE DEF rest
      <4> QED
        BY <2>1, <3>1, <3>2, FoldsAgree
    <3>4. Fold(v)[v] = Pick(v)[2] + Fold(v)[rest(v)]
      BY <2>1, <2>3, SolvesAt
    <3> QED
      BY <2>3, <3>3, <3>4
  <2> QED
    BY <2>2, <2>3
<1>7. \A s \in SUBSET m : s # {} => g[rest(s)] = Fold(rest(s))[rest(s)]
  BY Zenon, <1>5, <1>6
<1>8. Solves(g, m)
  BY Zenon, <1>7 DEF Solves
<1> HIDE DEF g
<1> QED
  BY <1>4, <1>8 DEF Fold

(* The sum of no amounts is zero. *)
LEMMA SumNone == SumPairs({}) = 0
<1>1. Solves(Fold({}), {})
  BY FoldExists, FS_EmptySet
<1> QED
  BY <1>1, SolvesAt, SumIsFold

(* One member, the one CHOOSE picks, can be added last. *)
LEMMA SumPick ==
  ASSUME NEW T, IsFiniteSet(T), T # {}
  PROVE  SumPairs(T) = Pick(T)[2] + SumPairs(T \ {Pick(T)})
<1> DEFINE R == T \ {Pick(T)}
<1>1. IsFiniteSet(R) /\ R \in SUBSET T /\ R \subseteq R
  BY FS_Subset
<1>2. Solves(Fold(T), T) /\ Solves(Fold(R), R)
  BY <1>1, FoldExists
<1>3. Fold(T)[R] = Fold(R)[R]
  <2> HIDE DEF R
  <2> QED
    BY <1>1, <1>2, FoldsAgree
<1>4. Fold(T)[T] = Pick(T)[2] + Fold(T)[R]
  BY <1>2, SolvesAt
<1> QED
  BY <1>3, <1>4, SumIsFold

(* The sum of finitely many amounts is an amount. *)
LEMMA SumTyped ==
  ASSUME NEW T, IsFiniteSet(T), \A e \in T : e[2] \in Nat
  PROVE  SumPairs(T) \in Nat
<1> DEFINE B == {s \in SUBSET T : SumPairs(s) \notin Nat}
<1>1. SUFFICES ASSUME B # {} PROVE FALSE
  OBVIOUS
<1>2. B \in SUBSET SUBSET T /\ \A s \in SUBSET T : IsFiniteSet(s)
  BY FS_Subset
<1>3. PICK m : Minimal(m, B)
  <2> HIDE DEF B
  <2>1. \A s \in B : IsFiniteSet(s)
    BY <1>2
  <2> QED
    BY <1>1, <1>2, <2>1, MinimalSet, Zenon
<1>4. /\ m \in SUBSET T /\ SumPairs(m) \notin Nat
      /\ \A s \in SUBSET m : s # m => SumPairs(s) \in Nat
  BY <1>3 DEF Minimal
<1> HIDE DEF B
<1>5. m # {}
  <2>1. SumPairs({}) \in Nat
    BY SumNone
  <2> QED
    BY <1>4, <2>1, Zenon
<1>6. SumPairs(m \ {Pick(m)}) \in Nat /\ Pick(m)[2] \in Nat
  BY <1>4, <1>5, PickIn
<1>7. SumPairs(m) = Pick(m)[2] + SumPairs(m \ {Pick(m)})
  BY <1>2, <1>4, <1>5, SumPick
<1> QED
  BY <1>4, <1>6, <1>7

(* So can any other. *)
LEMMA SumRemove ==
  ASSUME NEW T, IsFiniteSet(T), \A e \in T : e[2] \in Nat, NEW x \in T
  PROVE  SumPairs(T) = x[2] + SumPairs(T \ {x})
<1> DEFINE B == {s \in SUBSET T : \E y \in s : SumPairs(s) # y[2] + SumPairs(s \ {y})}
<1>1. SUFFICES ASSUME B # {} PROVE FALSE
  BY Zenon
<1>2. B \in SUBSET SUBSET T /\ \A s \in SUBSET T : IsFiniteSet(s) /\ SumPairs(s) \in Nat
  BY FS_Subset, SumTyped
<1>3. PICK m : Minimal(m, B)
  <2> HIDE DEF B
  <2>1. \A s \in B : IsFiniteSet(s)
    BY <1>2
  <2> QED
    BY <1>1, <1>2, <2>1, MinimalSet, Zenon
<1>4. /\ m \in SUBSET T /\ \E y \in m : SumPairs(m) # y[2] + SumPairs(m \ {y})
      /\ \A s \in SUBSET m : s # m => \A z \in s : SumPairs(s) = z[2] + SumPairs(s \ {z})
  BY Zenon, <1>3 DEF Minimal
<1> HIDE DEF B
<1>5. PICK y \in m : SumPairs(m) # y[2] + SumPairs(m \ {y})
  BY Zenon, <1>4
<1> DEFINE c == Pick(m)
<1>6. c \in m /\ SumPairs(m) = c[2] + SumPairs(m \ {c})
  BY <1>2, <1>4, PickIn, SumPick
<1>7. y # c
  BY <1>5, <1>6
<1> HIDE DEF c
<1>8. SumPairs(m \ {c}) = y[2] + SumPairs((m \ {c}) \ {y})
  BY <1>4, <1>6, <1>7
<1>9. SumPairs(m \ {y}) = c[2] + SumPairs((m \ {y}) \ {c})
  BY <1>4, <1>6, <1>7
<1>10. (m \ {y}) \ {c} = (m \ {c}) \ {y}
  OBVIOUS
<1>11. SumPairs((m \ {c}) \ {y}) \in Nat /\ c[2] \in Nat /\ y[2] \in Nat
  BY <1>2, <1>4, <1>6
<1>12. ASSUME NEW n \in Nat, NEW a \in Nat, NEW b \in Nat
       PROVE  a + (b + n) = b + (a + n)
  OBVIOUS
<1>13. SumPairs(m) = c[2] + (y[2] + SumPairs((m \ {c}) \ {y}))
  BY <1>6, <1>8, Zenon
<1>14. SumPairs(m) = y[2] + (c[2] + SumPairs((m \ {c}) \ {y}))
  BY <1>11, <1>12, <1>13, Zenon
<1>15. SumPairs(m) = y[2] + SumPairs(m \ {y})
  BY <1>9, <1>10, <1>14, Zenon
<1> QED
  BY <1>5, <1>15

(* The amounts F gives the members of S, as the model's sums take them. *)
Pairs(S, F) == {<<x, F[x]>> : x \in S}

Summable(S, F) == IsFiniteSet(S) /\ \A x \in S : F[x] \in Nat

(* Amounts F[x], one for each member x of a finite set: the pairs are       *)
(* finitely many, and a new member adds its amount to the sum.              *)
LEMMA PairsFinite ==
  ASSUME NEW S, IsFiniteSet(S), NEW F
  PROVE  IsFiniteSet({<<x, F[x]>> : x \in S})
<1> DEFINE T == {<<x, F[x]>> : x \in S}
           f == [x \in S |-> <<x, F[x]>>]
<1>1. f \in Surjection(S, T)
  BY DEF Surjection
<1> QED
  BY <1>1, FS_Surjection

LEMMA AmountsTyped ==
  ASSUME NEW S, IsFiniteSet(S), NEW F, \A x \in S : F[x] \in Nat
  PROVE  SumPairs({<<x, F[x]>> : x \in S}) \in Nat
<1> DEFINE T == {<<x, F[x]>> : x \in S}
<1>1. IsFiniteSet(T)
  BY PairsFinite
<1>2. \A e \in T : e[2] \in Nat
  OBVIOUS
<1> HIDE DEF T
<1>3. SumPairs(T) \in Nat
  BY <1>1, <1>2, SumTyped
<1> QED
  BY <1>3 DEF T
LEMMA AmountsAdd ==
  ASSUME NEW S, NEW y, y \notin S, NEW F, Summable(S \cup {y}, F)
  PROVE  SumPairs(Pairs(S \cup {y}, F)) = F[y] + SumPairs(Pairs(S, F))
<1> DEFINE T == Pairs(S, F)
           U == Pairs(S \cup {y}, F)
           e == <<y, F[y]>>
<1>1. IsFiniteSet(U)
  BY PairsFinite DEF Summable, Pairs
<1>2. \A a \in U : a[2] \in Nat
  BY DEF Summable, Pairs
<1>3. e \in U /\ U \ {e} = T /\ e[2] = F[y]
  BY DEF Pairs
<1> HIDE DEF T, U, e
<1>4. SumPairs(U) = e[2] + SumPairs(U \ {e})
  BY <1>1, <1>2, <1>3, SumRemove
<1>5. SumPairs(U) = F[y] + SumPairs(T)
  BY <1>3, <1>4, Zenon
<1> QED
  BY <1>5 DEF T, U

-----------------------------------------------------------------------------
(* Open tills *)

(* A cashier holds at most one open shift, whoever opens and closes at once. *)
THEOREM OneTillEach == Spec => []OneOpenShiftPerCashier
<1>1. TillsExclusive => OneOpenShiftPerCashier
  <2> SUFFICES ASSUME TillsExclusive, NEW c \in Cashiers
               PROVE  Cardinality(OpenShifts(db, c)) <= 1
    BY DEF OneOpenShiftPerCashier
  <2>1. CASE OpenShifts(db, c) = {}
    BY <2>1, FS_EmptySet
  <2>2. CASE OpenShifts(db, c) # {}
    <3>1. PICK s \in OpenShifts(db, c) : TRUE
      BY <2>2
    <3>2. OpenShifts(db, c) = {s}
      BY <3>1 DEF OpenShifts, TillsExclusive
    <3>3. Cardinality({s}) = 1
      BY Zenon, FS_Singleton
    <3> QED
      BY <3>2, <3>3
  <2> QED
    BY <2>1, <2>2
<1> QED
  BY <1>1, TillsStayExclusive, PTL

-----------------------------------------------------------------------------
(* Coupons *)

Granted(d, c) ==
  {i \in DiscountIds : d.discounts[i] # None /\ d.discounts[i].coupon = c}

(* Finitely many discounts were granted with a coupon, as many as its use   *)
(* count says and no more than its maximum.                                 *)
CouponLedger ==
  \A c \in Coupons : /\ IsFiniteSet(Granted(db, c))
                     /\ db.uses[c] = Cardinality(Granted(db, c))
                     /\ db.uses[c] <= MaxUses

LEMMA CouponLedgerKept == Spec => []CouponLedger
<1>1. Init => CouponLedger
  <2> SUFFICES ASSUME Init, NEW c \in Coupons
               PROVE  /\ IsFiniteSet(Granted(db, c))
                      /\ db.uses[c] = Cardinality(Granted(db, c)) /\ db.uses[c] <= MaxUses
    BY DEF CouponLedger
  <2>1. Granted(db, c) = {} /\ db.uses[c] = 0
    BY DEF Init, Granted
  <2>2. MaxUses \in Nat
    BY InstanceAssumption
  <2> QED
    BY <2>1, <2>2, FS_EmptySet
<1>2. TypeOK /\ Locking /\ CouponLedger /\ [Next]_vars => CouponLedger'
  <2> SUFFICES ASSUME TypeOK, Locking, CouponLedger, [Next]_vars, NEW c \in Coupons
               PROVE  /\ IsFiniteSet(Granted(db', c))
                      /\ db'.uses[c] = Cardinality(Granted(db', c)) /\ db'.uses[c] <= MaxUses
    BY Zenon DEF CouponLedger, Granted
  <2>0. /\ IsFiniteSet(Granted(db, c)) /\ db.uses[c] = Cardinality(Granted(db, c))
        /\ db.uses[c] <= MaxUses
    BY DEF CouponLedger
  <2>1. CASE db'.discounts = db.discounts /\ db'.uses = db.uses
    BY <2>0, <2>1 DEF Granted
  <2>2. ASSUME NEW p \in Clients, tx[p] # NoTx, CommitDiscount(p)
        PROVE  /\ IsFiniteSet(Granted(db', c))
               /\ db'.uses[c] = Cardinality(Granted(db', c)) /\ db'.uses[c] <= MaxUses
    <3>1. /\ tx[p].req \in Discounts
          /\ tx[p].req.coupon # NoCoupon => db.uses[tx[p].req.coupon] < MaxUses
      BY <2>2, DiscountEffect
    <3>2. PICK i \in DiscountIds : Discounted1(p, i)
      BY <2>2, DiscountEffect
    <3>3. /\ db.discounts[i] = None /\ db'.discounts[i] \in DiscountRow
          /\ db'.discounts[i].coupon = tx[p].req.coupon
          /\ \A x \in DiscountIds \ {i} : db'.discounts[x] = db.discounts[x]
          /\ db'.uses = [k \in Coupons |-> db.uses[k] + IF k = tx[p].req.coupon THEN 1 ELSE 0]
      BY Zenon, <3>2 DEF Discounted1
    <3>4. i \notin Granted(db, c) /\ db'.discounts[i] # None
      BY Zenon, <3>3, NoneIsNoRow DEF Granted
    <3>5. CASE tx[p].req.coupon = c
      <4>1. Granted(db', c) = Granted(db, c) \cup {i}
        BY <3>3, <3>4, <3>5 DEF Granted
      <4>2. /\ IsFiniteSet(Granted(db, c) \cup {i})
            /\ Cardinality(Granted(db, c) \cup {i}) = Cardinality(Granted(db, c)) + 1
        BY <2>0, <3>4, FS_AddElement
      <4>3. db'.uses[c] = db.uses[c] + 1 /\ db.uses[c] < MaxUses
        BY <3>1, <3>3, <3>5, InstanceAssumption
      <4>4. db.uses[c] \in Nat /\ MaxUses \in Nat
        BY <2>0, FS_CardinalityType, InstanceAssumption
      <4>5. db'.uses[c] <= MaxUses
        BY <4>3, <4>4
      <4> QED
        BY <2>0, <4>1, <4>2, <4>3, <4>5
    <3>6. CASE tx[p].req.coupon # c
      <4>1. Granted(db', c) = Granted(db, c)
        BY <3>3, <3>4, <3>6 DEF Granted
      <4>2. db.uses[c] \in Nat
        BY <2>0, FS_CardinalityType
      <4>3. db'.uses[c] = db.uses[c]
        BY <3>3, <3>6, <4>2
      <4> QED
        BY <2>0, <4>1, <4>3
    <3> QED
      BY <3>5, <3>6
  <2>3. CASE ~ (db'.discounts = db.discounts /\ db'.uses = db.uses)
    <3>1. PICK p \in Clients :
            /\ tx[p] # NoTx
            /\ \/ CommitCollect(p) \/ CommitReverse(p) \/ CommitClose(p) \/ CommitOpen(p)
               \/ CommitVoid(p) \/ CommitDiscount(p) \/ CommitFire(p)
      BY <2>3, NextKinds
    <3>2. ~ (CommitClose(p) \/ CommitOpen(p) \/ CommitVoid(p) \/ CommitFire(p))
      BY Zenon, <2>3, <3>1, CloseEffect, OpenEffect, VoidEffect, FireEffect
    <3>3. ~ CommitCollect(p)
      <4>1. CommitCollect(p) => \E i \in PaymentIds : Collected1(p, i)
        BY Zenon, <3>1, CollectEffect
      <4> QED
        BY Zenon, <2>3, <4>1 DEF Collected1
    <3>4. ~ CommitReverse(p)
      <4>1. CommitReverse(p) => Reversed1(p)
        BY <3>1, ReverseEffect
      <4> QED
        BY Zenon, <2>3, <4>1 DEF Reversed1
    <3> QED
      BY <2>2, <3>1, <3>2, <3>3, <3>4
  <2> QED
    BY <2>1, <2>3
<1> QED
  BY <1>1, <1>2, TypeCorrect, LockingInvariant, PTL DEF Spec

(* The use count of a coupon is the number of discounts granted with it and *)
(* within its maximum, whichever orders redeem it at once: the count a      *)
(* discount checked is the committed one, because it holds the coupon row.  *)
THEOREM CouponsCounted == Spec => []CouponUsesAreDiscounts
<1>1. CouponLedger => CouponUsesAreDiscounts
  BY DEF CouponLedger, CouponUsesAreDiscounts, Granted
<1> QED
  BY <1>1, CouponLedgerKept, PTL

-----------------------------------------------------------------------------
(* Paid orders *)

Completed(d, o) == {j \in PaymentsOf(d, o) : d.payments[j].status = "completed"}

(* The totals of an order are amounts. *)
LEMMA TotalsTyped ==
  ASSUME NEW d \in Database, NEW o \in Orders
  PROVE  /\ Subtotal(d, o) \in Nat /\ DiscountTotal(d, o) \in Nat /\ Collected(d, o) \in Nat
         /\ SumPairs({<<i, d.discounts[i].amount>> : i \in DiscountsOf(d, o)}) \in Nat
         /\ IsFiniteSet(DiscountsOf(d, o)) /\ IsFiniteSet(Completed(d, o))
<1>1. MaxMoney \in Nat /\ Price \in [Lines -> Nat]
  BY InstanceAssumption
<1>2. Subtotal(d, o) \in Nat
  <2>1. d.orders[o].live \in SUBSET Lines
    BY DEF Database, OrderRow
  <2>2. IsFiniteSet(d.orders[o].live)
    BY <2>1, InstanceAssumption, FS_Subset
  <2>3. \A l \in d.orders[o].live : Price[l] \in Nat
    BY <1>1, <2>1
  <2> QED
    BY <2>2, <2>3, AmountsTyped DEF Subtotal
<1>3. IsFiniteSet(DiscountsOf(d, o))
  BY InstanceAssumption, FS_Subset DEF DiscountsOf
<1>4. SumPairs({<<i, d.discounts[i].amount>> : i \in DiscountsOf(d, o)}) \in Nat
  <2> DEFINE F == [i \in DiscountsOf(d, o) |-> d.discounts[i].amount]
  <2>1. \A i \in DiscountsOf(d, o) : F[i] \in Nat
    <3> SUFFICES ASSUME NEW i \in DiscountsOf(d, o) PROVE d.discounts[i].amount \in Nat
      OBVIOUS
    <3>1. d.discounts[i] \in DiscountRow
      BY DEF DiscountsOf, Database
    <3> QED
      BY <1>1, <3>1 DEF DiscountRow
  <2>2. {<<i, d.discounts[i].amount>> : i \in DiscountsOf(d, o)}
          = {<<i, F[i]>> : i \in DiscountsOf(d, o)}
    OBVIOUS
  <2> HIDE DEF F
  <2>3. SumPairs({<<i, F[i]>> : i \in DiscountsOf(d, o)}) \in Nat
    BY <1>3, <2>1, AmountsTyped
  <2> QED
    BY Zenon, <2>2, <2>3
<1>5. DiscountTotal(d, o) \in Nat
  BY <1>2, <1>4 DEF DiscountTotal, Lesser
<1>6. IsFiniteSet(Completed(d, o))
  BY InstanceAssumption, FS_Subset DEF PaymentsOf, Completed
<1>7. Collected(d, o) \in Nat
  <2> DEFINE F == [i \in Completed(d, o) |-> d.payments[i].net]
  <2>1. \A i \in Completed(d, o) : F[i] \in Nat
    <3> SUFFICES ASSUME NEW i \in Completed(d, o) PROVE d.payments[i].net \in Nat
      OBVIOUS
    <3>1. d.payments[i] \in PaymentRow
      BY DEF PaymentsOf, Completed, Database
    <3> QED
      BY <1>1, <3>1 DEF PaymentRow
  <2>2. {<<i, d.payments[i].net>> : i \in Completed(d, o)} = {<<i, F[i]>> : i \in Completed(d, o)}
    OBVIOUS
  <2> HIDE DEF F
  <2>3. SumPairs({<<i, F[i]>> : i \in Completed(d, o)}) \in Nat
    BY <1>6, <2>1, AmountsTyped
  <2> QED
    BY Zenon, <2>2, <2>3 DEF Collected, Completed
<1> QED
  BY <1>2, <1>3, <1>4, <1>5, <1>6, <1>7

(* A new completed payment adds its net to what was collected. *)
LEMMA CollectedGrows ==
  ASSUME NEW d \in Database, NEW e \in Database, NEW o \in Orders, NEW i \in PaymentIds,
         d.payments[i] = None, e.payments[i] # None,
         e.payments[i].order = o, e.payments[i].status = "completed",
         \A x \in PaymentIds \ {i} : e.payments[x] = d.payments[x]
  PROVE  Collected(e, o) = e.payments[i].net + Collected(d, o)
<1> DEFINE S == Completed(d, o)
           F == [x \in PaymentIds |-> e.payments[x].net]
<1>1. IsFiniteSet(S) /\ S \subseteq PaymentIds /\ i \notin S
  BY Zenon, TotalsTyped DEF Completed, PaymentsOf
<1>2. Completed(e, o) = S \cup {i}
  BY DEF Completed, PaymentsOf
<1>3. \A x \in S \cup {i} : F[x] \in Nat
  <2> SUFFICES ASSUME NEW x \in Completed(e, o) PROVE e.payments[x].net \in Nat
    BY <1>1, <1>2
  <2>1. e.payments[x] \in PaymentRow
    BY DEF PaymentsOf, Completed, Database
  <2> QED
    BY <2>1, InstanceAssumption DEF PaymentRow
<1>4. {<<x, e.payments[x].net>> : x \in S \cup {i}} = Pairs(S \cup {i}, F)
  <2>1. \A x \in S \cup {i} : F[x] = e.payments[x].net
    BY <1>1
  <2> HIDE DEF S, F
  <2> QED
    BY <2>1 DEF Pairs
<1>5. {<<x, d.payments[x].net>> : x \in S} = Pairs(S, F)
  <2>1. \A x \in S : F[x] = d.payments[x].net
    BY <1>1
  <2> HIDE DEF S, F
  <2> QED
    BY <2>1 DEF Pairs
<1>6. F[i] = e.payments[i].net
  OBVIOUS
<1>7. Collected(d, o) = SumPairs({<<x, d.payments[x].net>> : x \in S})
  BY Zenon DEF Collected, Completed
<1>8. Collected(e, o) = SumPairs({<<x, e.payments[x].net>> : x \in S \cup {i}})
  BY Zenon, <1>2 DEF Collected, Completed
<1> HIDE DEF S, F
<1>9. SumPairs(Pairs(S \cup {i}, F)) = F[i] + SumPairs(Pairs(S, F))
  <2>1. Summable(S \cup {i}, F)
    BY <1>1, <1>3, FS_AddElement DEF Summable
  <2> QED
    BY Zenon, <1>1, <2>1, AmountsAdd
<1> QED
  BY Zenon, <1>4, <1>5, <1>6, <1>7, <1>8, <1>9

(* A new discount never lowers the discount total. *)
LEMMA DiscountTotalGrows ==
  ASSUME NEW d \in Database, NEW e \in Database, NEW o \in Orders, NEW i \in DiscountIds,
         d.discounts[i] = None, e.discounts[i] # None, e.discounts[i].order = o,
         \A x \in DiscountIds \ {i} : e.discounts[x] = d.discounts[x],
         e.orders[o].live = d.orders[o].live
  PROVE  DiscountTotal(e, o) >= DiscountTotal(d, o)
<1> DEFINE S == DiscountsOf(d, o)
           F == [x \in DiscountIds |-> e.discounts[x].amount]
           Sum(D) == SumPairs({<<x, D.discounts[x].amount>> : x \in DiscountsOf(D, o)})
<1>1. IsFiniteSet(S) /\ S \subseteq DiscountIds /\ i \notin S
  BY Zenon, TotalsTyped DEF DiscountsOf
<1>2. DiscountsOf(e, o) = S \cup {i}
  BY DEF DiscountsOf
<1>3. \A x \in S \cup {i} : F[x] \in Nat
  <2> SUFFICES ASSUME NEW x \in DiscountsOf(e, o) PROVE e.discounts[x].amount \in Nat
    BY <1>1, <1>2
  <2>1. e.discounts[x] \in DiscountRow
    BY DEF DiscountsOf, Database
  <2> QED
    BY <2>1, InstanceAssumption DEF DiscountRow
<1>4. {<<x, e.discounts[x].amount>> : x \in S \cup {i}} = Pairs(S \cup {i}, F)
  <2>1. \A x \in S \cup {i} : F[x] = e.discounts[x].amount
    BY <1>1
  <2> HIDE DEF S, F
  <2> QED
    BY <2>1 DEF Pairs
<1>5. {<<x, d.discounts[x].amount>> : x \in S} = Pairs(S, F)
  <2>1. \A x \in S : F[x] = d.discounts[x].amount
    BY <1>1
  <2> HIDE DEF S, F
  <2> QED
    BY <2>1 DEF Pairs
<1>6. F[i] \in Nat
  BY Zenon, <1>3
<1>7. Sum(d) = SumPairs(Pairs(S, F))
  BY Zenon, <1>5
<1>8. Sum(e) = SumPairs(Pairs(S \cup {i}, F))
  BY Zenon, <1>2, <1>4
<1> HIDE DEF S, F
<1>9. SumPairs(Pairs(S \cup {i}, F)) = F[i] + SumPairs(Pairs(S, F))
  <2>1. Summable(S \cup {i}, F)
    BY <1>1, <1>3, FS_AddElement DEF Summable
  <2> QED
    BY Zenon, <1>1, <2>1, AmountsAdd
<1>10. Sum(e) = F[i] + Sum(d)
  BY Zenon, <1>7, <1>8, <1>9
<1>11. Sum(d) \in Nat /\ Subtotal(d, o) \in Nat
  BY TotalsTyped
<1>12. Subtotal(e, o) = Subtotal(d, o)
  BY DEF Subtotal
<1>13. /\ DiscountTotal(d, o) = Lesser(Sum(d), Subtotal(d, o))
       /\ DiscountTotal(e, o) = Lesser(Sum(e), Subtotal(d, o))
  BY Zenon, <1>12 DEF DiscountTotal
<1> HIDE DEF Sum
<1>14. ASSUME NEW a \in Nat, NEW b \in Nat, NEW c \in Nat
       PROVE  Lesser(c + a, b) >= Lesser(a, b)
  BY DEF Lesser
<1> QED
  BY Zenon, <1>6, <1>10, <1>11, <1>13, <1>14

(* The order as a reversal computed it is the order as it is written. *)
LEMMA ReversalAgrees ==
  ASSUME TypeOK, Locking, NEW p \in Clients, tx[p] # NoTx, CommitReverse(p)
  PROVE  Remaining(db', OrderOf(tx[p])) = Remaining(AfterReversal(tx[p]), OrderOf(tx[p]))
<1> DEFINE t == tx[p]
           o == OrderOf(tx[p])
           i == tx[p].req.payment
           after == AfterReversal(tx[p])
<1>0. SnapshotCurrent(db, t)
  BY DEF Locking
<1>1. /\ o \in Orders /\ Row("order", o) \in t.held /\ Reversed1(p)
      /\ db.payments[i].order = o /\ t.req \in Reversals
  BY ReverseEffect
<1>2. /\ db'.payments[i] # None /\ db.payments[i] # None
      /\ db'.payments[i].order = o /\ db'.payments[i].status = t.req.to
      /\ db'.payments[i].net = db.payments[i].net
      /\ \A x \in PaymentIds \ {i} : db'.payments[x] = db.payments[x]
      /\ db'.orders[o].live = db.orders[o].live /\ db'.discounts = db.discounts
  BY Zenon, <1>1 DEF Reversed1
<1>3. t.snap \in Database /\ i \in PaymentIds
  BY <1>1, OpenTransaction DEF Transaction, Reversals
<1>4. /\ t.snap.orders[o] = db.orders[o]
      /\ PaymentsOf(t.snap, o) = PaymentsOf(db, o)
      /\ \A x \in PaymentsOf(db, o) : t.snap.payments[x] = db.payments[x]
      /\ DiscountsOf(t.snap, o) = DiscountsOf(db, o)
      /\ \A x \in DiscountsOf(db, o) : t.snap.discounts[x] = db.discounts[x]
  BY Zenon, <1>0, <1>1, RemainingCurrent
<1>5. i \in PaymentsOf(db, o) /\ t.snap.payments[i] = db.payments[i]
  BY Zenon, <1>1, <1>2, <1>3, <1>4 DEF PaymentsOf
<1>6. db.payments[i] \in PaymentRow
  <2>1. db.payments \in [PaymentIds -> PaymentRow \cup {None}]
    BY DEF TypeOK, Database
  <2> HIDE DEF i
  <2> QED
    BY <1>2, <1>3, <2>1
<1>7. /\ after.payments[i] = [t.snap.payments[i] EXCEPT !.status = t.req.to]
      /\ \A x \in PaymentIds \ {i} : after.payments[x] = t.snap.payments[x]
      /\ after.orders = t.snap.orders /\ after.discounts = t.snap.discounts
  BY Zenon, <1>3 DEF AfterReversal, Database
<1>8. /\ after.payments[i].order = o /\ after.payments[i].status = t.req.to
      /\ after.payments[i].net = db.payments[i].net
  BY ZenonT(60), <1>1, <1>5, <1>6, <1>7 DEF PaymentRow
<1>9. after.payments[i] # None
  <2>1. [t.snap.payments[i] EXCEPT !.status = t.req.to] \in PaymentRow
    BY Zenon, <1>1, <1>5, <1>6 DEF PaymentRow, Reversals
  <2> QED
    BY Zenon, <1>7, <2>1, NoneIsNoRow
<1> HIDE DEF o, i, after
<1>10. PaymentsOf(db', o) = PaymentsOf(db, o)
  BY <1>2, <1>3, <1>5 DEF PaymentsOf
<1>11. PaymentsOf(after, o) = PaymentsOf(t.snap, o)
  BY Zenon, <1>3, <1>4, <1>5, <1>7, <1>8, <1>9 DEF PaymentsOf
<1>12. \A x \in PaymentsOf(after, o) : /\ db'.payments[x].net = after.payments[x].net
                                       /\ db'.payments[x].status = after.payments[x].status
  <2>1. PaymentsOf(db, o) \subseteq PaymentIds
    BY DEF PaymentsOf
  <2>2. ASSUME NEW x \in PaymentsOf(after, o)
        PROVE  /\ db'.payments[x].net = after.payments[x].net
               /\ db'.payments[x].status = after.payments[x].status
    <3>1. CASE x = i
      BY Zenon, <1>2, <1>8, <3>1
    <3>2. CASE x # i
      <4>1. x \in PaymentIds \ {i} /\ x \in PaymentsOf(db, o)
        BY <1>4, <1>11, <2>1, <2>2, <3>2
      <4>2. db'.payments[x] = after.payments[x]
        BY Zenon, <1>2, <1>4, <1>7, <4>1
      <4> QED
        BY Zenon, <4>2
    <3> QED
      BY <3>1, <3>2
  <2> QED
    BY Zenon, <2>2
<1>13. DiscountsOf(db', o) = DiscountsOf(db, o) /\ DiscountsOf(after, o) = DiscountsOf(t.snap, o)
  BY Zenon, <1>2, <1>7 DEF DiscountsOf
<1>14. \A x \in DiscountsOf(after, o) : db'.discounts[x].amount = after.discounts[x].amount
  BY <1>2, <1>4, <1>7, <1>13
<1>15. /\ db'.orders[o].live = after.orders[o].live
       /\ PaymentsOf(db', o) = PaymentsOf(after, o) /\ DiscountsOf(db', o) = DiscountsOf(after, o)
  BY Zenon, <1>2, <1>4, <1>7, <1>10, <1>11, <1>13
<1>16. Remaining(db', o) = Remaining(after, o)
  BY Zenon, <1>12, <1>14, <1>15, SameRemaining
<1> QED
  BY <1>16 DEF o, after

(* An order whose row, payments and discounts a step leaves alone owes what *)
(* it owed.                                                                 *)
LEMMA UntouchedRemaining ==
  ASSUME NEW d, NEW e, NEW o, d.orders[o].live = e.orders[o].live,
         PaymentsOf(d, o) = PaymentsOf(e, o), DiscountsOf(d, o) = DiscountsOf(e, o),
         \A i \in PaymentsOf(e, o) : d.payments[i] = e.payments[i],
         \A i \in DiscountsOf(e, o) : d.discounts[i] = e.discounts[i]
  PROVE  Remaining(d, o) = Remaining(e, o)
<1>1. \A i \in PaymentsOf(e, o) : /\ d.payments[i].net = e.payments[i].net
                                  /\ d.payments[i].status = e.payments[i].status
  OBVIOUS
<1>2. \A i \in DiscountsOf(e, o) : d.discounts[i].amount = e.discounts[i].amount
  OBVIOUS
<1> QED
  BY Zenon, <1>1, <1>2, SameRemaining

(* 'paid' is written only for a balance of nothing, and while an order is   *)
(* paid nothing that adds to the balance can commit: recordPayment and      *)
(* nextOrderPaymentStatus agree with computeOrderTotals, whatever runs      *)
(* concurrently.                                                            *)
THEOREM PaidIsCovered == Spec => []PaidMeansCovered
<1>1. Init => PaidMeansCovered
  BY DEF Init, PaidMeansCovered
<1>2. TypeOK /\ TypeOK' /\ Locking /\ PaidMeansCovered /\ [Next]_vars => PaidMeansCovered'
  <2> SUFFICES ASSUME TypeOK, TypeOK', Locking, PaidMeansCovered, [Next]_vars,
                      NEW x \in Orders, db'.orders[x].status = "paid"
               PROVE  Remaining(db', x) <= 0
    BY DEF PaidMeansCovered
  <2>0. db \in Database /\ db' \in Database
    BY DEF TypeOK
  <2>1. CASE db' = db
    BY <2>1 DEF PaidMeansCovered
  <2>2. CASE db' # db
    <3>1. PICK p \in Clients :
            /\ tx[p] # NoTx
            /\ \/ CommitCollect(p) \/ CommitReverse(p) \/ CommitClose(p) \/ CommitOpen(p)
               \/ CommitVoid(p) \/ CommitDiscount(p) \/ CommitFire(p)
      BY <2>2, NextKinds
    <3>0. SnapshotCurrent(db, tx[p])
      BY <3>1 DEF Locking
    <3>2. CASE CommitCollect(p)
      <4> DEFINE o == tx[p].req.order
      <4>1. /\ tx[p].req \in Collects /\ MayCollect(tx[p])
            /\ Row("order", o) \in tx[p].held
            /\ \E j \in PaymentIds : Collected1(p, j)
        BY Zenon, <3>1, <3>2, CollectEffect
      <4>2. PICK i \in PaymentIds : Collected1(p, i)
        BY <4>1
      <4>3. /\ db'.orders[o].status = IF Remaining(tx[p].snap, o) = Net(tx[p])
                                      THEN "paid" ELSE db.orders[o].status
            /\ db'.orders[o].live = db.orders[o].live /\ db'.discounts = db.discounts
            /\ \A y \in Orders \ {o} : db'.orders[y] = db.orders[y]
            /\ db.payments[i] = None /\ db'.payments[i].order = o
            /\ db'.payments[i].status = "completed" /\ db'.payments[i].net = Net(tx[p])
            /\ db'.payments[i] \in PaymentRow
            /\ \A y \in PaymentIds \ {i} : db'.payments[y] = db.payments[y]
        BY <4>2, Zenon DEF Collected1
      <4>4. o \in Orders /\ db'.payments[i] # None
        BY Zenon, <4>1, <4>3, NoneIsNoRow DEF Collects
      <4>5. Remaining(tx[p].snap, o) = Remaining(db, o)
        BY Zenon, <3>0, <4>1, <4>4, RemainingCurrent
      <4>6. Remaining(db, o) > 0 /\ Net(tx[p]) \in Nat
        <5>1. Remaining(tx[p].snap, o) > 0 /\ Net(tx[p]) \in 1 .. MaxMoney
          BY Zenon, <4>1 DEF MayCollect
        <5>2. MaxMoney \in Nat
          BY InstanceAssumption
        <5>3. Remaining(db, o) > 0
          BY Zenon, <4>5, <5>1
        <5>4. Net(tx[p]) \in Nat
          BY <5>1, <5>2
        <5> QED
          BY Zenon, <5>3, <5>4
      <4> HIDE DEF o
      <4>7. CASE x = o
        <5>1. db.orders[o].status # "paid"
          <6>0. Subtotal(db, o) \in Nat /\ DiscountTotal(db, o) \in Nat /\ Collected(db, o) \in Nat
            BY Zenon, <2>0, <4>4, TotalsTyped
          <6>1. Remaining(db, o) \in Int
            BY <6>0 DEF Remaining
          <6> QED
            BY <4>4, <4>6, <6>1 DEF PaidMeansCovered
        <5>2. Remaining(db, o) = Net(tx[p])
          BY <4>3, <4>5, <4>7, <5>1
        <5>3. Collected(db', o) = Net(tx[p]) + Collected(db, o)
          BY <2>0, <4>3, <4>4, CollectedGrows
        <5>4. DiscountsOf(db', o) = DiscountsOf(db, o)
          BY <4>3 DEF DiscountsOf
        <5>5. Subtotal(db', o) = Subtotal(db, o) /\ DiscountTotal(db', o) = DiscountTotal(db, o)
          <6>1. Subtotal(db', o) = Subtotal(db, o)
            BY Zenon, <4>3 DEF Subtotal
          <6>2. db'.discounts = db.discounts
            BY Zenon, <4>3
          <6> QED
            BY Zenon, <6>1, <6>2, SameDiscounts
        <5>6. Subtotal(db, o) \in Nat /\ DiscountTotal(db, o) \in Nat /\ Collected(db, o) \in Nat
          BY Zenon, <2>0, <4>4, TotalsTyped
        <5> QED
          BY <4>6, <4>7, <5>2, <5>3, <5>5, <5>6 DEF Remaining
      <4>8. CASE x # o
        <5>1. PaymentsOf(db', x) = PaymentsOf(db, x) /\ i \notin PaymentsOf(db, x)
          BY <4>3, <4>8 DEF PaymentsOf
        <5>2. \A y \in PaymentsOf(db, x) : db'.payments[y] = db.payments[y]
          BY <4>3, <5>1 DEF PaymentsOf
        <5>3. DiscountsOf(db', x) = DiscountsOf(db, x)
          BY <4>3 DEF DiscountsOf
        <5>4. Remaining(db', x) = Remaining(db, x)
          BY <4>3, <4>8, <5>1, <5>2, <5>3, UntouchedRemaining
        <5> QED
          BY <4>3, <4>8, <5>4 DEF PaidMeansCovered
      <4> QED
        BY <4>7, <4>8
    <3>3. CASE CommitReverse(p)
      <4> DEFINE o == OrderOf(tx[p])
                 i == tx[p].req.payment
                 after == AfterReversal(tx[p])
      <4>1. /\ o \in Orders /\ Reversed1(p)
            /\ db.payments[i].order = o /\ tx[p].req \in Reversals
        BY <3>1, <3>3, ReverseEffect
      <4>2. /\ db'.orders[o].status = StatusAfterReversal(after, o)
            /\ \A y \in Orders \ {o} : db'.orders[y] = db.orders[y]
            /\ db'.payments[i].order = o /\ db'.discounts = db.discounts
            /\ \A y \in PaymentIds \ {i} : db'.payments[y] = db.payments[y]
        BY <4>1, Zenon DEF Reversed1
      <4>3. Remaining(db', o) = Remaining(after, o)
        BY <3>1, <3>3, ReversalAgrees
      <4> HIDE DEF o, i, after
      <4>4. CASE x = o
        <5>1. Remaining(after, o) <= 0
          BY <4>2, <4>4 DEF StatusAfterReversal, NextStatus
        <5> QED
          BY Zenon, <4>3, <4>4, <5>1
      <4>5. CASE x # o
        <5>1. PaymentsOf(db', x) = PaymentsOf(db, x) /\ i \notin PaymentsOf(db, x)
          BY <4>1, <4>2, <4>5 DEF PaymentsOf
        <5>2. \A y \in PaymentsOf(db, x) : db'.payments[y] = db.payments[y]
          BY <4>2, <5>1 DEF PaymentsOf
        <5>3. DiscountsOf(db', x) = DiscountsOf(db, x)
          BY <4>2 DEF DiscountsOf
        <5>4. Remaining(db', x) = Remaining(db, x)
          BY <4>2, <4>5, <5>1, <5>2, <5>3, UntouchedRemaining
        <5> QED
          BY <4>2, <4>5, <5>4 DEF PaidMeansCovered
      <4> QED
        BY <4>4, <4>5
    <3>4. CASE CommitDiscount(p)
      <4>1. PICK i \in DiscountIds : Discounted1(p, i)
        BY <3>1, <3>4, DiscountEffect
      <4> DEFINE o == tx[p].req.order
      <4>2. /\ db.discounts[i] = None /\ db'.discounts[i] \in DiscountRow
            /\ db'.discounts[i].order = o
            /\ \A y \in DiscountIds \ {i} : db'.discounts[y] = db.discounts[y]
            /\ db'.orders = db.orders /\ db'.payments = db.payments
        BY <4>1, Zenon DEF Discounted1
      <4>3. db'.discounts[i] # None
        BY <4>2, NoneIsNoRow
      <4> HIDE DEF o
      <4>4. PaymentsOf(db', x) = PaymentsOf(db, x)
        BY <4>2 DEF PaymentsOf
      <4>5. Remaining(db, x) <= 0
        BY <4>2 DEF PaidMeansCovered
      <4>6. CASE x = o
        <5>1. DiscountTotal(db', x) >= DiscountTotal(db, x)
          BY <2>0, <4>2, <4>3, <4>6, DiscountTotalGrows
        <5>2. Subtotal(db', x) = Subtotal(db, x) /\ Collected(db', x) = Collected(db, x)
          BY Zenon, <4>2, <4>4 DEF Subtotal, Collected
        <5>3. /\ Subtotal(db, x) \in Nat /\ Collected(db, x) \in Nat
              /\ DiscountTotal(db, x) \in Nat /\ DiscountTotal(db', x) \in Nat
          BY Zenon, <2>0, TotalsTyped
        <5> QED
          BY <4>5, <5>1, <5>2, <5>3 DEF Remaining
      <4>7. CASE x # o
        <5>1. DiscountsOf(db', x) = DiscountsOf(db, x) /\ i \notin DiscountsOf(db, x)
          BY <4>2, <4>7 DEF DiscountsOf
        <5>2. \A y \in DiscountsOf(db, x) : db'.discounts[y] = db.discounts[y]
          BY <4>2, <5>1 DEF DiscountsOf
        <5>3. Remaining(db', x) = Remaining(db, x)
          BY <4>2, <4>4, <5>1, <5>2, UntouchedRemaining
        <5> QED
          BY <4>5, <5>3
      <4> QED
        BY <4>6, <4>7
    <3>5. CASE CommitClose(p) \/ CommitOpen(p) \/ CommitVoid(p) \/ CommitFire(p)
      <4>1. /\ db'.orders[x].live = db.orders[x].live /\ db.orders[x].status = "paid"
            /\ db'.payments = db.payments /\ db'.discounts = db.discounts
        <5>1. CASE CommitClose(p)
          BY Zenon, <3>1, <5>1, CloseEffect
        <5>2. CASE CommitOpen(p)
          BY Zenon, <3>1, <5>2, OpenEffect
        <5>3. CASE CommitVoid(p)
          <6>1. PICK o \in Orders :
                  /\ db'.orders[o].status \in {"voided", "open"}
                  /\ \A y \in Orders \ {o} : db'.orders[y] = db.orders[y]
                  /\ db'.payments = db.payments /\ db'.discounts = db.discounts
            BY <3>1, <5>3, VoidEffect
          <6> QED
            BY <6>1
        <5>4. CASE CommitFire(p)
          <6>1. PICK o \in Orders :
                  /\ db'.orders[o].live = db.orders[o].live
                  /\ db'.orders[o].status = db.orders[o].status
                  /\ \A y \in Orders \ {o} : db'.orders[y] = db.orders[y]
                  /\ db'.payments = db.payments /\ db'.discounts = db.discounts
            BY <3>1, <5>4, FireEffect
          <6> QED
            BY <6>1
        <5> QED
          BY <3>5, <5>1, <5>2, <5>3, <5>4
      <4>2. Remaining(db', x) = Remaining(db, x)
        <5>1. PaymentsOf(db', x) = PaymentsOf(db, x) /\ DiscountsOf(db', x) = DiscountsOf(db, x)
          BY <4>1 DEF PaymentsOf, DiscountsOf
        <5> QED
          BY <4>1, <5>1, UntouchedRemaining
      <4> QED
        BY <4>1, <4>2 DEF PaidMeansCovered
    <3> QED
      BY <3>1, <3>2, <3>3, <3>4, <3>5
  <2> QED
    BY <2>1, <2>2
<1> QED
  BY <1>1, <1>2, TypeCorrect, LockingInvariant, PTL DEF Spec
=============================================================================
