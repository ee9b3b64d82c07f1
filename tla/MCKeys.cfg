SPECIFICATION MCSpec
CONSTANTS
  o1 = o1
  o2 = o2
  l1 = l1
  l2 = l2
  l3 = l3
  b1 = b1
  NoKey = NoKey
  NoCoupon = NoCoupon
  Branches = {b1}
  BranchOf <- OneBranch
  Price <- Prices
  Clients = {p1, p2}
  Orders = {o1, o2}
  Lines = {l1, l3}
  ItemsOf <- TwoOrders
  Cashiers = {c1, c2}
  ShiftIds = {s1, s2}
  PaymentIds = {i1, i2}
  DiscountIds = {d1, d2}
  Keys = {k1}
  Coupons = {q1}
  MaxUses = 1
  Cap = 1
  MaxMoney = 9
  Stacking = TRUE
  Methods = {"card"}
  Amounts <- OnlyOne
  Reversers <- OwnReversals
  Ops = {"collect", "open", "discount"}
  Asked = {"keys", "discounts"}
SYMMETRY Interchangeable
INVARIANT AnswersAgree
INVARIANT CouponUsesAreDiscounts
