SPECIFICATION MCSpec
CONSTANTS
  o1 = o1
  o2 = o2
  l1 = l1
  l2 = l2
  l3 = l3
  b1 = b1
  NoKey = NoKey
  NoCoupon = NoCoupon
  Branches = {b1}
  BranchOf <- OneBranch
  Price <- Prices
  Clients = {p1, p2}
  Orders = {o1}
  Lines = {l1, l2}
  ItemsOf <- TwoLines
  Cashiers = {c1, c2}
  ShiftIds = {s1, s2}
  PaymentIds = {i1}
  DiscountIds = {}
  Keys = {}
  Coupons = {}
  MaxUses = 1
  Cap = 1
  MaxMoney = 9
  Stacking = TRUE
  Methods = {"cash"}
  Amounts <- OnlyTwo
  Reversers <- AnyReversals
  Ops = {"collect", "open", "close", "reverse", "void", "fire"}
  Asked = {"till"}
SYMMETRY LinesToo
INVARIANT ZReportMatchesPayments
