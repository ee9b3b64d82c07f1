SPECIFICATION MCSpec
CONSTANTS
  Writers = {w1, w2, w3}
  Branches = {b1, b2}
  MaxEvents = 3
  MaxPools = 4
  Sessions = {s1, s2}
SYMMETRY Symmetry
PROPERTY PublishesInOrder
INVARIANT OpenPoolIsShared
PROPERTY NegativeNeedsOverride
PROPERTY CrossingAnnouncedOnce
PROPERTY NoDayLosesItsRate
INVARIANT OneRatePerInvoice
INVARIANT ExciseWasConfirmed
PROPERTY UnapprovedWithinCaps
INVARIANT FreeNeedsApproval
INVARIANT TenderExplained
INVARIANT BillAddsUp
CHECK_DEADLOCK FALSE
