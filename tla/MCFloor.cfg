SPECIFICATION MCSpec
CONSTANTS
  Workers = {w1, w2}
  Branches <- TwoBranches
  MaxEvents = 1
  Types <- TwoTypes
  Batch = 2
  MaxFaults = 2
  SlowWorkers = FALSE
SYMMETRY Interchangeable
INVARIANT LogIsTruthful
INVARIANT NoDanglingStatus
INVARIANT LedgerIsAChain
INVARIANT ActiveCategoriesOnMenu
 
CHECK_DEADLOCK FALSE
