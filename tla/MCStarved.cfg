SPECIFICATION FairSpec
CONSTANTS
  Workers = {w1}
  Branches <- OneBranch
  MaxEvents = 2
  Types <- OneType
  Batch = 1
  MaxFaults = 0
  SlowWorkers = FALSE
PROPERTY EveryEffectDelivered
