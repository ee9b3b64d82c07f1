SPECIFICATION Spec
CONSTANTS
  Workers = {w1, w2}
  Branches <- OneBranch
  MaxEvents = 1
  Types <- OneType
  Batch = 2
  MaxFaults = 1
  SlowWorkers = TRUE
PROPERTY SucceededIsFinal
