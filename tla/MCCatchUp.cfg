SPECIFICATION FairSpec
CONSTANTS
  MaxSockets = 1
  MaxEvents = 2
  Limit = 1
  MaxRetries = 1
  MaxStarts = 1
  MaxFaults = 2
PROPERTY CatchesUp
PROPERTY RevocationEndsStreams
CHECK_DEADLOCK FALSE
