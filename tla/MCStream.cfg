SPECIFICATION Spec
CONSTANTS
  MaxSockets = 2
  MaxEvents = 2
  Limit = 1
  MaxRetries = 1
  MaxStarts = 2
  MaxFaults = 2
INVARIANT TypeOK
PROPERTY DisplayImplementsFeed
PROPERTY NothingSentAfterKill
CHECK_DEADLOCK FALSE
