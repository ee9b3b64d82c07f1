SPECIFICATION MCSpec
CONSTANTS
  Devices = {1, 2}
  RoleIds = {1}
  MaxTokens = 4
  Calls = {"c1", "c2", "c3"}
  PoolMax = 1
PROPERTY EveryRefreshAnswered
INVARIANT IdleIsClean
PROPERTY EveryCallAnswered
PROPERTY EveryRequestEnds
PROPERTY EveryEffectDelivered
INVARIANT ReplayEndsFamily
CHECK_DEADLOCK FALSE
