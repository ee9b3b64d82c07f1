SPECIFICATION MCSpec
CONSTANTS
  Challenges = {c1, c2, c3}
  Actors = {"a1", "a2"}
  Managers = {"m1", "m2"}
  ManagerThreshold = 3
  ActorThreshold = 3
  CountWindow = 2
  ManagerLock = 2
  ActorLock = 3
  MaxWait = 2
  MaxClock = 4
  MaxAttempts = 7
  Sessions = {1, 2}
  Users = {11, 12}
  MaxIds = 2
SYMMETRY Symmetry
INVARIANT OverrunBounded
PROPERTY LockOutlivesLogins
INVARIANT GuessesPerManager
PROPERTY NoVerifyWhileLocked
PROPERTY ImplementsRoster
PROPERTY AllowedWasInForce
CHECK_DEADLOCK FALSE
