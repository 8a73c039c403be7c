SPECIFICATION FairSpec
CONSTANTS
  Sessions = {s1}
  Requests = {r1, r2}
  ExtKeys = {k1}
  NoSession = NoSession
  NoKey = NoKey
  Ops = {"start", "stop"}
  Timers = {"billing", "stop", "expiry", "lapse", "cleanup"}
  Faults = {"restart", "save"}
  EcsEnabled = TRUE
  IsAdmin = FALSE
  IsLms = FALSE
  InitialTokens = 1
  InitialCredits = 0
  PracticalCredits = {1}
  ExtCost = 1
  ExtMinutes = 1
  PromoteTicks = 1
  StaleTicks = 1
  WarnTicks = 1
  LowBalance = 1
  MaxTime = 3
  MaxTokens = 2
  MaxRestarts = 1
CHECK_DEADLOCK FALSE
PROPERTIES
  StoppingDrains
  StartingSettles
  ServedTaskReleased
