SPECIFICATION Spec
CONSTANTS
  Sessions = {s1}
  Requests = {r1}
  ExtKeys = {k1}
  NoSession = NoSession
  NoKey = NoKey
  Ops = {"start", "extend"}
  Timers = {"billing", "expiry", "stop"}
  Faults = {}
  EcsEnabled = FALSE
  IsAdmin = FALSE
  IsLms = FALSE
  InitialTokens = 1
  InitialCredits = 2
  PracticalCredits = {1}
  ExtCost = 1
  ExtMinutes = 1
  PromoteTicks = 1
  StaleTicks = 1
  WarnTicks = 1
  LowBalance = 1
  MaxTime = 4
  MaxTokens = 2
  MaxRestarts = 0
CHECK_DEADLOCK FALSE
PROPERTIES
  ExtensionHonoured
