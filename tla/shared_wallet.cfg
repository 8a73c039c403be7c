SPECIFICATION Spec
CONSTANTS
  Sessions = {s1, s2}
  Requests = {r1, r2}
  ExtKeys = {k1}
  NoSession = NoSession
  NoKey = NoKey
  Ops = {"start", "stop", "extend"}
  Timers = {"billing"}
  Faults = {}
  EcsEnabled = FALSE
  IsAdmin = FALSE
  IsLms = FALSE
  InitialTokens = 2
  InitialCredits = 2
  PracticalCredits = {1}
  ExtCost = 1
  ExtMinutes = 1
  PromoteTicks = 1
  StaleTicks = 1
  WarnTicks = 1
  LowBalance = 1
  MaxTime = 3
  MaxTokens = 2
  MaxRestarts = 0
SYMMETRY Symmetry
CHECK_DEADLOCK FALSE
INVARIANTS
  BilledWithinWallet
  ExtensionPaidOncePerKey
PROPERTIES
  BillingKeepsAllocatedTime
