SPECIFICATION Spec
CONSTANTS
  Sessions = {s1}
  Requests = {r1}
  ExtKeys = {k1}
  NoSession = NoSession
  NoKey = NoKey
  Ops = {"start", "get", "stop", "extend", "buy"}
  Timers = {"billing", "stop", "expiry", "lapse"}
  Faults = {"billing", "wallet"}
  EcsEnabled = TRUE
  IsAdmin = FALSE
  IsLms = TRUE
  InitialTokens = 0
  InitialCredits = 1
  PracticalCredits = {1, 2}
  ExtCost = 1
  ExtMinutes = 1
  PromoteTicks = 1
  StaleTicks = 1
  WarnTicks = 1
  LowBalance = 1
  MaxTime = 5
  MaxTokens = 2
  MaxRestarts = 0
CHECK_DEADLOCK FALSE
INVARIANTS
  TypeOK
  NeverOverdrawn
  BilledColumnsAgree
  ChargesBounded
  LedgerWithinWallet
PROPERTIES
  ChargedOnlyWhileMetered
