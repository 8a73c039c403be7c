SPECIFICATION Spec
CONSTANTS
  Sessions = {s1, s2}
  Requests = {r1, r2}
  ExtKeys = {k1}
  NoSession = NoSession
  NoKey = NoKey
  Ops = {"start", "stop", "list"}
  Timers = {"billing", "lapse"}
  Faults = {"ecs"}
  EcsEnabled = TRUE
  IsAdmin = FALSE
  IsLms = TRUE
  InitialTokens = 0
  InitialCredits = 0
  PracticalCredits = {1, 2}
  ExtCost = 1
  ExtMinutes = 1
  PromoteTicks = 1
  StaleTicks = 1
  WarnTicks = 1
  LowBalance = 1
  MaxTime = 2
  MaxTokens = 2
  MaxRestarts = 0
SYMMETRY Symmetry
CHECK_DEADLOCK FALSE
INVARIANTS
  TasksAreRecorded
PROPERTIES
  EndedStaysEnded
