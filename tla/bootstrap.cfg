SPECIFICATION FairSpec
CONSTANTS
  Polls = {p1, p2}
  Stores = {"dynamo", "memory"}
  MaxCrashes = 1
CHECK_DEADLOCK FALSE
INVARIANTS
  ReadyIsPopulated
  WorkIsKept
  OneBootstrapUnlessRaced
PROPERTIES
  BootstrapSettles
