SPECIFICATION Spec
CONSTANTS
  Files = {1, 2}
  Requests = {r1, r2}
  MaxSpent = 2
CHECK_DEADLOCK FALSE
INVARIANTS
  NeverBlanked
