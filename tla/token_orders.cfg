SPECIFICATION Spec
CONSTANTS
  Conns = {c1, c2, c3, c4}
  Requests = {r1, r2, r3}
  NoConn = NoConn
  Orders = {o1}
  MaxCredit = 2
SYMMETRY Symmetry
CHECK_DEADLOCK FALSE
INVARIANTS
  NoConnectionLost
  SharedOnlyAfterRefusal
  NotAllWait
  CreditedExactlyOnce
