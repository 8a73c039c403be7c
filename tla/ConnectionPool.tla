--------------------------- MODULE ConnectionPool ---------------------------
(***************************************************************************)
(* The MySQL connection pool of lib/mysql.js, as the handlers use it: at   *)
(* most connectionLimit connections, callers queue without limit and       *)
(* without a time limit (waitForConnections, queueLimit 0).                *)
(*                                                                         *)
(* A request takes a connection for its transaction and, while it holds    *)
(* that one, asks the pool for another: each request has an outer and an   *)
(* inner slot.  A released connection goes to the head of the queue, or to *)
(* the free list when nobody waits.                                        *)
(***************************************************************************)
EXTENDS Integers, Sequences, FiniteSets

CONSTANTS
  Conns,      \* the connections: connectionLimit of them
  Requests,   \* the calls that use the pool at the same time
  NoConn      \* "no connection"

ASSUME NoConnAssumption == NoConn \notin Conns

\* connectionLimit connections, and however many callers, their number.
ASSUME PoolSizeAssumption == IsFiniteSet(Conns) /\ IsFiniteSet(Requests)

Slots == Requests \X {"outer", "inner"}
Outer(r) == <<r, "outer">>
Inner(r) == <<r, "inner">>

VARIABLES
  free,       \* how often a connection is in the free list
  waiting,    \* the queue of callers: the slots that want a connection
  held        \* the connection a slot holds

poolVars == <<free, waiting, held>>

PoolInit ==
  /\ free = [c \in Conns |-> 1] /\ waiting = <<>>
  /\ held = [s \in Slots |-> NoConn]

\* pool.getConnection and, for the time of one query, pool.query.
Ask(s) ==
  \/ \E c \in Conns :
       /\ free[c] > 0 /\ free' = [free EXCEPT ![c] = @ - 1]
       /\ held' = [held EXCEPT ![s] = c]
       /\ UNCHANGED waiting
  \/ /\ \A c \in Conns : free[c] = 0
     /\ waiting' = Append(waiting, s) /\ UNCHANGED <<free, held>>

\* Connection c comes back while the slots hold what "rest" says.
GiveBack(c, rest) ==
  \/ /\ waiting # <<>>
     /\ held' = [rest EXCEPT ![Head(waiting)] = c]
     /\ waiting' = Tail(waiting) /\ UNCHANGED free
  \/ /\ waiting = <<>>
     /\ free' = [free EXCEPT ![c] = @ + 1]
     /\ held' = rest /\ UNCHANGED waiting

Release(s) == GiveBack(held[s], [held EXCEPT ![s] = NoConn])

\* A second release of c by a caller that has given it up already.  It is
\* taken for a new one or ignored, which depends on where the connection is
\* by then and on the version of mysql2.
ReleaseAgain(c) == GiveBack(c, held) \/ UNCHANGED poolVars
=============================================================================
