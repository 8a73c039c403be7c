---------------------------- MODULE TokenOrders ----------------------------
(***************************************************************************)
(* Orders of lab tokens and their settlement (PaymentService,              *)
(* PaymentSettlementService, handlers/tokenOrders.js), and the other       *)
(* transactions that ask the pool for a second connection while they hold  *)
(* one: the start of a session and the billing of one.                     *)
(*                                                                         *)
(* A connection carries the transaction that was begun on it, whoever uses *)
(* it: BEGIN commits what was open, and a statement outside a transaction  *)
(* commits by itself.  That is what two requests on one connection do to   *)
(* each other.                                                             *)
(***************************************************************************)
EXTENDS ConnectionPool

CONSTANTS
  Orders,     \* token orders
  MaxCredit   \* bound on how often TLC lets an order be credited

\* createCombinedOrder, verifyPayment, the gateway's webhook,
\* sessionsStartHandler, billSession.
Kinds == {"create", "verify", "webhook", "start", "bill"}

VARIABLES
  status,     \* token_orders.Status as committed, "absent" without a row
  credited,   \* how often the order's tokens are in the lab wallet
  notified,   \* the orders whose new balance was announced
  column,     \* lab_sessions has the column StudentId
  open,       \* the transaction that is open on a connection
  kind, order,\* what a request is, and which order it is about
  at,         \* where a request is
  mine,       \* the local variable "connection" of a request
  refused     \* history: a request threw after it had released

dbVars == <<status, credited, column, open>>
vars == <<poolVars, dbVars, notified, kind, order, at, mine, refused>>

NoChange == [active |-> FALSE, lock |-> {}, credit |-> [o \in Orders |-> 0],
             mark |-> [o \in Orders |-> "none"]]

\* No script of the repository gives lab_sessions a StudentId.  An order is
\* created by one call, or is there from the start.
Init ==
  /\ PoolInit
  /\ kind \in [Requests -> Kinds] /\ order \in [Requests -> Orders]
  /\ \A r, q \in Requests :
       kind[r] = "create" /\ kind[q] = "create" /\ order[r] = order[q] => r = q
  /\ status = [o \in Orders |->
                 IF \E r \in Requests : kind[r] = "create" /\ order[r] = o
                 THEN "absent" ELSE "PENDING_PAYMENT"]
  /\ credited = [o \in Orders |-> 0] /\ notified = {} /\ column \in BOOLEAN
  /\ open = [c \in Conns |-> NoChange]
  /\ at = [r \in Requests |-> "idle"] /\ mine = [r \in Requests |-> NoConn]
  /\ refused = FALSE

-----------------------------------------------------------------------------
(* Transactions on a connection. *)

\* What is open on c becomes permanent, and c goes on with "next".
CommitThen(c, next) ==
  /\ credited' = [o \in Orders |-> credited[o] + open[c].credit[o]]
  /\ status' = [o \in Orders |->
       IF open[c].mark[o] = "none" THEN status[o] ELSE open[c].mark[o]]
  /\ open' = [open EXCEPT ![c] = next]
  /\ UNCHANGED column

Begin(c) == CommitThen(c, [NoChange EXCEPT !.active = TRUE])
Commit(c) == CommitThen(c, NoChange)
Rollback(c) ==
  open' = [open EXCEPT ![c] = NoChange] /\ UNCHANGED <<status, credited, column>>

\* A statement on c that marks order o.
Mark(c, o, m) ==
  IF open[c].active
  THEN open' = [open EXCEPT ![c].mark[o] = m] /\ UNCHANGED <<status, credited, column>>
  ELSE status' = [status EXCEPT ![o] = m] /\ UNCHANGED <<credited, column, open>>

\* A statement on c that adds the tokens of order o to the wallet.
Credit(c, o) ==
  IF open[c].active
  THEN open' = [open EXCEPT ![c].credit[o] = @ + 1] /\ UNCHANGED <<status, credited, column>>
  ELSE credited' = [credited EXCEPT ![o] = @ + 1] /\ UNCHANGED <<status, column, open>>

\* SELECT ... FOR UPDATE on c, and the status it reads.
\* Mutant: the order is read without FOR UPDATE.
FreeAnyway(c, o) == TRUE
Free(c, o) == \A d \in Conns : d # c => o \notin open[d].lock
Lock(c, o) ==
  /\ open' = IF open[c].active THEN [open EXCEPT ![c].lock = @ \cup {o}] ELSE open
  /\ UNCHANGED <<status, credited, column>>
View(c, o) == IF open[c].mark[o] = "none" THEN status[o] ELSE open[c].mark[o]

Quiet == UNCHANGED <<dbVars, notified>>
Local(r, from, to) ==
  /\ at[r] = from /\ at' = [at EXCEPT ![r] = to]
  /\ UNCHANGED <<kind, order, mine, refused>>
Statement == UNCHANGED <<poolVars, notified>>

-----------------------------------------------------------------------------
(* What the five have in common. *)

Call(r) == Local(r, "idle", "begin") /\ Ask(Outer(r)) /\ Quiet

BeginWork(r) ==
  /\ at[r] = "begin" /\ held[Outer(r)] # NoConn
  /\ Begin(held[Outer(r)])
  /\ mine' = [mine EXCEPT ![r] = held[Outer(r)]]
  /\ at' = [at EXCEPT ![r] = IF kind[r] \in {"verify", "webhook"} THEN "lock"
                                                               ELSE "work"]
  /\ UNCHANGED <<kind, order, refused>> /\ Statement

\* keysForStudent reads the aliases through the pool: a second connection.
AskAliases(r, from, to) == Local(r, from, to) /\ Ask(Inner(r)) /\ Quiet
\* Mutant: the second connection is never given back.
HasAliasesAndKeeps(r, from, to) ==
  /\ Local(r, from, to) /\ held[Inner(r)] # NoConn /\ Quiet
  /\ UNCHANGED poolVars
HasAliases(r, from, to) ==
  /\ Local(r, from, to) /\ held[Inner(r)] # NoConn
  /\ Release(Inner(r)) /\ Quiet

\* Some statement fails, or its lock wait times out: on to the catch.
Throws(r) ==
  \E from \in {"lock", "work", "checked", "signed", "credited", "mark"} :
    Local(r, from, "catch") /\ Quiet /\ UNCHANGED poolVars

\* Mutant: the catch forgets to release.
CatchKeeps(r) ==
  Local(r, "catch", "done") /\ Rollback(mine[r]) /\ Statement
Catch(r) ==
  /\ Local(r, "catch", "done")
  /\ Rollback(mine[r]) /\ Release(Outer(r)) /\ UNCHANGED notified

\* Mutant: a finally releases what the end of the try has released.
FinishAndFinally(r) ==
  /\ Local(r, "commit", "rethrown")
  /\ Commit(mine[r]) /\ Release(Outer(r)) /\ UNCHANGED notified
Finish(r) ==
  /\ Local(r, "commit", "done")
  /\ Commit(mine[r]) /\ Release(Outer(r)) /\ UNCHANGED notified

\* A throw inside the try, of a connection that has just been released.
ThrowInTry(r, from) ==
  /\ at[r] = from /\ at' = [at EXCEPT ![r] = "rethrown"] /\ refused' = TRUE
  /\ Release(Outer(r))
  /\ UNCHANGED <<kind, order, mine, notified>>
RefuseInTry(r, from) == ThrowInTry(r, from) /\ Rollback(mine[r])

\* The catch of a throw that came after the release: it rolls back whatever
\* is open on the connection by now, another request's work, and releases
\* again.
CatchAfterRelease(r) ==
  /\ Local(r, "rethrown", "done")
  /\ Rollback(mine[r]) /\ ReleaseAgain(mine[r]) /\ UNCHANGED notified

-----------------------------------------------------------------------------
(* createCombinedOrder and settleOrder. *)

InsertOrder(r) ==
  /\ kind[r] = "create" /\ Local(r, "work", "commit")
  /\ Mark(mine[r], order[r], "PENDING_PAYMENT") /\ Statement

\* The webhook passes gatewayOrderId, which settleOrder does not look at.
NotFound(r) ==
  /\ at[r] = "lock"
  /\ kind[r] = "webhook" \/ View(mine[r], order[r]) = "absent"
  /\ RefuseInTry(r, "lock")

LockOrder(r) ==
  /\ at[r] = "lock"
  /\ kind[r] = "verify" /\ View(mine[r], order[r]) # "absent"
  /\ Free(mine[r], order[r])
  /\ Lock(mine[r], order[r]) /\ Statement
  /\ \/ /\ View(mine[r], order[r]) = "TOKEN_CREDITED" /\ Local(r, "lock", "catch")
     \/ /\ View(mine[r], order[r]) # "TOKEN_CREDITED"
        /\ Local(r, "lock", "signed") \/ Local(r, "lock", "forged")

\* The signature does not match: FAILED is committed before the throw.
MarkFailed(r) ==
  /\ Local(r, "forged", "failed")
  /\ Mark(mine[r], order[r], "FAILED") /\ Statement
RefuseSignature(r) == ThrowInTry(r, "failed") /\ Commit(mine[r])

\* creditWalletTokens ends by reading the wallet, with the aliases.
CreditWallet(r) ==
  /\ Local(r, "signed", "crediting")
  /\ credited[order[r]] + open[mine[r]].credit[order[r]] < MaxCredit
  /\ Credit(mine[r], order[r])
  /\ Ask(Inner(r)) /\ UNCHANGED notified
Credited(r) == HasAliases(r, "crediting", "credited")

\* The balance is announced; the update of lab_sessions by StudentId follows.
Announce(r) ==
  /\ Local(r, "credited", IF column THEN "mark" ELSE "catch")
  /\ notified' = notified \cup {order[r]}
  /\ UNCHANGED <<poolVars, dbVars>>

MarkCredited(r) ==
  /\ Local(r, "mark", "commit")
  /\ Mark(mine[r], order[r], "TOKEN_CREDITED") /\ Statement

Settle(r) ==
  \/ InsertOrder(r) \/ NotFound(r) \/ LockOrder(r) \/ MarkFailed(r)
  \/ RefuseSignature(r) \/ CreditWallet(r) \/ Credited(r) \/ Announce(r)
  \/ MarkCredited(r)

-----------------------------------------------------------------------------
(* sessionsStartHandler and billSession, as users of the pool. *)

\* The session to replace is finalized on a connection of its own, which
\* waits for the row that this transaction has locked until it times out.
FinalizeOld(r) ==
  kind[r] = "start" /\ AskAliases(r, "work", "finalizing")
Finalized(r) == HasAliases(r, "finalizing", "wallet")

\* Another session is active.
RefuseActive(r) == kind[r] = "start" /\ RefuseInTry(r, "work")

ReadWallet(r) ==
  \/ kind[r] \in {"start", "bill"} /\ AskAliases(r, "work", "aliases")
  \/ AskAliases(r, "wallet", "aliases")
HasWallet(r) == HasAliases(r, "aliases", "checked")

\* A course credit was granted: the wallet is read once more.
ReadGranted(r) == kind[r] = "start" /\ AskAliases(r, "checked", "granted")
HasGranted(r) == HasAliases(r, "granted", "decide")

NoTokens(r) == kind[r] = "start" /\ \E from \in {"checked", "decide"} : RefuseInTry(r, from)
Enough(r) ==
  /\ \E from \in {"checked", "decide"} : Local(r, from, "commit")
  /\ Quiet /\ UNCHANGED poolVars

StartOrBill(r) ==
  \/ FinalizeOld(r) \/ Finalized(r) \/ RefuseActive(r) \/ ReadWallet(r)
  \/ HasWallet(r) \/ ReadGranted(r) \/ HasGranted(r) \/ NoTokens(r) \/ Enough(r)

-----------------------------------------------------------------------------
Step(r) ==
  \/ Call(r) \/ BeginWork(r) \/ Throws(r) \/ Catch(r) \/ Finish(r)
  \/ CatchAfterRelease(r) \/ Settle(r) \/ StartOrBill(r)

Next == \E r \in Requests : Step(r)
Spec == Init /\ [][Next]_vars

-----------------------------------------------------------------------------
Statuses == {"absent", "PENDING_PAYMENT", "TOKEN_CREDITED", "FAILED"}
Places == {"idle", "begin", "lock", "work", "signed", "forged", "failed",
           "crediting", "credited", "mark", "finalizing", "wallet", "aliases",
           "checked", "granted", "decide", "commit", "catch", "rethrown", "done"}

\* Every variable stays within its type.
TypeOK ==
  /\ free \in [Conns -> Nat] /\ waiting \in Seq(Slots)
  /\ held \in [Slots -> Conns \cup {NoConn}]
  /\ status \in [Orders -> Statuses] /\ credited \in [Orders -> Nat]
  /\ notified \subseteq Orders /\ column \in BOOLEAN /\ refused \in BOOLEAN
  /\ open \in [Conns -> [active : BOOLEAN, lock : SUBSET Orders,
                         credit : [Orders -> Nat],
                         mark : [Orders -> Statuses \cup {"none"}]]]
  /\ kind \in [Requests -> Kinds] /\ order \in [Requests -> Orders]
  /\ at \in [Requests -> Places] /\ mine \in [Requests -> Conns \cup {NoConn}]

Runs(r) == at[r] \notin {"idle", "rethrown", "done"}
Waits(r) == \E i \in 1..Len(waiting) : waiting[i][1] = r

\* No connection is lost: it is free, or a request that still runs holds it,
\* on every path through errors, refusals and early returns.
NoConnectionLost ==
  \A c \in Conns : free[c] > 0 \/ \E s \in Slots : held[s] = c /\ Runs(s[1])

\* A connection is in one place, so two transactions never run on one
\* connection, unless a request threw after it had released: the catch then
\* releases again (sessions.js:154, :204, PaymentSettlementService.js:30, :53).
SharedOnlyAfterRefusal ==
  refused \/ \A c \in Conns :
    /\ free[c] <= 1
    /\ \A s \in Slots : held[s] = c => free[c] = 0
    /\ \A s, t \in Slots : held[s] = c /\ held[t] = c => s = t

\* While fewer requests run than there are connections the queue moves: some
\* request that holds a connection is not itself waiting for one.  With as
\* many requests as connections each may hold one and wait for the next
\* (StudentLabTokenWalletRepository.js:69).
NotAllWait ==
  Cardinality(Requests) < Cardinality(Conns) /\ waiting # <<>>
    => \E s \in Slots : held[s] # NoConn /\ Runs(s[1]) /\ ~Waits(s[1])

\* The tokens of an order are in the wallet exactly when the order says so,
\* and once, however many verifications of it run and fail; unless a request
\* threw after its release, when a stranger's BEGIN may commit half a
\* settlement (PaymentSettlementService.js:60, "Atomically").
CreditedExactlyOnce ==
  refused \/ \A o \in Orders :
    credited[o] = IF status[o] = "TOKEN_CREDITED" THEN 1 ELSE 0

\* A balance that was announced is there once nobody works on the order.
AnnouncedIsCredited ==
  \A o \in notified :
    (\A r \in Requests : order[r] = o => at[r] \in {"idle", "done"})
      => credited[o] > 0
=============================================================================
