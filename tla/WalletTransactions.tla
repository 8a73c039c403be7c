------------------------- MODULE WalletTransactions -------------------------
(***************************************************************************)
(* The transactions that move one student's money, statement by statement: *)
(* billSession (UsageBillingService; the final billing has the same        *)
(* statements), processPurchase behind the verification of a payment, and  *)
(* the extension of a session. UsageBilling and SessionHandlers take each  *)
(* of them as one step; here the rows they lock, the order in which they   *)
(* lock them, deadlocks, lock wait timeouts and the catch blocks on their  *)
(* way are in view, and the life of a session is not: sessions run, and    *)
(* their meters are not restarted.                                         *)
(*                                                                         *)
(* Billing locks a session, the lab wallet and then the credit wallet; a   *)
(* purchase locks the credit wallet and then the lab wallet; an extension  *)
(* the credit wallet and then the session.                                 *)
(*                                                                         *)
(* db holds what is committed. What a transaction has written shows in it  *)
(* at its commit: nobody else reads a row it has locked. Statements that   *)
(* cannot wait are taken together with the one before.                     *)
(***************************************************************************)
EXTENDS Integers, FiniteSets

CONSTANTS
  Txs,                      \* database connections
  Sessions,                 \* metered sessions of the student and lab
  Payments,                 \* Razorpay payment ids, all of them captured
  ExtKeys,                  \* idempotency keys of extension requests
  LabWallet, CreditWallet,  \* the two wallet rows
  Nobody,                   \* no connection; no session or key
  Tokens,                   \* tokens a payment buys
  ExtCost,                  \* credits an extension costs
  InitialTokens, InitialCredits,
  MaxMinutes, MaxCrashes    \* bounds of the model

Rows == Sessions \cup {LabWallet, CreditWallet}

ASSUME NamesAssumption ==
  /\ LabWallet # CreditWallet
  /\ LabWallet \notin Sessions /\ CreditWallet \notin Sessions
  /\ Payments \cap ExtKeys = {}
  /\ Nobody \notin Txs \cup Rows \cup Payments \cup ExtKeys

ASSUME AmountsAssumption ==
  /\ Tokens \in Nat \ {0} /\ ExtCost \in Nat
  /\ InitialTokens \in Nat /\ InitialCredits \in Nat
  /\ MaxMinutes \in Nat /\ MaxCrashes \in Nat

VARIABLES
  db,        \* the committed rows
  lock,      \* the connection that holds a row's lock
  tx,        \* where the transaction of a connection stands
  minutes,   \* minutes the sessions have run
  told,      \* keys whose client was told of success
  crashes    \* how often the process has died

vars == <<db, lock, tx, minutes, told, crashes>>

(***************************************************************************)
(* Types                                                                   *)
(***************************************************************************)
Database ==
  [paid : SUBSET (Payments \cup ExtKeys),  \* keys in credit_transactions
   bought : Nat, used : Nat,               \* student_lab_token_wallets
   credit : Nat,                           \* credit_wallets.Balance
   billed : [Sessions -> Nat],             \* lab_sessions.BilledTokens
   entries : [Sessions -> SUBSET Nat],     \* keys of the usage ledger
   booked : Nat,                           \* sum of its tokens
   extended : Nat]                         \* extensions the sessions have had

Steps == {"idle", "billWallet", "billDeduct", "billCommit", "bareEntry", "bareRow",
          "buyCredit", "buyLab", "buyCommit", "extCredit", "extRow", "extCommit",
          "answer"}

Transaction ==
  [at : Steps, sid : Sessions \cup {Nobody},
   key : Payments \cup ExtKeys \cup {Nobody},
   n : Nat,          \* tokens charged
   seq : Nat,        \* BilledTokens as read, then as it will be written
   seen : Nat,       \* Balance as read
   deducted : BOOLEAN]

Idle == [at |-> "idle", sid |-> Nobody, key |-> Nobody, n |-> 0, seq |-> 0,
         seen |-> 0, deducted |-> FALSE]

Init ==
  /\ db = [paid |-> {}, bought |-> InitialTokens, used |-> 0,
           credit |-> InitialCredits,
           billed |-> [s \in Sessions |-> 0], entries |-> [s \in Sessions |-> {}],
           booked |-> 0, extended |-> 0]
  /\ lock = [x \in Rows |-> Nobody]
  /\ tx = [t \in Txs |-> Idle]
  /\ minutes = 0
  /\ told = {}
  /\ crashes = 0

(***************************************************************************)
(* Locks                                                                   *)
(***************************************************************************)
Least(a, b)    == IF a =< b THEN a ELSE b
Greatest(a, b) == IF a >= b THEN a ELSE b

At(t, step) == tx[t].at = step
Free(x)     == lock[x] = Nobody

Grab(t, x)  == lock' = [lock EXCEPT ![x] = t]
Release(t)  == lock' = [x \in Rows |-> IF lock[x] = t THEN Nobody ELSE lock[x]]
Goto(t, q)  == tx' = [tx EXCEPT ![t] = q]
Finish(t)   == Goto(t, Idle)

\* The row a connection has asked for; one without a transaction asks too
\* (an entry of the ledger has a foreign key to the lab wallet).
Wants(t) ==
  CASE tx[t].at \in {"billWallet", "buyLab", "bareEntry"}        -> LabWallet
    [] tx[t].at \in {"billDeduct", "buyCredit", "extCredit"} -> CreditWallet
    [] tx[t].at \in {"extRow", "bareRow"}                    -> tx[t].sid
    [] OTHER                                                 -> Nobody

Waits(t) == Wants(t) # Nobody /\ ~Free(Wants(t))

\* Everyone in S waits for someone in S and is waited for.
Knot(S) ==
  /\ \A t \in S : Waits(t) /\ lock[Wants(t)] \in S
  /\ \A t \in S : \E u \in S : lock[Wants(u)] = t

(***************************************************************************)
(* billSession                                                             *)
(***************************************************************************)
\* SELECT ... FROM lab_sessions ... FOR UPDATE.
BillBegin(t, s) ==
  /\ At(t, "idle") /\ Free(s)
  /\ Grab(t, s)
  /\ Goto(t, [Idle EXCEPT !.at = "billWallet", !.sid = s, !.seq = db.billed[s]])
  /\ UNCHANGED <<db, minutes, told, crashes>>

\* Tokens to charge for the minutes that are not billed.
\* Mutant: as many as there are minutes.
ChargeInFull(seq) == Greatest(0, minutes - seq)
Charge(seq) == Least(Greatest(0, minutes - seq), db.bought - db.used)

\* getWalletForUpdate, the amount, the update of the lab wallet. Nothing to
\* charge: commit.
\* Mutant: the wallet is read without a lock.
BillWalletUnlocked(t) ==
  LET q == tx[t]
      n == Charge(q.seq) IN
  /\ At(t, "billWallet")
  /\ IF n = 0
       THEN Release(t) /\ Finish(t)
       ELSE /\ UNCHANGED lock
            /\ Goto(t, [q EXCEPT !.at = "billDeduct", !.n = n, !.seq = q.seq + n])
  /\ UNCHANGED <<db, minutes, told, crashes>>

BillWallet(t) ==
  LET q == tx[t]
      n == Charge(q.seq) IN
  /\ At(t, "billWallet") /\ Free(LabWallet)
  /\ IF n = 0
       THEN Release(t) /\ Finish(t)
       ELSE /\ Grab(t, LabWallet)
            /\ Goto(t, [q EXCEPT !.at = "billDeduct", !.n = n, !.seq = q.seq + n])
  /\ UNCHANGED <<db, minutes, told, crashes>>

\* The update of credit_wallets in consumeWalletTokens.
BillDeduct(t) ==
  /\ At(t, "billDeduct") /\ Free(CreditWallet)
  /\ Grab(t, CreditWallet)
  /\ Goto(t, [tx[t] EXCEPT !.at = "billCommit", !.deducted = TRUE])
  /\ UNCHANGED <<db, minutes, told, crashes>>

\* ON DUPLICATE KEY UPDATE Id=Id: an entry is kept if its key is new.
Entered(d, q) ==
  [d EXCEPT !.entries[q.sid] = @ \cup {q.seq},
            !.booked = IF q.seq \in d.entries[q.sid] THEN @ ELSE @ + q.n]

\* The balance after a charge.
\* Mutant: it is not kept from going below zero.
CreditUnclamped(n) == db.credit - n
CreditAfter(n) == Greatest(0, db.credit - n)

\* Ledger, row and commit.
BillCommit(t) ==
  LET q == tx[t] IN
  /\ At(t, "billCommit")
  /\ db' = [Entered(db, q) EXCEPT
              !.used = db.used + q.n,
              !.credit = IF q.deducted THEN CreditAfter(q.n) ELSE db.credit,
              !.billed[q.sid] = q.seq]
  /\ Release(t) /\ Finish(t)
  /\ UNCHANGED <<minutes, told, crashes>>

\* After a deadlock whose error was swallowed there is no transaction any
\* more, and each statement commits by itself.
BareEntry(t) ==
  /\ At(t, "bareEntry") /\ Free(LabWallet)
  /\ db' = Entered(db, tx[t])
  /\ Goto(t, [tx[t] EXCEPT !.at = "bareRow"])
  /\ UNCHANGED <<lock, minutes, told, crashes>>

BareRow(t) ==
  /\ At(t, "bareRow") /\ Free(tx[t].sid)
  /\ db' = [db EXCEPT !.billed[tx[t].sid] = tx[t].seq]
  /\ Finish(t)
  /\ UNCHANGED <<lock, minutes, told, crashes>>

(***************************************************************************)
(* verifyRazorpaySignatureHandler and processPurchase                      *)
(***************************************************************************)
\* The insert into credit_transactions fails on its unique key.
\* Mutant: the column is not unique.
DuplicateNever(k) == FALSE
Duplicate(k) == k \in db.paid

\* The reads before the transaction: a request that comes late is answered
\* at once, one that comes early goes on.
BuyBegin(t, p) ==
  /\ At(t, "idle")
  /\ Goto(t, [Idle EXCEPT !.at = IF p \in db.paid THEN "answer" ELSE "buyCredit",
                          !.key = p])
  /\ UNCHANGED <<db, lock, minutes, told, crashes>>

\* Lock, read and write the credit wallet, insert the transaction row. A
\* duplicate is rolled back and answered as already processed.
\* Mutant: the wallet is read without a lock.
BuyCreditUnlocked(t) ==
  LET q == tx[t] IN
  /\ At(t, "buyCredit")
  /\ Goto(t, IF Duplicate(q.key) THEN [q EXCEPT !.at = "answer"]
             ELSE [q EXCEPT !.at = "buyLab", !.seen = db.credit])
  /\ UNCHANGED <<db, lock, minutes, told, crashes>>

BuyCredit(t) ==
  LET q == tx[t] IN
  /\ At(t, "buyCredit") /\ Free(CreditWallet)
  /\ IF Duplicate(q.key)
       THEN UNCHANGED lock /\ Goto(t, [q EXCEPT !.at = "answer"])
       ELSE /\ Grab(t, CreditWallet)
            /\ Goto(t, [q EXCEPT !.at = "buyLab", !.seen = db.credit])
  /\ UNCHANGED <<db, minutes, told, crashes>>

BuyLab(t) ==
  /\ At(t, "buyLab") /\ Free(LabWallet)
  /\ Grab(t, LabWallet)
  /\ Goto(t, [tx[t] EXCEPT !.at = "buyCommit"])
  /\ UNCHANGED <<db, minutes, told, crashes>>

\* The credit wallet has the tokens from processPurchase, as an absolute
\* balance, and once more from creditWalletTokens.
BuyCommit(t) ==
  LET q == tx[t] IN
  /\ At(t, "buyCommit")
  /\ db' = [db EXCEPT !.paid = @ \cup {q.key}, !.bought = @ + Tokens,
                      !.credit = q.seen + 2 * Tokens]
  /\ Release(t)
  /\ Goto(t, [Idle EXCEPT !.at = "answer", !.key = q.key])
  /\ UNCHANGED <<minutes, told, crashes>>

Answer(t) ==
  /\ At(t, "answer")
  /\ told' = told \cup {tx[t].key}
  /\ Finish(t)
  /\ UNCHANGED <<db, lock, minutes, crashes>>

(***************************************************************************)
(* sessionsExtendHandler                                                   *)
(***************************************************************************)
\* The reads before the transaction.
ExtBegin(t, s, k) ==
  /\ At(t, "idle")
  /\ Goto(t, [Idle EXCEPT !.at = IF k \in db.paid THEN "answer" ELSE "extCredit",
                          !.sid = s, !.key = k])
  /\ UNCHANGED <<db, lock, minutes, told, crashes>>

\* Lock, read, check and write the credit wallet, insert the transaction row.
\* Mutant: the row is inserted on a connection of its own.
ExtCreditApart(t) ==
  LET q == tx[t] IN
  /\ At(t, "extCredit") /\ Free(CreditWallet)
  /\ IF db.credit < ExtCost \/ Duplicate(q.key)
       THEN UNCHANGED <<db, lock>> /\ Finish(t)
       ELSE /\ Grab(t, CreditWallet)
            /\ db' = [db EXCEPT !.paid = @ \cup {q.key}]
            /\ Goto(t, [q EXCEPT !.at = "extRow", !.seen = db.credit])
  /\ UNCHANGED <<minutes, told, crashes>>

ExtCredit(t) ==
  LET q == tx[t] IN
  /\ At(t, "extCredit") /\ Free(CreditWallet)
  /\ IF db.credit < ExtCost \/ Duplicate(q.key)
       THEN UNCHANGED lock /\ Finish(t)
       ELSE /\ Grab(t, CreditWallet)
            /\ Goto(t, [q EXCEPT !.at = "extRow", !.seen = db.credit])
  /\ UNCHANGED <<db, minutes, told, crashes>>

ExtRow(t) ==
  /\ At(t, "extRow") /\ Free(tx[t].sid)
  /\ Grab(t, tx[t].sid)
  /\ Goto(t, [tx[t] EXCEPT !.at = "extCommit"])
  /\ UNCHANGED <<db, minutes, told, crashes>>

ExtCommit(t) ==
  LET q == tx[t] IN
  /\ At(t, "extCommit")
  /\ db' = [db EXCEPT !.paid = @ \cup {q.key}, !.credit = q.seen - ExtCost,
                      !.extended = @ + 1]
  /\ Release(t)
  /\ Goto(t, [Idle EXCEPT !.at = "answer", !.key = q.key])
  /\ UNCHANGED <<minutes, told, crashes>>

(***************************************************************************)
(* Failing statements                                                      *)
(***************************************************************************)
\* The error reaches the outer catch: rollback, and the client is told of a
\* failure.
\* Mutant: every error is taken for a duplicate.
ThrowAnswered(t) ==
  /\ Release(t)
  /\ IF tx[t].key \in Payments
       THEN Goto(t, [Idle EXCEPT !.at = "answer", !.key = tx[t].key])
       ELSE Finish(t)

Throw(t) == Release(t) /\ Finish(t)

\* InnoDB ends a deadlock by rolling one of its transactions back. The
\* update of credit_wallets has a catch of its own: billing goes on without
\* the transaction it believes to be in.
Deadlock(t) ==
  /\ \E S \in SUBSET Txs : t \in S /\ Knot(S)
  /\ IF At(t, "billDeduct")
       THEN Release(t) /\ Goto(t, [tx[t] EXCEPT !.at = "bareEntry"])
       ELSE Throw(t)
  /\ UNCHANGED <<db, minutes, told, crashes>>

\* A lock wait timeout undoes the statement alone.
LockTimeout(t) ==
  /\ Waits(t)
  /\ IF At(t, "billDeduct")
       THEN UNCHANGED lock /\ Goto(t, [tx[t] EXCEPT !.at = "billCommit"])
       ELSE Throw(t)
  /\ UNCHANGED <<db, minutes, told, crashes>>

Crash ==
  /\ crashes < MaxCrashes
  /\ crashes' = crashes + 1
  /\ lock' = [x \in Rows |-> Nobody]
  /\ tx' = [t \in Txs |-> Idle]
  /\ UNCHANGED <<db, minutes, told>>

Minute ==
  /\ minutes < MaxMinutes
  /\ minutes' = minutes + 1
  /\ UNCHANGED <<db, lock, tx, told, crashes>>

(***************************************************************************)
(* The specification                                                       *)
(***************************************************************************)
Billing(t) ==
  \/ \E s \in Sessions : BillBegin(t, s)
  \/ BillWallet(t) \/ BillDeduct(t) \/ BillCommit(t)
  \/ BareEntry(t) \/ BareRow(t)

Buying(t) ==
  \/ \E p \in Payments : BuyBegin(t, p)
  \/ BuyCredit(t) \/ BuyLab(t) \/ BuyCommit(t) \/ Answer(t)

Extending(t) ==
  \/ \E s \in Sessions, k \in ExtKeys : ExtBegin(t, s, k)
  \/ ExtCredit(t) \/ ExtRow(t) \/ ExtCommit(t)

Next ==
  \/ \E t \in Txs :
       \/ Billing(t) \/ Buying(t) \/ Extending(t)
       \/ Deadlock(t) \/ LockTimeout(t)
  \/ Crash \/ Minute

Spec == Init /\ [][Next]_vars

(***************************************************************************)
(* Properties                                                              *)
(***************************************************************************)
\* Rows, locks and connections hold the kind of value the schema and the
\* code put there.
TypeOK ==
  /\ db \in Database
  /\ lock \in [Rows -> Txs \cup {Nobody}]
  /\ tx \in [Txs -> Transaction]
  /\ minutes \in Nat /\ crashes \in Nat
  /\ told \subseteq Payments \cup ExtKeys

\* Sessions billed at the same moment never take more from the wallet than
\* was bought, whatever is retried, rolled back or swallowed on the way.
NeverOverdrawn == db.used =< db.bought

\* A payment verified many times, also at once, puts its tokens in once; one
\* whose transaction was rolled back has left no trace.
PaidForOnce ==
  db.bought = InitialTokens + Tokens * Cardinality(db.paid \cap Payments)

\* A client that was told of success has what it paid for, also after the
\* process has died.
ToldIsPaid == told \subseteq db.paid

\* An extension and its price go together: an extension that loses a
\* deadlock, times out or dies with the process has neither.
ExtendedIsPaid == db.extended = Cardinality(db.paid \cap ExtKeys)

\* Purchases and extensions write the balance they read plus a difference,
\* billing changes it in place: no update is lost between them.
NoCreditLost ==
  db.credit + db.used + ExtCost * Cardinality(db.paid \cap ExtKeys)
    >= InitialCredits + 2 * Tokens * Cardinality(db.paid \cap Payments)

\* The wallet as its promise sees it.
Promise == INSTANCE PrepaidWallet WITH
  paid <- db.paid \cap Payments, bought <- db.bought, used <- db.used

\* Statement by statement, the transactions do what the wallet promises.
KeepsPromise == Promise!Spec

\* Every entry of the usage ledger was paid from the wallet.
LedgerPaid == db.booked =< db.used
=============================================================================
