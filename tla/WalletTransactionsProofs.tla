---------------------- MODULE WalletTransactionsProofs ----------------------
(***************************************************************************)
(* Proofs about WalletTransactions, for any number of connections,         *)
(* sessions, payments and keys, any amounts, and any run of deadlocks,     *)
(* timeouts and crashes.                                                   *)
(*                                                                         *)
(* The invariant says what a connection that stands between two statements *)
(* can rely on: the rows it has locked still are what it read.             *)
(***************************************************************************)
EXTENDS WalletTransactions, FiniteSetTheorems, TLAPS

\* What connection u can rely on.
Standing(u) ==
  LET q == tx[u] IN
  /\ q.at \in {"billWallet", "billDeduct", "billCommit", "bareEntry", "bareRow"} =>
       q.sid \in Sessions
  /\ q.at \in {"billDeduct", "billCommit"} =>
       lock[LabWallet] = u /\ q.n \in 1 .. (db.bought - db.used)
  /\ q.deducted = TRUE => q.at = "billCommit" /\ lock[CreditWallet] = u
  /\ q.at \in {"buyCredit", "buyLab", "buyCommit"} => q.key \in Payments
  /\ q.at \in {"extCredit", "extRow", "extCommit"} =>
       q.key \in ExtKeys /\ q.sid \in Sessions
  /\ q.at \in {"buyLab", "buyCommit", "extRow", "extCommit"} =>
       lock[CreditWallet] = u /\ q.key \notin db.paid /\ q.seen = db.credit
  /\ q.at = "buyCommit" => lock[LabWallet] = u
  /\ q.at \in {"extRow", "extCommit"} => ExtCost =< q.seen
  /\ q.at = "answer" => q.key \in db.paid

Inv ==
  /\ TypeOK
  /\ NeverOverdrawn
  /\ ToldIsPaid
  /\ \A u \in Txs : Standing(u)

(***************************************************************************)
(* A step of t leaves the others standing if it takes no lock from them    *)
(* and writes no row they have locked.                                     *)
(***************************************************************************)
LEMMA OthersStand ==
  ASSUME NEW u \in Txs, Standing(u), tx'[u] = tx[u],
         \A x \in Rows : lock[x] = u => lock'[x] = u,
         lock[LabWallet] = u => db'.bought = db.bought /\ db'.used = db.used,
         lock[CreditWallet] = u => db'.credit = db.credit /\ db'.paid = db.paid,
         db.paid \subseteq db'.paid
  PROVE  Standing(u)'
BY DEF Standing, Rows

LEMMA InitInv == Init => Inv
<1> SUFFICES ASSUME Init PROVE Inv
  OBVIOUS
<1>1. TypeOK
  BY AmountsAssumption DEF Init, TypeOK, Database, Transaction, Idle, Steps
<1>2. NeverOverdrawn /\ ToldIsPaid
  BY AmountsAssumption DEF Init, NeverOverdrawn, ToldIsPaid
<1>3. \A u \in Txs : Standing(u)
  BY DEF Init, Standing, Idle
<1> QED BY <1>1, <1>2, <1>3 DEF Inv

(***************************************************************************)
(* A step of one connection that leaves the database alone.                *)
(***************************************************************************)
LEMMA QuietStep ==
  ASSUME Inv, NEW t \in Txs, NEW q \in Transaction, Goto(t, q),
         \/ UNCHANGED lock
         \/ Release(t)
         \/ \E x \in Rows : Free(x) /\ Grab(t, x),
         UNCHANGED <<db, told, minutes, crashes>>, Standing(t)'
  PROVE  Inv'
<1>1. TypeOK'
  BY NamesAssumption DEF Inv, TypeOK, Goto, Release, Grab, Free
<1>2. NeverOverdrawn' /\ ToldIsPaid'
  BY DEF Inv, NeverOverdrawn, ToldIsPaid
<1>3. ASSUME NEW u \in Txs PROVE Standing(u)'
  <2>1. CASE u = t
    BY <2>1
  <2>2. CASE u # t
    <3>1. Standing(u) /\ tx'[u] = tx[u]
      BY <2>2 DEF Inv, TypeOK, Goto
    <3>2. \A x \in Rows : lock[x] = u => lock'[x] = u
      BY <2>2, NamesAssumption DEF Inv, TypeOK, Release, Grab, Free
    <3> QED BY <3>1, <3>2, OthersStand
  <2> QED BY <2>1, <2>2
<1> QED BY <1>1, <1>2, <1>3 DEF Inv

LEMMA IdleTyped == Idle \in Transaction
BY DEF Idle, Transaction, Steps

\* Nothing is promised to a connection at rest.
LEMMA FinishQuiet ==
  ASSUME Inv, NEW t \in Txs, Finish(t), UNCHANGED lock \/ Release(t),
         UNCHANGED <<db, told, minutes, crashes>>
  PROVE  Inv'
<1>1. Standing(t)'
  BY DEF Inv, TypeOK, Standing, Finish, Goto, Idle
<1> QED BY <1>1, IdleTyped, QuietStep DEF Finish

LEMMA BillingQuiet ==
  ASSUME Inv, NEW t \in Txs,
         (\E s \in Sessions : BillBegin(t, s)) \/ BillWallet(t) \/ BillDeduct(t)
  PROVE  Inv'
<1>1. ASSUME NEW s \in Sessions, BillBegin(t, s) PROVE Inv'
  <2> DEFINE q == [Idle EXCEPT !.at = "billWallet", !.sid = s, !.seq = db.billed[s]]
  <2>1. q \in Transaction
    BY <1>1 DEF Inv, TypeOK, Database, Idle, Transaction, Steps
  <2>2. Standing(t)'
    BY <1>1 DEF BillBegin, Inv, TypeOK, Standing, Goto, Idle
  <2>3. s \in Rows
    BY DEF Rows
  <2> QED BY <1>1, <2>1, <2>2, <2>3, QuietStep DEF BillBegin
<1>2. CASE BillWallet(t)
  <2> DEFINE n == Charge(tx[t].seq)
             q == [tx[t] EXCEPT !.at = "billDeduct", !.n = n, !.seq = tx[t].seq + n]
  <2>1. CASE n = 0
    BY <1>2, <2>1, FinishQuiet DEF BillWallet
  <2>2. CASE n # 0
    <3>0. tx[t].seq \in Nat /\ minutes \in Nat /\ db.bought \in Nat /\ db.used \in Nat
      BY DEF Inv, TypeOK, Database, Transaction
    <3>1. n \in 1 .. (db.bought - db.used)
      BY <2>2, <3>0 DEF Inv, NeverOverdrawn, Charge, Least, Greatest
    <3>2. q \in Transaction
      <4>1. n \in Nat /\ tx[t].seq + n \in Nat
        BY <3>0, <3>1
      <4> HIDE DEF n
      <4> QED BY <4>1 DEF Inv, TypeOK, Transaction, Steps
    <3>3. Standing(t)'
      <4>1. tx'[t] = q /\ lock'[LabWallet] = t /\ UNCHANGED db
        BY <1>2, <2>2 DEF BillWallet, Inv, TypeOK, Goto, Grab, Rows
      <4>2. tx[t] \in Transaction /\ tx[t].sid \in Sessions /\ tx[t].deducted # TRUE
        BY <1>2 DEF BillWallet, At, Inv, TypeOK, Standing
      <4>3. q.at = "billDeduct" /\ q.sid = tx[t].sid /\ q.n = n
             /\ q.deducted = tx[t].deducted
        BY <4>2 DEF Transaction
      <4> HIDE DEF n, q
      <4> QED BY <3>1, <4>1, <4>2, <4>3 DEF Standing
    <3>4. LabWallet \in Rows
      BY DEF Rows
    <3> QED BY <1>2, <2>2, <3>2, <3>3, <3>4, QuietStep DEF BillWallet
  <2> QED BY <2>1, <2>2
<1>3. CASE BillDeduct(t)
  <2> DEFINE q == [tx[t] EXCEPT !.at = "billCommit", !.deducted = TRUE]
  <2>1. q \in Transaction
    BY DEF Inv, TypeOK, Transaction, Steps
  <2>2. Standing(t)'
    BY <1>3, NamesAssumption
       DEF BillDeduct, Inv, TypeOK, Transaction, Standing, Goto, Grab, At, Rows
  <2>3. CreditWallet \in Rows
    BY DEF Rows
  <2> QED BY <1>3, <2>1, <2>2, <2>3, QuietStep DEF BillDeduct
<1> QED BY <1>1, <1>2, <1>3

LEMMA BuyingQuiet ==
  ASSUME Inv, NEW t \in Txs,
         (\E p \in Payments : BuyBegin(t, p)) \/ BuyCredit(t) \/ BuyLab(t)
  PROVE  Inv'
<1>1. ASSUME NEW p \in Payments, BuyBegin(t, p) PROVE Inv'
  <2> DEFINE q == [Idle EXCEPT !.at = IF p \in db.paid THEN "answer" ELSE "buyCredit",
                               !.key = p]
  <2>1. q \in Transaction
    BY DEF Idle, Transaction, Steps
  <2>2. Standing(t)'
    BY <1>1 DEF BuyBegin, Inv, TypeOK, Standing, Goto, Idle
  <2> QED BY <1>1, <2>1, <2>2, QuietStep DEF BuyBegin
<1>2. CASE BuyCredit(t)
  <2>1. tx[t] \in Transaction /\ tx[t].at = "buyCredit" /\ tx[t].key \in Payments
         /\ tx[t].deducted # TRUE /\ db.credit \in Nat
    BY <1>2 DEF BuyCredit, At, Inv, TypeOK, Standing, Database
  <2>2. CASE Duplicate(tx[t].key)
    <3>1. [tx[t] EXCEPT !.at = "answer"] \in Transaction
      BY <2>1 DEF Transaction, Steps
    <3>2. Standing(t)'
      BY <1>2, <2>1, <2>2
         DEF BuyCredit, Duplicate, Inv, TypeOK, Transaction, Standing, Goto
    <3> QED BY <1>2, <2>2, <3>1, <3>2, QuietStep DEF BuyCredit
  <2>3. CASE ~Duplicate(tx[t].key)
    <3>1. [tx[t] EXCEPT !.at = "buyLab", !.seen = db.credit] \in Transaction
      BY <2>1 DEF Transaction, Steps
    <3>2. CreditWallet \in Rows
      BY DEF Rows
    <3>3. Standing(t)'
      <4>0. tx'[t] = [tx[t] EXCEPT !.at = "buyLab", !.seen = db.credit]
        BY <1>2, <2>1, <2>3 DEF BuyCredit, Inv, TypeOK, Goto
      <4>1. /\ tx'[t].at = "buyLab" /\ tx'[t].key \in Payments \ db.paid
            /\ tx'[t].seen = db.credit /\ tx'[t].deducted # TRUE
        BY <2>1, <2>3, <4>0 DEF Duplicate, Transaction
      <4>2. lock'[CreditWallet] = t /\ UNCHANGED db
        BY <1>2, <2>1, <2>3, <3>2 DEF BuyCredit, Inv, TypeOK, Grab
      <4> QED BY <4>1, <4>2 DEF Standing
    <3> QED BY <1>2, <2>3, <3>1, <3>2, <3>3, QuietStep DEF BuyCredit
  <2> QED BY <2>2, <2>3
<1>3. CASE BuyLab(t)
  <2>1. tx[t] \in Transaction /\ tx[t].at = "buyLab" /\ tx[t].deducted # TRUE
    BY <1>3 DEF BuyLab, At, Inv, TypeOK, Standing
  <2>2. [tx[t] EXCEPT !.at = "buyCommit"] \in Transaction
    BY <2>1 DEF Transaction, Steps
  <2>3. LabWallet \in Rows
    BY DEF Rows
  <2>4. Standing(t)'
    <3>1. /\ tx'[t].at = "buyCommit"
          /\ tx'[t].key = tx[t].key /\ tx'[t].seen = tx[t].seen
          /\ tx'[t].sid = tx[t].sid /\ tx'[t].deducted # TRUE
          /\ UNCHANGED db
      BY <1>3, <2>1 DEF BuyLab, Inv, TypeOK, Transaction, Goto
    <3>2. lock'[LabWallet] = t /\ lock'[CreditWallet] = lock[CreditWallet]
      BY <1>3, NamesAssumption DEF BuyLab, Inv, TypeOK, Grab, Rows
    <3>3. /\ tx[t].key \in Payments \ db.paid /\ lock[CreditWallet] = t
          /\ tx[t].seen = db.credit
      BY <2>1 DEF Inv, Standing
    <3> QED BY <2>1, <3>1, <3>2, <3>3 DEF Standing
  <2> QED BY <1>3, <2>2, <2>3, <2>4, QuietStep DEF BuyLab
<1> QED BY <1>1, <1>2, <1>3

LEMMA ExtendingQuiet ==
  ASSUME Inv, NEW t \in Txs,
         \/ \E s \in Sessions, k \in ExtKeys : ExtBegin(t, s, k)
         \/ ExtCredit(t) \/ ExtRow(t)
  PROVE  Inv'
<1>1. ASSUME NEW s \in Sessions, NEW k \in ExtKeys, ExtBegin(t, s, k) PROVE Inv'
  <2> DEFINE q == [Idle EXCEPT !.at = IF k \in db.paid THEN "answer" ELSE "extCredit",
                               !.sid = s, !.key = k]
  <2>1. q \in Transaction
    BY DEF Idle, Transaction, Steps
  <2>2. Standing(t)'
    BY <1>1 DEF ExtBegin, Inv, TypeOK, Standing, Goto, Idle
  <2> QED BY <1>1, <2>1, <2>2, QuietStep DEF ExtBegin
<1>2. CASE ExtCredit(t)
  <2>1. tx[t] \in Transaction /\ tx[t].at = "extCredit" /\ tx[t].key \in ExtKeys
         /\ tx[t].sid \in Sessions /\ tx[t].deducted # TRUE /\ db.credit \in Nat
    BY <1>2 DEF ExtCredit, At, Inv, TypeOK, Standing, Database
  <2>2. CASE db.credit < ExtCost \/ Duplicate(tx[t].key)
    BY <1>2, <2>2, FinishQuiet DEF ExtCredit
  <2>3. CASE ~(db.credit < ExtCost \/ Duplicate(tx[t].key))
    <3>1. [tx[t] EXCEPT !.at = "extRow", !.seen = db.credit] \in Transaction
      BY <2>1 DEF Transaction, Steps
    <3>2. CreditWallet \in Rows
      BY DEF Rows
    <3>3. Standing(t)'
      <4>0. tx'[t] = [tx[t] EXCEPT !.at = "extRow", !.seen = db.credit]
        BY <1>2, <2>1, <2>3 DEF ExtCredit, Inv, TypeOK, Goto
      <4>1. /\ tx'[t].at = "extRow" /\ tx'[t].key \in ExtKeys \ db.paid
            /\ tx'[t].seen = db.credit /\ tx'[t].deducted # TRUE /\ tx'[t].sid \in Sessions
        BY <2>1, <2>3, <4>0 DEF Duplicate, Transaction
      <4>2. lock'[CreditWallet] = t /\ UNCHANGED db /\ ExtCost =< db.credit
        BY <1>2, <2>1, <2>3, <3>2, AmountsAssumption DEF ExtCredit, Inv, TypeOK, Grab
      <4> QED BY <4>1, <4>2 DEF Standing
    <3> QED BY <1>2, <2>3, <3>1, <3>2, <3>3, QuietStep DEF ExtCredit
  <2> QED BY <2>2, <2>3
<1>3. CASE ExtRow(t)
  <2>1. tx[t] \in Transaction /\ tx[t].at = "extRow" /\ tx[t].deducted # TRUE
         /\ tx[t].sid \in Sessions
    BY <1>3 DEF ExtRow, At, Inv, TypeOK, Standing
  <2>2. [tx[t] EXCEPT !.at = "extCommit"] \in Transaction
    BY <2>1 DEF Transaction, Steps
  <2>3. tx[t].sid \in Rows /\ CreditWallet # tx[t].sid
    BY <2>1, NamesAssumption DEF Rows
  <2>4. Standing(t)'
    <3>1. /\ tx'[t].at = "extCommit"
          /\ tx'[t].key = tx[t].key /\ tx'[t].seen = tx[t].seen
          /\ tx'[t].sid = tx[t].sid /\ tx'[t].deducted # TRUE
          /\ UNCHANGED db
      BY <1>3, <2>1 DEF ExtRow, Inv, TypeOK, Transaction, Goto
    <3>2. lock'[CreditWallet] = lock[CreditWallet]
      BY <1>3, <2>3 DEF ExtRow, Inv, TypeOK, Grab, Rows
    <3>3. /\ tx[t].key \in ExtKeys \ db.paid /\ lock[CreditWallet] = t
          /\ tx[t].seen = db.credit /\ ExtCost =< tx[t].seen
      BY <2>1 DEF Inv, Standing
    <3> QED BY <2>1, <3>1, <3>2, <3>3 DEF Standing
  <2> QED BY <1>3, <2>2, <2>3, <2>4, QuietStep DEF ExtRow
<1> QED BY <1>1, <1>2, <1>3

\* A failing statement: the transaction ends, or goes on without a step.
LEMMA FailingQuiet ==
  ASSUME Inv, NEW t \in Txs, Deadlock(t) \/ LockTimeout(t)
  PROVE  Inv'
<1>1. tx[t] \in Transaction
  BY DEF Inv, TypeOK
<1>2. CASE Throw(t) /\ UNCHANGED <<db, minutes, told, crashes>>
  BY <1>2, FinishQuiet DEF Throw
<1>3. CASE At(t, "billDeduct") /\ Deadlock(t)
  <2>1. [tx[t] EXCEPT !.at = "bareEntry"] \in Transaction
    BY <1>1 DEF Transaction, Steps
  <2>2. Standing(t)'
    BY <1>1, <1>3 DEF Deadlock, At, Inv, TypeOK, Transaction, Standing, Goto, Release
  <2> QED BY <1>3, <2>1, <2>2, QuietStep DEF Deadlock
<1>4. CASE At(t, "billDeduct") /\ LockTimeout(t)
  <2>1. [tx[t] EXCEPT !.at = "billCommit"] \in Transaction
    BY <1>1 DEF Transaction, Steps
  <2>2. Standing(t)'
    BY <1>1, <1>4 DEF LockTimeout, At, Inv, TypeOK, Transaction, Standing, Goto
  <2> QED BY <1>4, <2>1, <2>2, QuietStep DEF LockTimeout
<1> QED BY <1>2, <1>3, <1>4 DEF Deadlock, LockTimeout

(***************************************************************************)
(* A step that commits: wallets change only under their locks.             *)
(***************************************************************************)
LEMMA WritingStep ==
  ASSUME Inv, NEW t \in Txs, NEW q \in Transaction, Goto(t, q),
         UNCHANGED lock \/ Release(t),
         db' \in Database, db'.used =< db'.bought,
         lock[LabWallet] # t => db'.bought = db.bought /\ db'.used = db.used,
         lock[CreditWallet] # t => db'.credit = db.credit /\ db'.paid = db.paid,
         db.paid \subseteq db'.paid,
         UNCHANGED <<told, minutes, crashes>>, Standing(t)'
  PROVE  Inv'
<1>1. TypeOK'
  BY NamesAssumption DEF Inv, TypeOK, Goto, Release
<1>2. NeverOverdrawn' /\ ToldIsPaid'
  BY DEF Inv, NeverOverdrawn, ToldIsPaid
<1>3. ASSUME NEW u \in Txs PROVE Standing(u)'
  <2>1. CASE u = t
    BY <2>1
  <2>2. CASE u # t
    <3>1. Standing(u) /\ tx'[u] = tx[u]
      BY <2>2 DEF Inv, TypeOK, Goto
    <3>2. \A x \in Rows : lock[x] = u => lock'[x] = u
      BY <2>2, NamesAssumption DEF Inv, TypeOK, Release
    <3> QED BY <2>2, <3>1, <3>2, OthersStand
  <2> QED BY <2>1, <2>2
<1> QED BY <1>1, <1>2, <1>3 DEF Inv

\* An entry of the ledger touches neither wallet.
LEMMA EnteredTyped ==
  ASSUME NEW d \in Database, NEW q \in Transaction, q.sid \in Sessions
  PROVE  /\ Entered(d, q) \in Database
         /\ Entered(d, q).bought = d.bought /\ Entered(d, q).used = d.used
         /\ Entered(d, q).credit = d.credit /\ Entered(d, q).paid = d.paid
         /\ Entered(d, q).billed = d.billed /\ Entered(d, q).extended = d.extended
<1> DEFINE e == [d.entries EXCEPT ![q.sid] = @ \cup {q.seq}]
           b == IF q.seq \in d.entries[q.sid] THEN d.booked ELSE d.booked + q.n
<1>1. e \in [Sessions -> SUBSET Nat] /\ b \in Nat
  BY DEF Database, Transaction
<1>2. Entered(d, q) = [d EXCEPT !.entries = e, !.booked = b]
  BY DEF Entered, Database
<1> HIDE DEF e, b
<1> QED BY <1>1, <1>2 DEF Database

\* What the commits do to the wallets, in one place.
LEMMA BillCommitDoes ==
  ASSUME Inv, NEW t \in Txs, BillCommit(t)
  PROVE  /\ lock[LabWallet] = t /\ tx[t].n \in 1 .. (db.bought - db.used)
         /\ tx[t].deducted = TRUE => lock[CreditWallet] = t
         /\ db' \in Database
         /\ db'.paid = db.paid /\ db'.bought = db.bought
         /\ db'.used = db.used + tx[t].n /\ db'.extended = db.extended
         /\ db'.credit = IF tx[t].deducted = TRUE THEN CreditAfter(tx[t].n)
                         ELSE db.credit
<1> DEFINE q == tx[t]
<1>1. /\ q \in Transaction /\ q.at = "billCommit" /\ db \in Database
      /\ q.sid \in Sessions /\ lock[LabWallet] = t /\ q.n \in 1 .. (db.bought - db.used)
      /\ q.deducted = TRUE => lock[CreditWallet] = t
  BY DEF BillCommit, At, Inv, TypeOK, Standing
<1>2. q.n \in Nat /\ q.seq \in Nat /\ db.used \in Nat /\ db.credit \in Nat
       /\ q.deducted \in BOOLEAN
  BY <1>1 DEF Transaction, Database
<1>3. CreditAfter(q.n) \in Nat /\ db.used + q.n \in Nat
  BY <1>2 DEF CreditAfter, Greatest
<1>4. Entered(db, q) \in Database
  BY <1>1, EnteredTyped
<1> DEFINE c == IF q.deducted THEN CreditAfter(q.n) ELSE db.credit
<1>5. db' = [Entered(db, q) EXCEPT !.used = db.used + q.n, !.credit = c,
                                   !.billed[q.sid] = q.seq]
  BY DEF BillCommit
<1>6. c \in Nat /\ c = IF q.deducted = TRUE THEN CreditAfter(q.n) ELSE db.credit
  BY <1>2, <1>3
<1>7. db' \in Database /\ db'.used = db.used + q.n /\ db'.credit = c
       /\ db'.paid = Entered(db, q).paid /\ db'.bought = Entered(db, q).bought
       /\ db'.extended = Entered(db, q).extended
  <2> HIDE DEF c, q
  <2> QED BY <1>1, <1>2, <1>3, <1>4, <1>5, <1>6 DEF Database
<1>8. Entered(db, q).paid = db.paid /\ Entered(db, q).bought = db.bought
       /\ Entered(db, q).extended = db.extended
  BY <1>1, EnteredTyped
<1> QED BY <1>1, <1>6, <1>7, <1>8

LEMMA BuyCommitDoes ==
  ASSUME Inv, NEW t \in Txs, BuyCommit(t)
  PROVE  /\ lock[LabWallet] = t /\ lock[CreditWallet] = t
         /\ tx[t].key \in Payments \ db.paid
         /\ db' \in Database
         /\ db'.paid = db.paid \cup {tx[t].key} /\ db'.bought = db.bought + Tokens
         /\ db'.used = db.used /\ db'.credit = db.credit + 2 * Tokens
         /\ db'.extended = db.extended
<1>1. /\ tx[t].at = "buyCommit" /\ db \in Database /\ tx[t].key \in Payments \ db.paid
      /\ tx[t].seen = db.credit /\ lock[LabWallet] = t /\ lock[CreditWallet] = t
  BY DEF BuyCommit, At, Inv, TypeOK, Standing
<1>2. db.bought \in Nat /\ db.credit \in Nat /\ Tokens \in Nat
  BY <1>1, AmountsAssumption DEF Database
<1> DEFINE b == db.bought + Tokens
           c == db.credit + 2 * Tokens
<1>3. b \in Nat /\ c \in Nat
  BY <1>2
<1>4. db' = [db EXCEPT !.paid = db.paid \cup {tx[t].key}, !.bought = b, !.credit = c]
  BY <1>1 DEF BuyCommit, Database
<1>5. db' \in Database /\ db'.paid = db.paid \cup {tx[t].key} /\ db'.bought = b
       /\ db'.used = db.used /\ db'.credit = c /\ db'.extended = db.extended
  <2> HIDE DEF b, c
  <2> QED BY <1>1, <1>3, <1>4 DEF Database
<1> QED BY <1>1, <1>5

LEMMA ExtCommitDoes ==
  ASSUME Inv, NEW t \in Txs, ExtCommit(t)
  PROVE  /\ lock[CreditWallet] = t
         /\ tx[t].key \in ExtKeys \ db.paid /\ ExtCost =< db.credit
         /\ db' \in Database
         /\ db'.paid = db.paid \cup {tx[t].key} /\ db'.bought = db.bought
         /\ db'.used = db.used /\ db'.credit = db.credit - ExtCost
         /\ db'.extended = db.extended + 1
<1>1. /\ tx[t].at = "extCommit" /\ db \in Database /\ tx[t].key \in ExtKeys \ db.paid
      /\ tx[t].seen = db.credit /\ ExtCost =< tx[t].seen /\ lock[CreditWallet] = t
  BY DEF ExtCommit, At, Inv, TypeOK, Standing
<1>2. db.extended \in Nat /\ db.credit \in Nat /\ ExtCost \in Nat
  BY <1>1, AmountsAssumption DEF Database
<1> DEFINE e == db.extended + 1
           c == db.credit - ExtCost
<1>3. e \in Nat /\ c \in Nat
  BY <1>1, <1>2
<1>4. db' = [db EXCEPT !.paid = db.paid \cup {tx[t].key}, !.credit = c, !.extended = e]
  BY <1>1 DEF ExtCommit, Database
<1>5. db' \in Database /\ db'.paid = db.paid \cup {tx[t].key} /\ db'.extended = e
       /\ db'.used = db.used /\ db'.credit = c /\ db'.bought = db.bought
  <2> HIDE DEF e, c
  <2> QED BY <1>1, <1>3, <1>4 DEF Database
<1> QED BY <1>1, <1>5

LEMMA BareDoes ==
  ASSUME Inv, NEW t \in Txs, BareEntry(t) \/ BareRow(t)
  PROVE  /\ db' \in Database /\ db'.paid = db.paid /\ db'.bought = db.bought
         /\ db'.used = db.used /\ db'.credit = db.credit /\ db'.extended = db.extended
<1>1. tx[t] \in Transaction /\ db \in Database /\ tx[t].sid \in Sessions
  BY DEF BareEntry, BareRow, At, Inv, TypeOK, Standing
<1>2. CASE BareEntry(t)
  BY <1>1, <1>2, EnteredTyped DEF BareEntry
<1>3. CASE BareRow(t)
  BY <1>1, <1>3 DEF BareRow, Database, Transaction
<1> QED BY <1>2, <1>3

\* At rest again, or about to answer what is in the database.
LEMMA AtRest ==
  ASSUME Inv, NEW t \in Txs, Finish(t)
  PROVE  Standing(t)'
BY DEF Inv, TypeOK, Standing, Finish, Goto, Idle

LEMMA AboutToAnswer ==
  ASSUME Inv, NEW t \in Txs, NEW k \in db'.paid,
         Goto(t, [Idle EXCEPT !.at = "answer", !.key = k])
  PROVE  Standing(t)'
BY DEF Inv, TypeOK, Standing, Goto, Idle

LEMMA Committing ==
  ASSUME Inv, NEW t \in Txs,
         BillCommit(t) \/ BareEntry(t) \/ BareRow(t) \/ BuyCommit(t) \/ ExtCommit(t)
  PROVE  Inv'
<1>1. db.used \in Nat /\ db.bought \in Nat /\ db.used =< db.bought /\ Tokens \in Nat
       /\ tx[t] \in Transaction
  BY AmountsAssumption DEF Inv, TypeOK, Database, NeverOverdrawn
<1>2. CASE BillCommit(t)
  <2>1. Standing(t)'
    BY <1>2, AtRest DEF BillCommit
  <2>2. db.used + tx[t].n =< db.bought
    <3>1. tx[t].n \in 1 .. (db.bought - db.used)
      BY <1>2, BillCommitDoes
    <3> QED BY <1>1, <3>1
  <2>3. tx[t].deducted # TRUE => db'.credit = db.credit
    BY <1>2, BillCommitDoes
  <2> QED
    BY <1>2, <2>1, <2>2, <2>3, BillCommitDoes, IdleTyped, WritingStep
       DEF BillCommit, Finish
<1>3. CASE BareEntry(t)
  <2>1. [tx[t] EXCEPT !.at = "bareRow"] \in Transaction
    BY <1>1 DEF Transaction, Steps
  <2>2. Standing(t)'
    BY <1>1, <1>3 DEF BareEntry, At, Inv, TypeOK, Transaction, Standing, Goto
  <2> QED BY <1>1, <1>3, <2>1, <2>2, BareDoes, WritingStep DEF BareEntry
<1>4. CASE BareRow(t)
  <2>1. Standing(t)'
    BY <1>4, AtRest DEF BareRow
  <2> QED BY <1>1, <1>4, <2>1, BareDoes, IdleTyped, WritingStep DEF BareRow, Finish
<1>5. CASE BuyCommit(t)
  <2> DEFINE q == [Idle EXCEPT !.at = "answer", !.key = tx[t].key]
  <2>1. Standing(t)'
    BY <1>5, BuyCommitDoes, AboutToAnswer DEF BuyCommit
  <2>2. q \in Transaction
    BY <1>1 DEF Idle, Transaction, Steps
  <2>3. db.used =< db.bought + Tokens
    BY <1>1
  <2> QED BY <1>5, <2>1, <2>2, <2>3, BuyCommitDoes, WritingStep DEF BuyCommit
<1>6. CASE ExtCommit(t)
  <2> DEFINE q == [Idle EXCEPT !.at = "answer", !.key = tx[t].key]
  <2>1. Standing(t)'
    BY <1>6, ExtCommitDoes, AboutToAnswer DEF ExtCommit
  <2>2. q \in Transaction
    BY <1>1 DEF Idle, Transaction, Steps
  <2> QED BY <1>1, <1>6, <2>1, <2>2, ExtCommitDoes, WritingStep DEF ExtCommit
<1> QED BY <1>2, <1>3, <1>4, <1>5, <1>6

LEMMA NextInv == Inv /\ [Next]_vars => Inv'
<1> SUFFICES ASSUME Inv, [Next]_vars PROVE Inv'
  OBVIOUS
<1>1. ASSUME NEW t \in Txs, Billing(t) PROVE Inv'
  BY <1>1, BillingQuiet, Committing DEF Billing
<1>2. ASSUME NEW t \in Txs, Buying(t) PROVE Inv'
  <2>1. CASE Answer(t)
    <3>1. Standing(t)
      BY DEF Inv
    <3>2. tx[t].key \in db.paid /\ db.paid \subseteq Payments \cup ExtKeys
      BY <2>1, <3>1 DEF Answer, At, Standing, Inv, TypeOK, Database
    <3>3. TypeOK' /\ NeverOverdrawn' /\ ToldIsPaid'
      BY <2>1, <3>2, IdleTyped
         DEF Answer, Finish, Goto, Inv, TypeOK, NeverOverdrawn, ToldIsPaid
    <3>4. ASSUME NEW u \in Txs, u # t PROVE Standing(u)'
      <4>1. Standing(u) /\ tx'[u] = tx[u]
        BY <2>1, <3>4 DEF Answer, Finish, Goto, Inv, TypeOK
      <4> QED BY <2>1, <4>1, OthersStand DEF Answer
    <3>5. Standing(t)'
      BY <2>1, AtRest DEF Answer
    <3> QED BY <3>3, <3>4, <3>5 DEF Inv
  <2> QED BY <1>2, <2>1, BuyingQuiet, Committing DEF Buying
<1>3. ASSUME NEW t \in Txs, Extending(t) PROVE Inv'
  BY <1>3, ExtendingQuiet, Committing DEF Extending
<1>4. ASSUME NEW t \in Txs, Deadlock(t) \/ LockTimeout(t) PROVE Inv'
  BY <1>4, FailingQuiet
<1>5. CASE Crash
  <2>1. TypeOK' /\ NeverOverdrawn' /\ ToldIsPaid'
    BY <1>5, IdleTyped DEF Crash, Inv, TypeOK, NeverOverdrawn, ToldIsPaid
  <2>2. ASSUME NEW u \in Txs PROVE Standing(u)'
    <3>1. tx'[u] = Idle
      BY <1>5 DEF Crash
    <3> QED BY <3>1 DEF Standing, Idle
  <2> QED BY <2>1, <2>2 DEF Inv
<1>6. CASE Minute
  BY <1>6 DEF Minute, Inv, TypeOK, NeverOverdrawn, ToldIsPaid, Standing
<1>7. CASE UNCHANGED vars
  BY <1>7 DEF vars, Inv, TypeOK, NeverOverdrawn, ToldIsPaid, Standing
<1> QED BY <1>1, <1>2, <1>3, <1>4, <1>5, <1>6, <1>7 DEF Next

\* Whatever stands between two statements keeps what it relies on.
THEOREM TransactionsStand == Spec => []Inv
BY InitInv, NextInv, PTL DEF Spec

\* Rows, locks and connections keep their types.
THEOREM TransactionsTyped == Spec => []TypeOK
<1>1. Inv => TypeOK
  BY DEF Inv
<1> QED BY <1>1, TransactionsStand, PTL

\* However billing, purchases and extensions interleave, deadlock, time out
\* and die, the lab wallet gives up no more than was bought.
THEOREM WalletHolds == Spec => []NeverOverdrawn
<1>1. Inv => NeverOverdrawn
  BY DEF Inv
<1> QED BY <1>1, TransactionsStand, PTL

\* A client that was told of success finds its payment in the database.
THEOREM SuccessIsDurable == Spec => []ToldIsPaid
<1>1. Inv => ToldIsPaid
  BY DEF Inv
<1> QED BY <1>1, TransactionsStand, PTL

(***************************************************************************)
(* What a step can do to the wallets at all.                               *)
(***************************************************************************)
\* The four outcomes of a step for the money; k is the key of a transaction.
Moved(k) ==
  \/ /\ db'.paid = db.paid /\ db'.bought = db.bought /\ db'.used = db.used
     /\ db'.credit = db.credit /\ db'.extended = db.extended
  \/ /\ k \in Payments \ db.paid /\ db'.paid = db.paid \cup {k}
     /\ db'.bought = db.bought + Tokens /\ db'.used = db.used
     /\ db'.credit = db.credit + 2 * Tokens /\ db'.extended = db.extended
  \/ /\ k \in ExtKeys \ db.paid /\ db'.paid = db.paid \cup {k}
     /\ db'.bought = db.bought /\ db'.used = db.used
     /\ db'.credit = db.credit - ExtCost /\ db'.extended = db.extended + 1
  \/ /\ db'.paid = db.paid /\ db'.bought = db.bought
     /\ db'.used \in (db.used + 1) .. db.bought
     /\ db'.credit + db'.used >= db.credit + db.used
     /\ db'.extended = db.extended

LEMMA StepMoves == Inv /\ [Next]_vars => \E k \in {tx[t].key : t \in Txs} \cup {Nobody} : Moved(k)
<1> SUFFICES ASSUME Inv, [Next]_vars
             PROVE  \E k \in {tx[t].key : t \in Txs} \cup {Nobody} : Moved(k)
  OBVIOUS
<1>1. CASE UNCHANGED db
  BY <1>1 DEF Moved
<1>2. ASSUME NEW t \in Txs, BillCommit(t) PROVE Moved(tx[t].key)
  <2>1. db.used \in Nat /\ db.bought \in Nat /\ db.credit \in Nat
    BY DEF Inv, TypeOK, Database
  <2> DEFINE n == tx[t].n
  <2>2. n \in 1 .. (db.bought - db.used) /\ db'.used = db.used + n
    BY <1>2, BillCommitDoes
  <2>3. db'.credit = IF tx[t].deducted = TRUE THEN CreditAfter(n) ELSE db.credit
    BY <1>2, BillCommitDoes
  <2>4. db'.paid = db.paid /\ db'.bought = db.bought /\ db'.extended = db.extended
    BY <1>2, BillCommitDoes
  <2> HIDE DEF n
  <2>5. db'.used \in (db.used + 1) .. db.bought
    BY <2>1, <2>2
  <2>6. db'.credit + db'.used >= db.credit + db.used
    BY <2>1, <2>2, <2>3 DEF CreditAfter, Greatest
  <2> QED BY <2>4, <2>5, <2>6 DEF Moved
<1>3. ASSUME NEW t \in Txs, BuyCommit(t) PROVE Moved(tx[t].key)
  BY <1>3, BuyCommitDoes DEF Moved
<1>4. ASSUME NEW t \in Txs, ExtCommit(t) PROVE Moved(tx[t].key)
  BY <1>4, ExtCommitDoes DEF Moved
<1>5. ASSUME NEW t \in Txs, BareEntry(t) \/ BareRow(t) PROVE Moved(tx[t].key)
  BY <1>5, BareDoes DEF Moved
<1>6. \/ UNCHANGED db
      \/ \E t \in Txs : \/ BillCommit(t) \/ BuyCommit(t) \/ ExtCommit(t)
                        \/ BareEntry(t) \/ BareRow(t)
  BY DEF Next, vars, Billing, Buying, Extending, BillBegin, BillWallet, BillDeduct,
         BuyBegin, BuyCredit, BuyLab, Answer, ExtBegin, ExtCredit, ExtRow, Deadlock,
         LockTimeout, Crash, Minute
<1> QED BY <1>1, <1>2, <1>3, <1>4, <1>5, <1>6

(***************************************************************************)
(* The transactions keep the promise of the wallet.                        *)
(***************************************************************************)
\* Every step, with its locks, deadlocks and retries, delivers one payment,
\* uses tokens that are there, or is invisible to the promise.
THEOREM PromiseKept == Spec => KeepsPromise
<1>1. Init => Promise!Init
  BY DEF Init, Promise!Init
<1>2. Inv /\ [Next]_vars =>
        [Promise!Next]_<<db.paid \cap Payments, db.bought, db.used>>
  <2> SUFFICES ASSUME Inv, [Next]_vars
               PROVE  [Promise!Next]_<<db.paid \cap Payments, db.bought, db.used>>
    OBVIOUS
  <2>1. PICK k \in {tx[t].key : t \in Txs} \cup {Nobody} : Moved(k)
    BY StepMoves
  <2>2. Payments \cap ExtKeys = {}
    BY NamesAssumption
  <2> QED BY <2>1, <2>2
       DEF Moved, Promise!Next, Promise!Use, Promise!Deliver
<1> QED BY <1>1, <1>2, TransactionsStand, PTL DEF Spec, KeepsPromise, Promise!Spec

(***************************************************************************)
(* The books: what was paid for is in the wallets, and no update is lost.  *)
(***************************************************************************)
Books ==
  /\ IsFiniteSet(db.paid \cap Payments) /\ IsFiniteSet(db.paid \cap ExtKeys)
  /\ PaidForOnce /\ ExtendedIsPaid /\ NoCreditLost

LEMMA InitBooks == Init => Books
<1> SUFFICES ASSUME Init PROVE Books
  OBVIOUS
<1>1. db.paid \cap Payments = {} /\ db.paid \cap ExtKeys = {}
  BY DEF Init
<1> QED BY <1>1, FS_EmptySet, AmountsAssumption
     DEF Init, Books, PaidForOnce, ExtendedIsPaid, NoCreditLost

\* A key more in one of two disjoint sets.
LEMMA CountOne ==
  ASSUME NEW P, NEW A, NEW B, NEW k \in A \ P, A \cap B = {},
         IsFiniteSet(P \cap A)
  PROVE  /\ IsFiniteSet((P \cup {k}) \cap A)
         /\ Cardinality((P \cup {k}) \cap A) = Cardinality(P \cap A) + 1
         /\ (P \cup {k}) \cap B = P \cap B
<1>1. (P \cup {k}) \cap A = (P \cap A) \cup {k} /\ (P \cup {k}) \cap B = P \cap B
  OBVIOUS
<1> QED BY <1>1, FS_AddElement

LEMMA NextBooks == Inv /\ Books /\ [Next]_vars => Books'
<1> SUFFICES ASSUME Inv, Books, [Next]_vars PROVE Books'
  OBVIOUS
<1>1. PICK k \in {tx[t].key : t \in Txs} \cup {Nobody} : Moved(k)
  BY StepMoves
<1> DEFINE p == Cardinality(db.paid \cap Payments)
           e == Cardinality(db.paid \cap ExtKeys)
<1>2. p \in Nat /\ e \in Nat
  BY FS_CardinalityType DEF Books
<1>3. db.bought \in Nat /\ db.used \in Nat /\ db.credit \in Nat /\ db.extended \in Nat
  BY DEF Inv, TypeOK, Database
<1>4. Tokens \in Nat /\ ExtCost \in Nat /\ InitialTokens \in Nat /\ InitialCredits \in Nat
  BY AmountsAssumption
<1>5. Payments \cap ExtKeys = {} /\ ExtKeys \cap Payments = {}
  BY NamesAssumption
<1>6. CASE k \in Payments \ db.paid /\ db'.paid = db.paid \cup {k}
           /\ db'.bought = db.bought + Tokens /\ db'.used = db.used
           /\ db'.credit = db.credit + 2 * Tokens /\ db'.extended = db.extended
  <2>1. /\ IsFiniteSet(db'.paid \cap Payments)
        /\ Cardinality(db'.paid \cap Payments) = p + 1
        /\ db'.paid \cap ExtKeys = db.paid \cap ExtKeys
    <3>1. /\ IsFiniteSet((db.paid \cup {k}) \cap Payments)
          /\ Cardinality((db.paid \cup {k}) \cap Payments) = p + 1
          /\ (db.paid \cup {k}) \cap ExtKeys = db.paid \cap ExtKeys
      BY <1>5, <1>6, CountOne DEF Books
    <3> QED BY <1>6, <3>1
  <2>2. Tokens * (p + 1) = Tokens * p + Tokens
        /\ 2 * Tokens * (p + 1) = 2 * Tokens * p + 2 * Tokens
        /\ ExtCost * e \in Nat /\ Tokens * p \in Nat /\ 2 * Tokens * p \in Nat
    BY <1>2, <1>4
  <2>3. /\ db.bought = InitialTokens + Tokens * p /\ db.extended = e
        /\ db.credit + db.used + ExtCost * e >= InitialCredits + 2 * Tokens * p
    BY DEF Books, PaidForOnce, ExtendedIsPaid, NoCreditLost
  <2>4. /\ db'.bought = InitialTokens + Tokens * (p + 1) /\ db'.extended = e
        /\ db'.credit + db'.used + ExtCost * e >= InitialCredits + 2 * Tokens * (p + 1)
    <3> HIDE DEF p, e
    <3> QED BY <1>2, <1>3, <1>4, <1>6, <2>2, <2>3
  <2> QED BY <2>1, <2>4 DEF Books, PaidForOnce, ExtendedIsPaid, NoCreditLost
<1>7. CASE k \in ExtKeys \ db.paid /\ db'.paid = db.paid \cup {k}
           /\ db'.bought = db.bought /\ db'.used = db.used
           /\ db'.credit = db.credit - ExtCost /\ db'.extended = db.extended + 1
  <2>1. /\ IsFiniteSet(db'.paid \cap ExtKeys)
        /\ Cardinality(db'.paid \cap ExtKeys) = e + 1
        /\ db'.paid \cap Payments = db.paid \cap Payments
    BY <1>5, <1>7, CountOne DEF Books
  <2>2. ExtCost * (e + 1) = ExtCost * e + ExtCost
        /\ ExtCost * e \in Nat /\ 2 * Tokens * p \in Nat
    BY <1>2, <1>4
  <2>3. /\ db.bought = InitialTokens + Tokens * p /\ db.extended = e
        /\ db.credit + db.used + ExtCost * e >= InitialCredits + 2 * Tokens * p
    BY DEF Books, PaidForOnce, ExtendedIsPaid, NoCreditLost
  <2>4. /\ db'.bought = InitialTokens + Tokens * p /\ db'.extended = e + 1
        /\ db'.credit + db'.used + ExtCost * (e + 1) >= InitialCredits + 2 * Tokens * p
    <3> HIDE DEF p, e
    <3> QED BY <1>2, <1>3, <1>4, <1>7, <2>2, <2>3
  <2> QED BY <2>1, <2>4 DEF Books, PaidForOnce, ExtendedIsPaid, NoCreditLost
<1>8. CASE db'.paid = db.paid /\ db'.bought = db.bought /\ db'.extended = db.extended
           /\ db'.credit + db'.used >= db.credit + db.used
           /\ db'.credit \in Nat /\ db'.used \in Nat
  <2>1. ExtCost * e \in Nat /\ 2 * Tokens * p \in Nat
    BY <1>2, <1>4
  <2>2. db.credit + db.used + ExtCost * e >= InitialCredits + 2 * Tokens * p
    BY DEF Books, NoCreditLost
  <2>3. db'.credit + db'.used + ExtCost * e >= InitialCredits + 2 * Tokens * p
    <3> HIDE DEF p, e
    <3> QED BY <1>3, <1>4, <1>8, <2>1, <2>2
  <2> QED BY <1>8, <2>3 DEF Books, PaidForOnce, ExtendedIsPaid, NoCreditLost
<1>9. db'.credit \in Nat /\ db'.used \in Nat
  BY NextInv DEF Inv, TypeOK, Database
<1> QED BY <1>1, <1>3, <1>6, <1>7, <1>8, <1>9 DEF Moved

LEMMA BooksHold == Spec => []Books
BY InitBooks, NextBooks, TransactionsStand, PTL DEF Spec

\* A payment verified any number of times, also at once, puts its tokens in
\* exactly once.
THEOREM CreditedOnce == Spec => []PaidForOnce
<1>1. Books => PaidForOnce
  BY DEF Books
<1> QED BY <1>1, BooksHold, PTL

\* An extension that fails half way has neither its price nor its effect.
THEOREM ExtensionAtomic == Spec => []ExtendedIsPaid
<1>1. Books => ExtendedIsPaid
  BY DEF Books
<1> QED BY <1>1, BooksHold, PTL

\* No absolute write of a balance undoes a relative one.
THEOREM NoUpdateLost == Spec => []NoCreditLost
<1>1. Books => NoCreditLost
  BY DEF Books
<1> QED BY <1>1, BooksHold, PTL
=============================================================================
