---------------------------- MODULE UsageBilling ----------------------------
(***************************************************************************)
(* UsageBillingService and the repositories it writes through.             *)
(*                                                                         *)
(* billSession and finalizeSessionBilling are database transactions that   *)
(* lock the session row and then the wallet row (FOR UPDATE): each of them *)
(* is one atomic step.                                                     *)
(***************************************************************************)
EXTENDS LabSessions

Least(a, b)    == IF a =< b THEN a ELSE b
Greatest(a, b) == IF a >= b THEN a ELSE b

Elapsed(s)   == Greatest(0, now - row[s].startedAt)

\* Mutant: the allocation is not looked at.
AllocationIgnored(s) == FALSE
WithinAllocated(s) == row[s].expiresAt > now

\* Whole minutes billSession has not billed. Negative when StartedAt was
\* stamped again after tokens had been billed.
Unbilled(s) == (Elapsed(s) - row[s].billedTicks) \div 2

\* Minutes run in all under the 30-second rule, less those already billed.
RoundedMinutes(s) == (Elapsed(s) \div 2) + (Elapsed(s) % 2)

\* Mutants: the status is not looked at; tokens billed are not taken off.
OutstandingInAnyStatus(s) == Greatest(0, RoundedMinutes(s) - row[s].billedTokens)
OutstandingInAll(s) == IF row[s].status \in Metered THEN RoundedMinutes(s) ELSE 0
Outstanding(s) ==
  IF row[s].status \in Metered
    THEN Greatest(0, RoundedMinutes(s) - row[s].billedTokens)
    ELSE 0

\* The tokens the wallet can give up for so many minutes.
\* Mutant: as many as there are minutes.
PayableInFull(minutes) == minutes
Payable(minutes) == Least(minutes, Remaining(wallet))

\* The billed columns of the session row.
\* Mutants: the seconds are forgotten; all minutes run, rounded up, count as
\* billed whatever the wallet paid.
BilledTokensOnly(r, n) == [r EXCEPT !.billedTokens = @ + n]
BilledAsRun(r, n) ==
  [r EXCEPT !.billedTokens = (Greatest(0, now - r.startedAt) + 1) \div 2,
            !.billedTicks = Greatest(0, now - r.startedAt)]
Billed(r, n) == [r EXCEPT !.billedTokens = @ + n, !.billedTicks = @ + 2 * n]

\* The balance of the credit wallet after a charge.
\* Mutant: it is not kept from going below zero.
CreditUnclamped(n) == credit - n
CreditAfter(n) == Greatest(0, credit - n)

\* The USAGE entries of a session: one is kept if its key is new.
\* Mutant: the minutes are entered, not the tokens paid for them.
BookedMinutes(s, n, key) == IF key \in keys[s] THEN booked[s] ELSE booked[s] + Unbilled(s)
Booked(s, n, key) == IF key \in keys[s] THEN booked[s] ELSE booked[s] + n

\* consumeWalletTokens, createTransaction and insertUsage: the wallet always
\* pays, whether or not the ledger keeps the entry.
Consume(s, n, key) ==
  /\ wallet'  = [wallet EXCEPT !.consumed = @ + n]
  /\ credit'  = CreditAfter(n)
  /\ charged' = [charged EXCEPT ![s] = @ + n]
  /\ keys'    = [keys EXCEPT ![s] = @ \cup {key}]
  /\ booked'  = [booked EXCEPT ![s] = Booked(s, n, key)]
  /\ UNCHANGED extUsed

NoCharge == UNCHANGED <<wallet, credit, charged, keys, booked, extUsed>>

QueueStop(s) == job' = [job EXCEPT ![s] = IF @ = "none" THEN "queued" ELSE @]

\* Set STOPPING and ask for the containers to be stopped.
Exhaust(s) ==
  /\ SetStatus(s, "STOPPING")
  /\ QueueStop(s)

(***************************************************************************)
(* billSession                                                             *)
(***************************************************************************)
\* Mutant: only a session that the process has a record of.
PromoteOnRecord(s) ==
  /\ row[s].status = "STARTING" /\ mem[s].status # "none"
  /\ now - Greatest(row[s].createdAt, row[s].startedAt) >= PromoteTicks
  /\ row' = [row EXCEPT ![s] = Started(row[s], row[s].allocated)]
  /\ NoCharge /\ UNCHANGED <<job, rounded>>

\* A session STARTING for 40 seconds is taken to run. Its expiry is judged
\* by the ExpiresAt read before the update.
Promote(s) ==
  /\ row[s].status = "STARTING"
  /\ now - Greatest(row[s].createdAt, row[s].startedAt) >= PromoteTicks
  /\ IF ~IsAdmin /\ ~HasWallet /\ ~WithinAllocated(s)
       THEN /\ row' = [row EXCEPT ![s] =
                         [Started(row[s], row[s].allocated) EXCEPT !.status = "STOPPING"]]
            /\ QueueStop(s)
       ELSE /\ row' = [row EXCEPT ![s] = Started(row[s], row[s].allocated)]
            /\ UNCHANGED job
  /\ NoCharge /\ UNCHANGED rounded

\* No wallet, or a wallet with nothing left, and the allocated time is over.
BillNothingLeft(s) ==
  /\ row[s].status \in Metered /\ ~IsAdmin /\ ~WithinAllocated(s)
  /\ ~HasWallet \/ (Unbilled(s) # 0 /\ Remaining(wallet) = 0)
  /\ Exhaust(s)
  /\ NoCharge /\ UNCHANGED rounded

BillMinutes(s) ==
  LET n     == Payable(Unbilled(s))
      seq   == row[s].billedTokens + n
      after == Greatest(0, Remaining(wallet) - n)
      stop  == after = 0 /\ ~WithinAllocated(s)
  IN
  /\ row[s].status \in Metered /\ ~IsAdmin /\ HasWallet
  /\ Unbilled(s) # 0
  /\ Remaining(wallet) > 0 \/ WithinAllocated(s)
  /\ row' = [row EXCEPT ![s] =
               [Billed(row[s], n) EXCEPT
                  !.warned = after =< LowBalance,
                  !.status = IF stop THEN "STOPPING" ELSE row[s].status]]
  /\ IF n > 0 THEN Consume(s, n, <<seq, "bill">>) ELSE NoCharge
  /\ IF stop THEN QueueStop(s) ELSE UNCHANGED job
  /\ UNCHANGED rounded

BillSession(s) ==
  /\ "billing" \in Timers
  /\ Promote(s) \/ BillNothingLeft(s) \/ BillMinutes(s)
  /\ UNCHANGED <<now, mem, task, expiring, lapsing, req, restarts>>

(***************************************************************************)
(* finalizeSessionBilling                                                  *)
(***************************************************************************)
\* Leaves money and row alone once the row is STOPPED or FAILED; otherwise
\* charges what is outstanding and moves the row to STOPPING.
FinalizeBilling(s) ==
  LET n   == IF HasWallet THEN Payable(Outstanding(s)) ELSE 0
      seq == row[s].billedTokens + n
  IN
  \/ /\ row[s].status \in {"NONE", "STOPPED", "FAILED"}
     /\ NoCharge /\ UNCHANGED <<row, rounded>>
  \/ /\ row[s].status \notin {"NONE", "STOPPED", "FAILED"}
     /\ IsAdmin \/ n = 0
     /\ SetStatus(s, "STOPPING")
     /\ NoCharge /\ UNCHANGED rounded
  \/ /\ row[s].status \notin {"NONE", "STOPPED", "FAILED"}
     /\ ~IsAdmin /\ n > 0
     /\ row' = [row EXCEPT ![s] = [Billed(row[s], n) EXCEPT !.status = "STOPPING"]]
     /\ Consume(s, n, <<seq, "final">>)
     /\ rounded' = [rounded EXCEPT ![s] = @ + (Elapsed(s) % 2)]
=============================================================================
