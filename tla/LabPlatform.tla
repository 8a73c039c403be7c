---------------------------- MODULE LabPlatform ----------------------------
(***************************************************************************)
(* Handlers, workers and their surroundings composed, and what they are    *)
(* meant to guarantee together.                                            *)
(***************************************************************************)
EXTENDS SessionHandlers

SumOf == INSTANCE Functions
Total(f, S) == SumOf!FoldFunctionOnSet(LAMBDA x, y : x + y, 0, f, S)

Init ==
  /\ now = 0
  /\ row = [s \in Sessions |-> NoRow]
  /\ wallet = [exists |-> InitialTokens > 0,
               purchased |-> InitialTokens, consumed |-> 0]
  /\ credit = InitialCredits
  /\ extUsed = {}
  /\ keys = [s \in Sessions |-> {}]
  /\ booked = [s \in Sessions |-> 0]
  /\ charged = [s \in Sessions |-> 0]
  /\ rounded = [s \in Sessions |-> 0]
  /\ mem = [s \in Sessions |-> NoMem]
  /\ task = [s \in Sessions |-> "none"]
  /\ job = [s \in Sessions |-> "none"]
  /\ expiring = {}
  /\ lapsing = [s \in Sessions |-> "no"]
  /\ req = [r \in Requests |-> Idle]
  /\ restarts = 0

Next == Handlers \/ Workers \/ Environment

Spec == Init /\ [][Next]_vars

(***************************************************************************)
(* Fairness. Timers fire again and again and the clock advances, so every  *)
(* worker step that stays possible is taken; a handler that is past an     *)
(* await resumes. Nothing makes a client send a request, a container come  *)
(* up, or anything fail.                                                   *)
(***************************************************************************)
Fairness ==
  /\ WF_vars(Tick) /\ WF_vars(ExpiryScan) /\ WF_vars(LapseScan)
  /\ \A s \in Sessions :
       /\ WF_vars(BillSession(s))
       /\ WF_vars(ProcessStopCall(s)) /\ WF_vars(ProcessStopWrite(s))
       /\ WF_vars(StopCycle(s)) /\ WF_vars(ExpiryStop(s))
       /\ WF_vars(LapseCall(s)) /\ WF_vars(LapseMark(s)) /\ WF_vars(SyncMark(s))
       /\ WF_vars(CleanupRecord(s))
  /\ \A r \in Requests :
       /\ WF_vars(StartRefuse(r) \/ StartCommit(r) \/ StartLocal(r)
                    \/ StartLaunch(r) \/ StartSaveArn(r) \/ SaveArnFails(r))
       /\ WF_vars(GetMark(r)) /\ WF_vars(GetDead(r) \/ GetRunning(r) \/ GetAnswer(r))
       /\ WF_vars(ExtendCommit(r)) /\ WF_vars(ListFinish(r))
       /\ WF_vars(StopTask(r)) /\ WF_vars(StopMark(r))

FairSpec == Spec /\ Fairness

(***************************************************************************)
(* Types                                                                   *)
(***************************************************************************)
\* Every store holds the kind of value its schema and the code put there.
TypeOK ==
  /\ now \in Nat
  /\ row \in [Sessions -> SessionRow]
  /\ wallet \in [exists : BOOLEAN, purchased : Nat, consumed : Nat]
  /\ credit \in Nat
  /\ extUsed \subseteq ExtKeys
  /\ keys \in [Sessions -> SUBSET (Int \X {"bill", "final"})]
  /\ booked \in [Sessions -> Nat]
  /\ charged \in [Sessions -> Nat]
  /\ rounded \in [Sessions -> Nat]
  /\ mem \in [Sessions -> MemRecord]
  /\ task \in [Sessions -> TaskStates]
  /\ job \in [Sessions -> JobStates]
  /\ expiring \subseteq Sessions
  /\ lapsing \in [Sessions -> Lapsing]
  /\ req \in [Requests -> Request]
  /\ restarts \in Nat

(***************************************************************************)
(* Safety: money                                                           *)
(***************************************************************************)
\* However billing, finalization and purchases interleave over the sessions
\* that share a wallet, it never gives up more tokens than were bought.
NeverOverdrawn == wallet.consumed =< wallet.purchased

\* BilledSeconds is an unsigned column kept beside BilledTokens by two
\* services: whatever restarts of the meter and corrections downwards
\* happen, it stays sixty times BilledTokens and never goes below zero.
BilledColumnsAgree ==
  \A s \in Sessions : /\ row[s].billedTicks = 2 * row[s].billedTokens
                      /\ row[s].billedTokens >= 0

\* The tokens a session has cost never exceed the minutes since it was
\* created, but for one token for each finalization that rounded a half
\* minute up: restarts of the meter, concurrent stops and billing cycles,
\* and sessions brought back after their end charge no minute twice.
ChargesBounded ==
  \A s \in Sessions : 2 * charged[s] =< (now - row[s].createdAt) + 2 * rounded[s]

\* The ledger never shows more usage than the wallet gave up.
LedgerWithinWallet == \A s \in Sessions : booked[s] =< charged[s]

\* Sessions that share a wallet are billed one at a time from what the
\* others have left: together they never show more billed tokens than the
\* wallet gave up, also when a meter is restarted under them.
BilledWithinWallet ==
  Total([s \in Sessions |-> row[s].billedTokens], Sessions) =< wallet.consumed

\* A retried or concurrent extension request pays once for each key: what
\* left the credit wallet is the lab usage and one cost for each key. A
\* purchase puts its tokens there twice; an empty wallet absorbs usage.
ExtensionPaidOncePerKey ==
  credit + Cardinality(extUsed) * ExtCost + wallet.consumed
    >= InitialCredits + 2 * (wallet.purchased - InitialTokens)

(***************************************************************************)
(* Safety: a step of the system                                            *)
(***************************************************************************)
\* Tokens are charged only to a session that was metered: never for the time
\* a container is STARTING, never after the end.
ChargedOnlyWhileMetered ==
  [][\A s \in Sessions : charged'[s] # charged[s] => row[s].status \in Metered]_vars

\* Until when billing leaves a session alone: an extension that had read the
\* row before the meter was started moves the end forward, and still leaves
\* the session the minutes of one extension.
PaidUntil(s) ==
  IF extUsed = {} THEN row[s].tokenExpiryAt
  ELSE Least(row[s].tokenExpiryAt, row[s].startedAt + 2 * ExtMinutes)

\* Two sessions can drain one wallet between them, and still the billing
\* worker ends neither inside the time it was allocated: that takes a stop
\* request or the expiry worker.
BillingKeepsAllocatedTime ==
  [][\A s \in Sessions :
       (row[s].status \in Metered /\ row'[s].status = "STOPPING" /\ now < PaidUntil(s)
          /\ req' = req)
         => s \in expiring]_vars

\* Where clients only start, list and stop sessions in containers, a session
\* that is over is never active again, though workers and handlers write its
\* status without looking at it.
EndedStaysEnded ==
  [][\A s \in Sessions :
       row[s].status \notin Active \cup {"NONE"} => row'[s].status \notin Active]_vars

\* A task that runs is in its row, or the request that started it is about
\* to write it there: nothing else could ever stop it.
TasksAreRecorded ==
  \A s \in Sessions :
    task[s] \in LiveTask =>
      row[s].arn \/ \E r \in Requests : At(r, "startSaveArn") /\ req[r].sid = s

(***************************************************************************)
(* Liveness                                                                *)
(***************************************************************************)
\* STOPPING is a passing state: some stop is carried through, also when the
\* process restarts in between.
StoppingDrains ==
  \A s \in Sessions : row[s].status = "STOPPING" ~> row[s].status # "STOPPING"

\* So is STARTING, in which the student can start nothing else: a session
\* leaves it within the model's clock, also when the process restarts between
\* its row and its container, or can write down neither container nor failure.
StartingSettles ==
  \A s \in Sessions :
    (row[s].status = "STARTING" /\ row[s].createdAt + PromoteTicks =< MaxTime)
      ~> row[s].status # "STARTING"

\* A container that serves a metered session is stopped in the end, by a
\* stop request or by one of the timers, when the session's token time ends
\* within the model's clock. (One whose ARN reaches the row only after
\* LabExpiryWorker has listed the row without it is not.)
ServedTaskReleased ==
  \A s \in Sessions :
    (row[s].status \in Metered /\ row[s].arn /\ lapsing[s] # "bare"
        /\ row[s].tokenExpiryAt =< MaxTime)
      ~> (task[s] = "stopped" \/ row[s].tokenExpiryAt > MaxTime)

(***************************************************************************)
(* What the repository says and the code does not keep                     *)
(***************************************************************************)
\* A student has one active lab session at a time.
OneActiveSession == Cardinality(ActiveRows) =< 1

\* The ledger accounts for every token taken from the wallet.
LedgerComplete == \A s \in Sessions : booked[s] = charged[s]

\* An extended session is not stopped before its extended end.
ExtensionHonoured ==
  [][\A s \in Sessions : s \in expiring /\ s \notin expiring'
        /\ row'[s].status = "STOPPING" /\ row[s].status \in Metered
        => row[s].expiresAt =< now]_vars
=============================================================================
