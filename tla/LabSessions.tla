---------------------------- MODULE LabSessions ----------------------------
(***************************************************************************)
(* The state the lab-session components of the backend share: the rows of  *)
(* lab_sessions, the student's token wallet for one lab, the student's     *)
(* credit wallet, the token ledger, the in-process session records, the    *)
(* ECS tasks, and the HTTP requests and background jobs under way.         *)
(*                                                                         *)
(* One student and one lab: rows of other students share nothing with      *)
(* these but the order in which a worker visits them.                      *)
(*                                                                         *)
(* Time is counted in half minutes: a token buys two ticks, and the        *)
(* 30-second rounding rule looks at one of them.                           *)
(***************************************************************************)
EXTENDS Integers, FiniteSets

CONSTANTS
  Sessions,        \* session ids the generator can hand out
  Requests,        \* HTTP requests that can be under way at once
  ExtKeys,         \* idempotency keys of extension requests
  NoSession, NoKey,
  Ops,             \* endpoints clients call: subset of OpNames
  Timers,          \* background timers that fire: subset of TimerNames
  Faults,          \* what may go wrong: subset of FaultNames
  EcsEnabled,      \* isEcsEnabled()
  IsAdmin,         \* the user has an administrator role
  IsLms,           \* the user is an LMS candidate
  InitialTokens,   \* tokens in the lab wallet at first; 0 means no wallet row
  InitialCredits,  \* balance of the credit wallet at first
  PracticalCredits,  \* tokens that a start request may name for its LMS course
  ExtCost, ExtMinutes,   \* creditCost and durationMinutes of the lab
  PromoteTicks,    \* 40 seconds
  StaleTicks,      \* 45 seconds
  WarnTicks,       \* 600 seconds
  LowBalance,      \* 10 tokens
  MaxTime, MaxTokens, MaxRestarts    \* bounds of the model

OpNames    == {"start", "get", "extend", "stop", "list", "buy"}
TimerNames == {"billing", "stop", "expiry", "lapse", "cleanup"}
FaultNames == {"ecs", "billing", "wallet", "save", "restart"}

ASSUME SettingsAssumption ==
  /\ NoSession \notin Sessions
  /\ NoKey \notin ExtKeys
  /\ Ops \subseteq OpNames
  /\ Timers \subseteq TimerNames
  /\ Faults \subseteq FaultNames
  /\ EcsEnabled \in BOOLEAN /\ IsAdmin \in BOOLEAN /\ IsLms \in BOOLEAN

\* However many sessions there have been, it is a number of them.
ASSUME SessionsAssumption == IsFiniteSet(Sessions)

ASSUME AmountsAssumption ==
  /\ InitialTokens \in Nat /\ InitialCredits \in Nat
  /\ PracticalCredits \subseteq Nat \ {0}
  /\ ExtCost \in Nat /\ ExtMinutes \in Nat
  /\ PromoteTicks \in Nat /\ StaleTicks \in Nat /\ WarnTicks \in Nat
  /\ LowBalance \in Nat
  /\ MaxTime \in Nat /\ MaxTokens \in Nat /\ MaxRestarts \in Nat

VARIABLES
  now,       \* the clock
  row,       \* lab_sessions, by SessionId
  wallet,    \* the student_lab_token_wallets row of the student and lab
  credit,    \* credit_wallets.Balance of the student
  extUsed,   \* idempotency keys of LAB_EXTENSION credit transactions
  keys,      \* idempotency keys of a session's USAGE ledger rows
  booked,    \* sum of Tokens over a session's USAGE ledger rows
  mem,       \* in-process session records (sessionRepository)
  task,      \* the ECS task started for a session
  job,       \* a processStop under way outside any request
  expiring,  \* sessions in the list SessionExpiryWorker is working through
  lapsing,   \* where LabExpiryWorker stands with a session of its lists
  req,       \* the HTTP requests under way
  restarts,  \* how often the process has restarted
  charged,   \* history: tokens the lab wallet gave up for a session
  rounded    \* history: finalizations that rounded a half minute up

money == <<wallet, credit, extUsed, keys, booked, charged, rounded>>
work  == <<job, expiring, lapsing>>
vars  == <<now, row, money, mem, task, work, req, restarts>>

(***************************************************************************)
(* Types                                                                   *)
(***************************************************************************)
Active   == {"STARTING", "RUNNING", "EXPIRING_SOON"}
Metered  == {"RUNNING", "EXPIRING_SOON"}
Statuses == Active \cup {"NONE", "STOPPING", "STOPPED", "EXPIRED", "FAILED"}

SessionRow ==
  [status : Statuses, arn : BOOLEAN, allocated : Nat,
   createdAt : Nat, startedAt : Nat, expiresAt : Nat, tokenExpiryAt : Nat,
   billedTokens : Int, billedTicks : Int, warned : BOOLEAN]

MemStatuses == {"none", "starting", "running", "other"}
MemRecord   == [status : MemStatuses, arn : BOOLEAN, ends : Nat]

TaskStates == {"none", "pending", "running", "stopped"}
LiveTask   == {"pending", "running"}
JobStates  == {"none", "queued", "called"}
Lapsing    == {"no", "bare", "arn", "called", "listed"}

Steps == {"idle", "startCommit", "startLaunch", "startSaveArn",
          "getMark", "getFinish", "extendCommit",
          "stopTask", "stopMark", "listFinish"}

RequestRecord ==
  [at : Steps, sid : Sessions \cup {NoSession}, status : Statuses,
   arn : BOOLEAN, expiresAt : Nat, allocated : Nat, flag : BOOLEAN,
   mem : MemRecord, key : ExtKeys \cup {NoKey}]

\* Only an idle request and a start that resets nothing have no session; an
\* extension has its key.
Request ==
  {q \in RequestRecord :
     /\ q.sid = NoSession => q.at \in {"idle", "startCommit"} /\ ~q.flag
     /\ q.at = "extendCommit" => q.key # NoKey}

NoRow ==
  [status |-> "NONE", arn |-> FALSE, allocated |-> 0, createdAt |-> 0,
   startedAt |-> 0, expiresAt |-> 0, tokenExpiryAt |-> 0,
   billedTokens |-> 0, billedTicks |-> 0, warned |-> FALSE]

NoMem == [status |-> "none", arn |-> FALSE, ends |-> 0]

Idle ==
  [at |-> "idle", sid |-> NoSession, status |-> "NONE", arn |-> FALSE,
   expiresAt |-> 0, allocated |-> 0, flag |-> FALSE, mem |-> NoMem,
   key |-> NoKey]

(***************************************************************************)
(* Reading and writing the stores                                          *)
(***************************************************************************)
\* RemainingTokens as every wallet query computes it.
Remaining(w) ==
  IF w.purchased >= w.consumed THEN w.purchased - w.consumed ELSE 0

ActiveRows == {s \in Sessions : row[s].status \in Active}

\* findActiveSessionForUser: ORDER BY CreatedAt DESC LIMIT 1.
LatestActive ==
  {s \in ActiveRows : \A t \in ActiveRows : row[t].createdAt =< row[s].createdAt}

\* updateSession(sessionId, {Status}): no condition on the old status.
SetStatus(s, st) == row' = [row EXCEPT ![s].status = st]

\* The update that starts the meter: StartedAt = now and a full allocation.
\* BilledTokens and BilledSeconds keep their values.
Started(r, tokens) ==
  [r EXCEPT !.status = "RUNNING", !.startedAt = now,
            !.expiresAt = now + 2 * tokens, !.tokenExpiryAt = now + 2 * tokens]

DropMem(s) == mem' = [mem EXCEPT ![s] = NoMem]

\* getSession: the record, or one hydrated from the row as it is then, which
\* has no durationMinutes and so is never due for cleanup.
Hydrated(s, r) ==
  IF mem[s].status # "none" THEN mem[s]
  ELSE [status |-> CASE r.status = "STARTING" -> "starting"
                     [] r.status = "RUNNING"  -> "running"
                     [] OTHER -> "other",
        arn |-> r.arn, ends |-> 0]

At(r, step)  == req[r].at = step
Goto(r, new) == req' = [req EXCEPT ![r] = new]
Finish(r)    == Goto(r, Idle)

\* getWalletForUpdate found a row.
HasWallet == wallet.exists

\* A task that describeTask reports as gone.
TaskDead(s) == task[s] \in {"none", "stopped"}
=============================================================================
