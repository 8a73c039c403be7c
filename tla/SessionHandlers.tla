--------------------------- MODULE SessionHandlers ---------------------------
(***************************************************************************)
(* The HTTP handlers of handlers/sessions.js. A handler runs from await to *)
(* await; req[r] holds where request r stands and what it has read, which  *)
(* may be stale by the time it writes.                                     *)
(***************************************************************************)
EXTENDS RuntimeWorkers

Arrives(r, op) == At(r, "idle") /\ op \in Ops

(***************************************************************************)
(* sessionsStartHandler                                                    *)
(***************************************************************************)
\* The active session is one to reset rather than one to respect.
Stale(s) ==
  \/ row[s].expiresAt =< now
  \/ /\ EcsEnabled /\ ~row[s].arn
     /\ \/ now - Greatest(row[s].startedAt, row[s].createdAt) > StaleTicks
        \/ row[s].status # "STARTING"
  \/ EcsEnabled /\ row[s].arn /\ TaskDead(s)

\* The transaction begins with an ordinary read for an active session.
StartCheck(r) ==
  /\ Arrives(r, "start")
  /\ \/ /\ ActiveRows = {}
        /\ Goto(r, [Idle EXCEPT !.at = "startCommit"])
     \/ \E s \in LatestActive, force \in BOOLEAN :
          /\ Stale(s) \/ force
          /\ Goto(r, [Idle EXCEPT !.at = "startCommit", !.sid = s, !.flag = TRUE])
  /\ UNCHANGED <<now, row, money, mem, task, work, restarts>>

\* The wallet an LMS candidate is given when nothing is left in it: c is the
\* practical credit that the request names, which each start may name anew.
Granted(w, c) ==
  IF Remaining(w) > 0 \/ ~IsLms THEN w
  ELSE [w EXCEPT !.exists = TRUE, !.purchased = Greatest(@, c)]

\* Minutes the new session gets; 0 refuses it. RemainingTokens of 0 is
\* falsy, so an LMS candidate always falls back on the practical credit.
SessionTokens(w, c) ==
  IF Remaining(w) > 0 THEN Remaining(w)
  ELSE IF IsAdmin THEN 60
  ELSE IF IsLms THEN c ELSE 0

NewRow(tokens) ==
  [NoRow EXCEPT !.status = "STARTING", !.allocated = tokens,
     !.createdAt = now, !.startedAt = now,
     !.expiresAt = now + 2 * tokens, !.tokenExpiryAt = now + 2 * tokens]

\* The old row to STOPPED. finalizeSessionBilling asks for the lock this
\* transaction holds on it, on another connection: it charges nothing, and
\* its error is swallowed. The old ECS task is not stopped.
Reset(q, rows) ==
  IF q.flag THEN [rows EXCEPT ![q.sid].status = "STOPPED"] ELSE rows

\* Refused: the transaction rolls back, the old session's record is gone.
StartRefuse(r) ==
  /\ At(r, "startCommit")
  /\ SessionTokens(wallet, 0) = 0 /\ ~IsLms
  /\ mem' = IF req[r].flag THEN [mem EXCEPT ![req[r].sid] = NoMem] ELSE mem
  /\ Finish(r)
  /\ UNCHANGED <<now, row, money, task, work, restarts>>

\* What the lock on the wallet leaves it as; an insert that fails is
\* swallowed.
WalletAtStart(c) ==
  {IF IsAdmin THEN wallet ELSE Granted(wallet, c)}
    \cup (IF "wallet" \in Faults THEN {wallet} ELSE {})

\* Accepted: the new row and the new record.
StartCommit(r) ==
  LET q == req[r] IN
  /\ At(r, "startCommit")
  /\ \E c \in PracticalCredits : \E w \in WalletAtStart(c), s \in Sessions :
       LET tokens == SessionTokens(w, c) IN
       /\ tokens > 0
       /\ row[s].status = "NONE"
       /\ wallet' = w
       /\ row' = [Reset(q, row) EXCEPT ![s] = NewRow(tokens)]
       /\ mem' = [t \in Sessions |->
                    CASE t = s -> [status |-> "starting", arn |-> FALSE,
                                   ends |-> now + 2 * tokens]
                      [] t # s /\ q.flag /\ t = q.sid -> NoMem
                      [] OTHER -> mem[t]]
       /\ Goto(r, [Idle EXCEPT !.at = "startLaunch", !.sid = s, !.allocated = tokens])
  /\ UNCHANGED <<now, credit, extUsed, keys, booked, charged, rounded,
                 task, work, restarts>>

\* Without ECS the session is RUNNING at once, whatever its row says by now.
StartLocal(r) ==
  LET q == req[r] IN
  /\ At(r, "startLaunch") /\ ~EcsEnabled
  /\ row' = [row EXCEPT ![q.sid] = Started(@, q.allocated)]
  /\ mem' = [mem EXCEPT ![q.sid] = [Hydrated(q.sid, row'[q.sid]) EXCEPT !.status = "running"]]
  /\ Finish(r)
  /\ UNCHANGED <<now, money, task, work, restarts>>

\* With ECS: RunTask, then, later, the task's ARN into row and record.
StartLaunch(r) ==
  LET q == req[r] IN
  /\ At(r, "startLaunch") /\ EcsEnabled
  /\ task' = [task EXCEPT ![q.sid] = "pending"]
  /\ Goto(r, [q EXCEPT !.at = "startSaveArn", !.mem = Hydrated(q.sid, row[q.sid])])
  /\ UNCHANGED <<now, row, money, mem, work, restarts>>

StartFails(r) ==
  /\ At(r, "startLaunch") /\ EcsEnabled /\ "ecs" \in Faults
  /\ SetStatus(req[r].sid, "FAILED")
  /\ Finish(r)
  /\ UNCHANGED <<now, money, mem, task, work, restarts>>

\* Mutants: only the record learns the ARN; the status is written with it.
SaveArnInMemory(r) ==
  LET q == req[r] IN
  /\ At(r, "startSaveArn")
  /\ mem' = [mem EXCEPT ![q.sid] = [q.mem EXCEPT !.arn = TRUE]]
  /\ Finish(r)
  /\ UNCHANGED <<now, row, money, task, work, restarts>>

SaveArnAndStatus(r) ==
  LET q == req[r] IN
  /\ At(r, "startSaveArn")
  /\ row' = [row EXCEPT ![q.sid].arn = TRUE, ![q.sid].status = "STARTING"]
  /\ mem' = [mem EXCEPT ![q.sid] = [q.mem EXCEPT !.arn = TRUE]]
  /\ Finish(r)
  /\ UNCHANGED <<now, money, task, work, restarts>>

StartSaveArn(r) ==
  LET q == req[r] IN
  /\ At(r, "startSaveArn")
  /\ row' = [row EXCEPT ![q.sid].arn = TRUE]
  /\ mem' = [mem EXCEPT ![q.sid] = [q.mem EXCEPT !.arn = TRUE]]
  /\ Finish(r)
  /\ UNCHANGED <<now, money, task, work, restarts>>

\* The ARN cannot be written to the row, or the record not be saved: the row
\* is marked FAILED, if that can be written, while the container starts.
SaveArnFails(r) ==
  /\ At(r, "startSaveArn") /\ "save" \in Faults
  /\ LET old == row[req[r].sid] IN
     \E arn \in {old.arn, TRUE}, status \in {old.status, "FAILED"} :
       row' = [row EXCEPT ![req[r].sid] = [old EXCEPT !.arn = arn, !.status = status]]
  /\ Finish(r)
  /\ UNCHANGED <<now, money, mem, task, work, restarts>>

(***************************************************************************)
(* sessionsGetHandler                                                      *)
(***************************************************************************)
Left(t) == Greatest(0, t - now)

\* The read; requests for a session without a row change nothing.
GetRead(r, s) ==
  /\ Arrives(r, "get") /\ row[s].status # "NONE"
  /\ Goto(r, [Idle EXCEPT !.at = "getMark", !.sid = s,
                          !.status = row[s].status, !.arn = row[s].arn,
                          !.expiresAt = row[s].expiresAt,
                          !.allocated = row[s].allocated])
  /\ UNCHANGED <<now, row, money, mem, task, work, restarts>>

\* EXPIRING_SOON or EXPIRED by what was read, then the session record.
Mark(q) ==
  CASE q.status = "RUNNING" /\ Left(q.expiresAt) \in 1 .. WarnTicks -> "EXPIRING_SOON"
    [] q.status \in Active /\ Left(q.expiresAt) = 0 -> "EXPIRED"
    [] OTHER -> q.status

GetMark(r) ==
  LET q == req[r] IN
  /\ At(r, "getMark")
  /\ IF Mark(q) # q.status THEN SetStatus(q.sid, Mark(q)) ELSE UNCHANGED row
  /\ Goto(r, [q EXCEPT !.at = "getFinish", !.status = Mark(q),
                       !.mem = Hydrated(q.sid, row'[q.sid])])
  /\ UNCHANGED <<now, money, mem, task, work, restarts>>

\* The container has gone: STOPPED.
GetDead(r) ==
  LET q == req[r] IN
  /\ At(r, "getFinish") /\ EcsEnabled /\ q.arn /\ TaskDead(q.sid)
  /\ SetStatus(q.sid, "STOPPED") /\ DropMem(q.sid)
  /\ Finish(r)
  /\ UNCHANGED <<now, money, task, work, restarts>>

\* The container is up: the meter starts, whatever the row says by now. The
\* record is merged into the stored one, or the copy read earlier is saved.
ContainerUp(q) ==
  /\ EcsEnabled /\ q.arn /\ task[q.sid] = "running"
  /\ q.status = "STARTING" \/ q.mem.status = "starting"

GetRunning(r) ==
  LET q == req[r] IN
  /\ At(r, "getFinish") /\ ContainerUp(q)
  /\ row' = [row EXCEPT ![q.sid] = Started(@, q.allocated)]
  /\ \/ mem' = [mem EXCEPT ![q.sid].status = IF @ = "none" THEN @ ELSE "running"]
     \/ mem' = [mem EXCEPT ![q.sid] = [q.mem EXCEPT !.status = "running"]]
  /\ Finish(r)
  /\ UNCHANGED <<now, money, task, work, restarts>>

\* Neither: a session read as STOPPING is declared STOPPED when no address
\* of a container is known, and the answer is sent.
GetAnswer(r) ==
  LET q == req[r] IN
  /\ At(r, "getFinish")
  /\ ~(EcsEnabled /\ q.arn /\ TaskDead(q.sid)) \/ "ecs" \in Faults
  /\ ~ContainerUp(q) \/ "ecs" \in Faults
  /\ \/ /\ q.status = "STOPPING"
        /\ SetStatus(q.sid, "STOPPED") /\ DropMem(q.sid)
     \/ /\ q.status # "STOPPING" \/ (q.arn /\ EcsEnabled /\ q.mem.status = "running")
        /\ UNCHANGED <<row, mem>>
  /\ Finish(r)
  /\ UNCHANGED <<now, money, task, work, restarts>>

(***************************************************************************)
(* sessionsExtendHandler                                                   *)
(***************************************************************************)
\* Status and idempotency key are checked before the transaction.
ExtendRead(r, s, k) ==
  /\ Arrives(r, "extend")
  /\ row[s].status \notin {"NONE", "EXPIRED", "FAILED", "STOPPING"}
  /\ k \notin extUsed
  /\ Goto(r, [Idle EXCEPT !.at = "extendCommit", !.sid = s, !.key = k,
                          !.expiresAt = row[s].expiresAt])
  /\ UNCHANGED <<now, row, money, mem, task, work, restarts>>

\* A LAB_EXTENSION transaction with the key exists: a duplicate entry.
\* Mutant: the column is not unique.
PaidByNobody(k) == FALSE
AlreadyPaid(k) == k \in extUsed

\* The credit wallet is locked, the unique key decides between two requests
\* with the same key, and the row is RUNNING again. TokenExpiryAt stays.
ExtendCommit(r) ==
  LET q == req[r] IN
  /\ At(r, "extendCommit")
  /\ IF credit < ExtCost \/ AlreadyPaid(q.key)
       THEN UNCHANGED <<row, money>>
       ELSE /\ credit'  = credit - ExtCost
            /\ extUsed' = extUsed \cup {q.key}
            /\ row' = [row EXCEPT ![q.sid] =
                         [row[q.sid] EXCEPT
                            !.status    = "RUNNING",
                            !.allocated = row[q.sid].allocated + ExtCost,
                            !.expiresAt = Greatest(now, q.expiresAt) + 2 * ExtMinutes]]
            /\ UNCHANGED <<wallet, keys, booked, charged, rounded>>
  /\ Finish(r)
  /\ UNCHANGED <<now, mem, task, work, restarts>>

(***************************************************************************)
(* sessionsStopHandler                                                     *)
(***************************************************************************)
\* Step 1, once the session and its owner are known. An error is logged and
\* the stop goes on.
StopBilling(r, s) ==
  /\ Arrives(r, "stop") /\ row[s].status # "NONE"
  /\ \/ FinalizeBilling(s)
     \/ "billing" \in Faults /\ UNCHANGED <<row, money>>
  /\ Goto(r, [Idle EXCEPT !.at = "stopTask", !.sid = s])
  /\ UNCHANGED <<now, mem, task, work, restarts>>

\* Step 2, processStop: read the row and call ECS; STOPPED follows.
\* Mutant: a session being stopped is left to whoever is stopping it.
StopTaskUnlessStopping(r) ==
  LET q == req[r] IN
  /\ At(r, "stopTask")
  /\ IF row[q.sid].status \in {"STOPPING", "STOPPED"}
       THEN UNCHANGED task
       ELSE EcsStop(q.sid, row[q.sid].arn)
  /\ Goto(r, [q EXCEPT !.at = "stopMark"])
  /\ UNCHANGED <<now, row, money, mem, work, restarts>>

StopTask(r) ==
  LET q == req[r] IN
  /\ At(r, "stopTask")
  /\ IF row[q.sid].status = "STOPPED"
       THEN UNCHANGED task
       ELSE EcsStop(q.sid, row[q.sid].arn)
  /\ Goto(r, [q EXCEPT !.at = "stopMark"])
  /\ UNCHANGED <<now, row, money, mem, work, restarts>>

\* Step 3: STOPPED, and the record is dropped.
StopMark(r) ==
  /\ At(r, "stopMark")
  /\ SetStatus(req[r].sid, "STOPPED")
  /\ DropMem(req[r].sid)
  /\ Finish(r)
  /\ UNCHANGED <<now, money, task, work, restarts>>

(***************************************************************************)
(* sessionsListByUserHandler                                               *)
(***************************************************************************)
\* The newest active row; whether its time is over is decided here.
ListRead(r) ==
  /\ Arrives(r, "list")
  /\ \E s \in LatestActive :
       Goto(r, [Idle EXCEPT !.at = "listFinish", !.sid = s, !.arn = row[s].arn,
                  !.status = IF Left(row[s].expiresAt) = 0 THEN "EXPIRED" ELSE row[s].status,
                  !.flag = now - Greatest(row[s].startedAt, row[s].createdAt) > StaleTicks])
  /\ UNCHANGED <<now, row, money, mem, task, work, restarts>>

ContainerGone(q) ==
  /\ EcsEnabled
  /\ IF q.arn THEN TaskDead(q.sid) ELSE q.flag \/ q.status # "STARTING"

\* Expired, or its container has gone: the row says so and the record is
\* dropped. The container of an expired session is left to others.
ListFinish(r) ==
  LET q == req[r] IN
  /\ At(r, "listFinish")
  /\ \/ /\ q.status = "EXPIRED"
        /\ SetStatus(q.sid, "EXPIRED") /\ DropMem(q.sid)
     \/ /\ q.status # "EXPIRED" /\ ContainerGone(q)
        /\ SetStatus(q.sid, "STOPPED") /\ DropMem(q.sid)
     \/ /\ q.status # "EXPIRED"
        /\ ~ContainerGone(q) \/ (q.arn /\ "ecs" \in Faults)
        /\ UNCHANGED <<row, mem>>
  /\ Finish(r)
  /\ UNCHANGED <<now, money, task, work, restarts>>

(***************************************************************************)
(* Buying tokens: processPurchase                                          *)
(***************************************************************************)
\* The credit wallet gets the tokens from processPurchase and once more from
\* creditWalletTokens.
BuyTokens ==
  /\ "buy" \in Ops
  /\ \E n \in 1 .. MaxTokens :
       /\ wallet.purchased + n =< MaxTokens
       /\ wallet' = [wallet EXCEPT !.exists = TRUE, !.purchased = @ + n]
       /\ credit' = credit + 2 * n
  /\ UNCHANGED <<now, row, extUsed, keys, booked, charged, rounded,
                 mem, task, work, req, restarts>>

Handlers ==
  \/ \E r \in Requests :
       \/ StartCheck(r) \/ StartRefuse(r) \/ StartCommit(r) \/ StartLocal(r)
       \/ StartLaunch(r) \/ StartFails(r) \/ StartSaveArn(r) \/ SaveArnFails(r)
       \/ GetMark(r) \/ GetDead(r) \/ GetRunning(r) \/ GetAnswer(r)
       \/ ExtendCommit(r)
       \/ StopTask(r) \/ StopMark(r)
       \/ ListRead(r) \/ ListFinish(r)
       \/ \E s \in Sessions :
            \/ GetRead(r, s) \/ StopBilling(r, s)
            \/ \E k \in ExtKeys : ExtendRead(r, s, k)
  \/ BuyTokens
=============================================================================
