--------------------------- MODULE RuntimeWorkers ---------------------------
(***************************************************************************)
(* The background side of the backend: RuntimeStopService and its worker,  *)
(* SessionExpiryWorker, LabExpiryWorker, the in-process session cleanup    *)
(* and UsageBillingWorker. Each worker is a timer callback: it reads a     *)
(* list of sessions and then goes through it with awaits in between, so a  *)
(* member of the list may be stale when it is reached.                     *)
(***************************************************************************)
EXTENDS UsageBilling

\* stopEcsTask with what it may do to the task: a call that fails leaves the
\* task as it was.
EcsStop(s, hasArn) ==
  \/ task' = [task EXCEPT ![s] = IF hasArn /\ EcsEnabled THEN "stopped" ELSE @]
  \/ /\ "ecs" \in Faults /\ hasArn /\ EcsEnabled
     /\ UNCHANGED task

(***************************************************************************)
(* RuntimeStopService.processStop, run outside a request                   *)
(***************************************************************************)
\* Reads the row, without a lock, and calls ECS.
ProcessStopCall(s) ==
  /\ job[s] = "queued"
  /\ IF row[s].status = "STOPPED"
       THEN job' = [job EXCEPT ![s] = "none"] /\ UNCHANGED task
       ELSE job' = [job EXCEPT ![s] = "called"] /\ EcsStop(s, row[s].arn)
  /\ UNCHANGED <<now, row, money, mem, expiring, lapsing, req, restarts>>

\* Writes STOPPED, also from the catch branch of a failed call.
ProcessStopWrite(s) ==
  /\ job[s] = "called"
  /\ SetStatus(s, "STOPPED")
  /\ job' = [job EXCEPT ![s] = "none"]
  /\ UNCHANGED <<now, money, mem, task, expiring, lapsing, req, restarts>>

\* RuntimeStopWorker: every row in STOPPING.
\* Mutant: every such session the process has a record of.
StopCycleFromMemory(s) ==
  /\ "stop" \in Timers
  /\ row[s].status = "STOPPING" /\ job[s] = "none" /\ mem[s].status # "none"
  /\ QueueStop(s)
  /\ UNCHANGED <<now, row, money, mem, task, expiring, lapsing, req, restarts>>

StopCycle(s) ==
  /\ "stop" \in Timers
  /\ row[s].status = "STOPPING" /\ job[s] = "none"
  /\ QueueStop(s)
  /\ UNCHANGED <<now, row, money, mem, task, expiring, lapsing, req, restarts>>

(***************************************************************************)
(* SessionExpiryWorker                                                     *)
(***************************************************************************)
TokenExpired(s) == row[s].status \in Metered /\ row[s].tokenExpiryAt =< now

\* isRunning keeps a second cycle out until the list is worked off.
ExpiryScan ==
  /\ "expiry" \in Timers
  /\ expiring = {}
  /\ \E s \in Sessions : TokenExpired(s)
  /\ expiring' = {s \in Sessions : TokenExpired(s)}
  /\ UNCHANGED <<now, row, money, mem, task, job, lapsing, req, restarts>>

\* Under the row lock only the status is looked at again.
ExpiryStop(s) ==
  /\ s \in expiring
  /\ expiring' = expiring \ {s}
  /\ IF row[s].status \in Metered
       THEN Exhaust(s)
       ELSE UNCHANGED <<row, job>>
  /\ UNCHANGED <<now, money, mem, task, lapsing, req, restarts>>

(***************************************************************************)
(* LabExpiryWorker                                                         *)
(***************************************************************************)
LabExpired(s) == row[s].status \in Active /\ row[s].expiresAt =< now

Lapses(s, step) == lapsing' = [lapsing EXCEPT ![s] = step]

\* Nothing keeps a second cycle out. The ARN is the one in the list.
LapseScan ==
  LET due == {s \in Sessions : LabExpired(s) /\ lapsing[s] = "no"} IN
  /\ "lapse" \in Timers
  /\ due # {}
  /\ lapsing' = [s \in Sessions |-> IF s \notin due THEN lapsing[s]
                                   ELSE IF row[s].arn THEN "arn" ELSE "bare"]
  /\ UNCHANGED <<now, row, money, mem, task, job, expiring, req, restarts>>

LapseCall(s) ==
  /\ lapsing[s] = "arn"
  /\ EcsStop(s, TRUE)
  /\ Lapses(s, "called")
  /\ UNCHANGED <<now, row, money, mem, job, expiring, req, restarts>>

\* The status is written whatever the row holds by now.
LapseMark(s) ==
  /\ lapsing[s] \in {"bare", "called"}
  /\ SetStatus(s, "EXPIRED")
  /\ DropMem(s)
  /\ Lapses(s, "no")
  /\ UNCHANGED <<now, money, task, job, expiring, req, restarts>>

\* The second half of the cycle: active rows with a container, which are
\* STOPPED if ECS then says that the container has gone.
SyncList(s) ==
  /\ "lapse" \in Timers
  /\ EcsEnabled /\ row[s].status \in Active /\ row[s].arn
  /\ lapsing[s] = "no"
  /\ Lapses(s, "listed")
  /\ UNCHANGED <<now, row, money, mem, task, job, expiring, req, restarts>>

SyncMark(s) ==
  /\ lapsing[s] = "listed"
  /\ \/ /\ task[s] = "stopped"
        /\ SetStatus(s, "STOPPED") /\ DropMem(s)
     \/ /\ task[s] # "stopped" \/ "ecs" \in Faults
        /\ UNCHANGED <<row, mem>>
  /\ Lapses(s, "no")
  /\ UNCHANGED <<now, money, task, job, expiring, req, restarts>>

(***************************************************************************)
(* cleanupExpiredSessions: works on the in-process records alone           *)
(***************************************************************************)
CleanupRecord(s) ==
  /\ "cleanup" \in Timers
  /\ mem[s].status \in {"starting", "running"}
  /\ mem[s].ends # 0 /\ mem[s].ends =< now
  /\ EcsStop(s, mem[s].arn)
  /\ DropMem(s)
  /\ UNCHANGED <<now, row, money, work, req, restarts>>

(***************************************************************************)
(* What happens around the process                                         *)
(***************************************************************************)
\* The clock; MaxTime bounds it.
Tick ==
  /\ now < MaxTime
  /\ now' = now + 1
  /\ UNCHANGED <<row, money, mem, task, work, req, restarts>>

\* ECS brings a task up, or loses it.
TaskUp(s) ==
  /\ task[s] = "pending"
  /\ task' = [task EXCEPT ![s] = "running"]
  /\ UNCHANGED <<now, row, money, mem, work, req, restarts>>

TaskDies(s) ==
  /\ "ecs" \in Faults /\ task[s] \in LiveTask
  /\ task' = [task EXCEPT ![s] = "stopped"]
  /\ UNCHANGED <<now, row, money, mem, work, req, restarts>>

\* The process dies and comes back: what it held in memory is lost.
Restart ==
  /\ "restart" \in Faults /\ restarts < MaxRestarts
  /\ restarts' = restarts + 1
  /\ mem' = [s \in Sessions |-> NoMem]
  /\ job' = [s \in Sessions |-> "none"]
  /\ expiring' = {}
  /\ lapsing' = [s \in Sessions |-> "no"]
  /\ req' = [r \in Requests |-> Idle]
  /\ UNCHANGED <<now, row, money, task>>

Workers ==
  \/ \E s \in Sessions :
       \/ BillSession(s) \/ ProcessStopCall(s) \/ ProcessStopWrite(s)
       \/ StopCycle(s) \/ ExpiryStop(s)
       \/ LapseCall(s) \/ LapseMark(s) \/ SyncList(s) \/ SyncMark(s)
       \/ CleanupRecord(s)
  \/ ExpiryScan \/ LapseScan

Environment ==
  \/ Tick \/ Restart
  \/ \E s \in Sessions : TaskUp(s) \/ TaskDies(s)
=============================================================================
