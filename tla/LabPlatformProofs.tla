------------------------- MODULE LabPlatformProofs -------------------------
(***************************************************************************)
(* What holds of LabPlatform for every number of sessions and requests,    *)
(* every setting and every amount: the types of its stores, that running   *)
(* tasks are recorded, and that what has ended stays ended.                *)
(*                                                                         *)
(* TasksAreRecorded is not inductive: a launch could find its row unused,  *)
(* and a start could take a row that has a task. RecordInv adds that       *)
(* neither is so.                                                          *)
(***************************************************************************)
EXTENDS LabPlatform, TLAPS

USE DEF money, work, vars

-----------------------------------------------------------------------------
(* Types *)

\* The values the model writes into its stores have the types of the stores.
LEMMA InitialValues ==
  /\ NoRow \in SessionRow /\ NoMem \in MemRecord /\ Idle \in Request
BY DEF NoRow, SessionRow, Statuses, Active, NoMem, MemRecord, MemStatuses,
       Idle, Request, RequestRecord, Steps

LEMMA RowTypes ==
  ASSUME NEW r \in SessionRow, now \in Nat
  PROVE  /\ \A st \in Statuses : [r EXCEPT !.status = st] \in SessionRow
         /\ \A n \in Nat : Started(r, n) \in SessionRow
         /\ \A n \in Int : Billed(r, n) \in SessionRow
         /\ [r EXCEPT !.arn = TRUE] \in SessionRow
         /\ \A n \in Nat : NewRow(n) \in SessionRow
<1>1. ASSUME NEW st \in Statuses PROVE [r EXCEPT !.status = st] \in SessionRow
  BY <1>1 DEF SessionRow
<1>2. ASSUME NEW n \in Nat PROVE Started(r, n) \in SessionRow
  <2>1. "RUNNING" \in Statuses /\ now + 2 * n \in Nat
    BY DEF Statuses, Active
  <2>2. QED BY <2>1 DEF SessionRow, Started
<1>3. ASSUME NEW n \in Int PROVE Billed(r, n) \in SessionRow
  <2> DEFINE k == r.billedTokens + n
             t == r.billedTicks + 2 * n
  <2>1. k \in Int /\ t \in Int
    BY DEF SessionRow
  <2>2. [r EXCEPT !.billedTokens = k, !.billedTicks = t] \in SessionRow
    <3> HIDE DEF k, t
    <3> QED BY <2>1 DEF SessionRow
  <2>3. QED BY <2>2 DEF Billed
<1>4. [r EXCEPT !.arn = TRUE] \in SessionRow
  BY DEF SessionRow
<1>5. ASSUME NEW n \in Nat PROVE NewRow(n) \in SessionRow
  <2>1. "STARTING" \in Statuses /\ now + 2 * n \in Nat
    BY DEF Statuses, Active
  <2>2. QED BY <2>1, InitialValues DEF SessionRow, NewRow
<1>6. QED BY <1>1, <1>2, <1>3, <1>4, <1>5

\* What a handler can read of a session.
LEMMA HydratedType ==
  ASSUME TypeOK, NEW s, NEW q \in SessionRow
  PROVE  s \in Sessions => Hydrated(s, q) \in MemRecord
BY DEF TypeOK, Hydrated, MemRecord, MemStatuses, SessionRow

\* A charge is a natural number.
LEMMA ChargeType ==
  ASSUME TypeOK, NEW s \in Sessions
  PROVE  /\ Remaining(wallet) \in Nat
         /\ Unbilled(s) \in Int
         /\ Outstanding(s) \in Nat
         /\ \A n \in Int : Payable(n) \in Int
         /\ \A n \in Int : Payable(n) =< n
         /\ \A n \in Nat : CreditAfter(n) \in Nat
BY DEF TypeOK, Remaining, Unbilled, Outstanding, RoundedMinutes, Payable,
       Least, Greatest, Elapsed, CreditAfter, SessionRow

\* Stores after one entry has been replaced.
LEMMA RowAfter ==
  ASSUME TypeOK, NEW s, NEW v, s \in Sessions => v \in SessionRow
  PROVE  [row EXCEPT ![s] = v] \in [Sessions -> SessionRow]
BY DEF TypeOK

LEMMA StatusAfter ==
  ASSUME TypeOK, NEW s, NEW st \in Statuses
  PROVE  SetStatus(s, st) => row' \in [Sessions -> SessionRow]
<1>1. s \in Sessions => [row[s] EXCEPT !.status = st] \in SessionRow
  BY RowTypes DEF TypeOK
<1>2. QED BY <1>1, RowAfter DEF SetStatus

LEMMA MemAfter ==
  ASSUME TypeOK, NEW s, NEW v, s \in Sessions => v \in MemRecord
  PROVE  [mem EXCEPT ![s] = v] \in [Sessions -> MemRecord]
BY DEF TypeOK

LEMMA DropMemType ==
  ASSUME TypeOK, NEW s, DropMem(s)
  PROVE  mem' \in [Sessions -> MemRecord]
BY InitialValues, MemAfter DEF DropMem

LEMMA ReqAfter ==
  ASSUME TypeOK, NEW r \in Requests, NEW q \in Request
  PROVE  Goto(r, q) => req' \in [Requests -> Request]
BY DEF TypeOK, Goto

LEMMA FinishType ==
  ASSUME TypeOK, NEW r \in Requests, Finish(r)
  PROVE  req' \in [Requests -> Request]
BY InitialValues, ReqAfter DEF Finish

LEMMA RequestFields ==
  ASSUME TypeOK, NEW r \in Requests
  PROVE  /\ req[r] \in Request
         /\ req[r].sid \in Sessions \cup {NoSession}
         /\ req[r].status \in Statuses /\ req[r].arn \in BOOLEAN
         /\ req[r].expiresAt \in Nat /\ req[r].allocated \in Nat
         /\ req[r].flag \in BOOLEAN /\ req[r].mem \in MemRecord
         /\ req[r].key \in ExtKeys \cup {NoKey}
         /\ req[r].at \notin {"idle", "startCommit"} => req[r].sid \in Sessions
         /\ req[r].at = "extendCommit" => req[r].key \in ExtKeys
<1>1. req[r] \in Request
  BY DEF TypeOK
<1>2. QED BY <1>1 DEF Request, RequestRecord

LEMMA StatusNames ==
  /\ "STOPPED" \in Statuses /\ "STOPPING" \in Statuses
  /\ "EXPIRED" \in Statuses /\ "FAILED" \in Statuses
  /\ "RUNNING" \in Statuses /\ "EXPIRING_SOON" \in Statuses
BY DEF Statuses, Active

LEMMA EcsStopType ==
  ASSUME TypeOK, NEW s, NEW hasArn, EcsStop(s, hasArn)
  PROVE  task' \in [Sessions -> TaskStates]
BY DEF TypeOK, EcsStop, TaskStates

LEMMA QueueStopType ==
  ASSUME TypeOK, NEW s, QueueStop(s)
  PROVE  job' \in [Sessions -> JobStates]
BY DEF TypeOK, QueueStop, JobStates

-----------------------------------------------------------------------------
(* The workers keep the types *)

LEMMA ConsumeType ==
  ASSUME TypeOK, NEW s \in Sessions, NEW n \in Nat, NEW seq \in Int,
         NEW kind \in {"bill", "final"}, Consume(s, n, <<seq, kind>>)
  PROVE  /\ wallet' \in [exists : BOOLEAN, purchased : Nat, consumed : Nat]
         /\ credit' \in Nat /\ extUsed' \subseteq ExtKeys
         /\ keys' \in [Sessions -> SUBSET (Int \X {"bill", "final"})]
         /\ booked' \in [Sessions -> Nat] /\ charged' \in [Sessions -> Nat]
<1>1. wallet' \in [exists : BOOLEAN, purchased : Nat, consumed : Nat]
  BY DEF TypeOK, Consume
<1>2. credit' \in Nat /\ extUsed' \subseteq ExtKeys
  BY ChargeType DEF TypeOK, Consume
<1>3. keys' \in [Sessions -> SUBSET (Int \X {"bill", "final"})]
  BY DEF TypeOK, Consume
<1>4. booked' \in [Sessions -> Nat] /\ charged' \in [Sessions -> Nat]
  BY DEF TypeOK, Consume, Booked
<1>5. QED BY <1>1, <1>2, <1>3, <1>4

LEMMA PromoteType ==
  ASSUME TypeOK, NEW s \in Sessions, Promote(s)
  PROVE  row' \in [Sessions -> SessionRow] /\ job' \in [Sessions -> JobStates]
<1> DEFINE up == Started(row[s], row[s].allocated)
<1>1. up \in SessionRow /\ [up EXCEPT !.status = "STOPPING"] \in SessionRow
  <2>1. row[s] \in SessionRow /\ row[s].allocated \in Nat /\ now \in Nat
    BY DEF TypeOK, SessionRow
  <2>2. up \in SessionRow
    BY <2>1, RowTypes
  <2>3. QED
    <3> HIDE DEF up
    <3> QED BY <2>1, <2>2, RowTypes, StatusNames
<1>2. row' \in [Sessions -> SessionRow]
  BY <1>1, RowAfter DEF Promote
<1>3. job' \in [Sessions -> JobStates]
  BY QueueStopType DEF Promote, TypeOK
<1>4. QED BY <1>2, <1>3

LEMMA BillSessionType ==
  ASSUME TypeOK, NEW s \in Sessions, BillSession(s)
  PROVE  TypeOK'
<1>1. CASE Promote(s)
  BY <1>1, PromoteType DEF TypeOK, BillSession, Promote, NoCharge
<1>2. CASE BillNothingLeft(s)
  <2>1. row' \in [Sessions -> SessionRow] /\ job' \in [Sessions -> JobStates]
    BY <1>2, StatusNames, StatusAfter, QueueStopType DEF BillNothingLeft, Exhaust
  <2>2. QED
    BY <1>2, <2>1 DEF TypeOK, BillSession, BillNothingLeft, NoCharge
<1>3. CASE BillMinutes(s)
  <2> DEFINE n    == Payable(Unbilled(s))
             seq  == row[s].billedTokens + n
             low  == Greatest(0, Remaining(wallet) - n) =< LowBalance
             over == Greatest(0, Remaining(wallet) - n) = 0 /\ ~WithinAllocated(s)
             bill == Billed(row[s], n)
             new  == [bill EXCEPT !.warned = low,
                                  !.status = IF over THEN "STOPPING" ELSE row[s].status]
  <2>1. row[s] \in SessionRow /\ row[s].status \in Statuses
          /\ row[s].billedTokens \in Int
    BY DEF TypeOK, SessionRow
  <2>2. n \in Int /\ seq \in Int
    BY <2>1, ChargeType
  <2>3. new \in SessionRow
    <3>1. bill \in SessionRow
      BY <2>1, <2>2, RowTypes DEF TypeOK
    <3>2. low \in BOOLEAN /\ over \in BOOLEAN
      OBVIOUS
    <3>3. QED
      <4> HIDE DEF low, over, bill
      <4> QED BY <2>1, <3>1, <3>2, StatusNames DEF SessionRow
  <2>4. row' = [row EXCEPT ![s] = new]
    BY <1>3 DEF BillMinutes
  <2>5. row' \in [Sessions -> SessionRow]
    <3> HIDE DEF new
    <3> QED BY <2>3, <2>4, RowAfter
  <2>6. job' \in [Sessions -> JobStates]
    BY <1>3, QueueStopType DEF BillMinutes, TypeOK
  <2>7. CASE n > 0
    <3>1. Consume(s, n, <<seq, "bill">>) /\ n \in Nat
      BY <1>3, <2>2, <2>7 DEF BillMinutes
    <3>2. QED
      <4> HIDE DEF n, seq
      <4> QED BY <1>3, <2>2, <2>5, <2>6, <3>1, ConsumeType
            DEF TypeOK, BillSession, BillMinutes
  <2>8. CASE ~(n > 0)
    <3>1. NoCharge
      BY <1>3, <2>8 DEF BillMinutes
    <3>2. QED
      BY <1>3, <2>5, <2>6, <3>1 DEF TypeOK, BillSession, BillMinutes, NoCharge
  <2>9. QED BY <2>7, <2>8
<1>4. QED BY <1>1, <1>2, <1>3 DEF BillSession

\* finalizeSessionBilling keeps the types of the row and of the money.
LEMMA FinalizeType ==
  ASSUME TypeOK, NEW s \in Sessions, FinalizeBilling(s)
  PROVE  /\ row' \in [Sessions -> SessionRow]
         /\ wallet' \in [exists : BOOLEAN, purchased : Nat, consumed : Nat]
         /\ credit' \in Nat /\ extUsed' \subseteq ExtKeys
         /\ keys' \in [Sessions -> SUBSET (Int \X {"bill", "final"})]
         /\ booked' \in [Sessions -> Nat] /\ charged' \in [Sessions -> Nat]
         /\ rounded' \in [Sessions -> Nat]
<1> DEFINE n   == IF HasWallet THEN Payable(Outstanding(s)) ELSE 0
           seq == row[s].billedTokens + n
<1>1. CASE NoCharge /\ rounded' = rounded
             /\ (row' = row \/ SetStatus(s, "STOPPING"))
  BY <1>1, StatusNames, StatusAfter DEF TypeOK, NoCharge
<1>2. CASE /\ n > 0
           /\ row' = [row EXCEPT ![s] = [Billed(row[s], n) EXCEPT !.status = "STOPPING"]]
           /\ Consume(s, n, <<seq, "final">>)
           /\ rounded' = [rounded EXCEPT ![s] = @ + (Elapsed(s) % 2)]
  <2>1. row[s] \in SessionRow /\ row[s].billedTokens \in Int /\ now \in Nat
          /\ row[s].startedAt \in Nat
    BY DEF TypeOK, SessionRow
  <2>2. n \in Nat /\ n \in Int /\ seq \in Int
    BY <1>2, <2>1, ChargeType
  <2>3. [Billed(row[s], n) EXCEPT !.status = "STOPPING"] \in SessionRow
    <3> HIDE DEF n
    <3>1. Billed(row[s], n) \in SessionRow
      BY <2>1, <2>2, RowTypes
    <3>2. QED BY <2>1, <3>1, RowTypes, StatusNames
  <2>4. row' \in [Sessions -> SessionRow]
    BY <1>2, <2>3, RowAfter
  <2>5. rounded' \in [Sessions -> Nat]
    <3>1. Elapsed(s) % 2 \in Nat
      BY <2>1 DEF Elapsed, Greatest
    <3>2. QED BY <1>2, <3>1 DEF TypeOK
  <2>6. QED
    <3> HIDE DEF n, seq
    <3> QED BY <1>2, <2>2, <2>4, <2>5, ConsumeType
<1>3. QED BY <1>1, <1>2 DEF FinalizeBilling, NoCharge

LEMMA WorkersType ==
  ASSUME TypeOK, Workers
  PROVE  TypeOK'
<1>1. ASSUME NEW s \in Sessions, ProcessStopCall(s) PROVE TypeOK'
  <2>1. task' \in [Sessions -> TaskStates] /\ job' \in [Sessions -> JobStates]
    BY <1>1, EcsStopType DEF TypeOK, ProcessStopCall, JobStates
  <2>2. QED BY <1>1, <2>1 DEF TypeOK, ProcessStopCall
<1>2. ASSUME NEW s \in Sessions, ProcessStopWrite(s) PROVE TypeOK'
  <2>1. row' \in [Sessions -> SessionRow]
    BY <1>2, StatusAfter, StatusNames DEF ProcessStopWrite
  <2>2. job' \in [Sessions -> JobStates]
    BY <1>2 DEF TypeOK, ProcessStopWrite, JobStates
  <2>3. QED BY <1>2, <2>1, <2>2 DEF TypeOK, ProcessStopWrite
<1>3. ASSUME NEW s \in Sessions, StopCycle(s) PROVE TypeOK'
  BY <1>3, QueueStopType DEF TypeOK, StopCycle
<1>4. ASSUME NEW s \in Sessions, ExpiryStop(s) PROVE TypeOK'
  <2>1. row' \in [Sessions -> SessionRow] /\ job' \in [Sessions -> JobStates]
    BY <1>4, StatusAfter, StatusNames, QueueStopType DEF TypeOK, ExpiryStop, Exhaust
  <2>2. QED BY <1>4, <2>1 DEF TypeOK, ExpiryStop
<1>5. ASSUME NEW s \in Sessions, LapseCall(s) PROVE TypeOK'
  <2>1. task' \in [Sessions -> TaskStates] /\ lapsing' \in [Sessions -> Lapsing]
    BY <1>5, EcsStopType DEF TypeOK, LapseCall, Lapses, Lapsing
  <2>2. QED BY <1>5, <2>1 DEF TypeOK, LapseCall
<1>6. ASSUME NEW s \in Sessions, LapseMark(s) PROVE TypeOK'
  <2>1. row' \in [Sessions -> SessionRow] /\ mem' \in [Sessions -> MemRecord]
    BY <1>6, StatusAfter, StatusNames, DropMemType DEF LapseMark
  <2>2. lapsing' \in [Sessions -> Lapsing]
    BY <1>6 DEF TypeOK, LapseMark, Lapses, Lapsing
  <2>3. QED BY <1>6, <2>1, <2>2 DEF TypeOK, LapseMark
<1>7. ASSUME NEW s \in Sessions, SyncList(s) PROVE TypeOK'
  BY <1>7 DEF TypeOK, SyncList, Lapses, Lapsing
<1>8. ASSUME NEW s \in Sessions, SyncMark(s) PROVE TypeOK'
  <2>1. row' \in [Sessions -> SessionRow] /\ mem' \in [Sessions -> MemRecord]
    BY <1>8, StatusAfter, StatusNames, DropMemType DEF TypeOK, SyncMark
  <2>2. lapsing' \in [Sessions -> Lapsing]
    BY <1>8 DEF TypeOK, SyncMark, Lapses, Lapsing
  <2>3. QED BY <1>8, <2>1, <2>2 DEF TypeOK, SyncMark
<1>9. ASSUME NEW s \in Sessions, CleanupRecord(s) PROVE TypeOK'
  <2>1. task' \in [Sessions -> TaskStates] /\ mem' \in [Sessions -> MemRecord]
    BY <1>9, EcsStopType, DropMemType DEF CleanupRecord
  <2>2. QED BY <1>9, <2>1 DEF TypeOK, CleanupRecord
<1>10. CASE ExpiryScan
  BY <1>10 DEF TypeOK, ExpiryScan
<1>11. CASE LapseScan
  BY <1>11 DEF TypeOK, LapseScan, Lapsing
<1>12. QED
  BY <1>1, <1>2, <1>3, <1>4, <1>5, <1>6, <1>7, <1>8, <1>9, <1>10, <1>11,
     BillSessionType DEF Workers

LEMMA EnvironmentType ==
  ASSUME TypeOK, Environment
  PROVE  TypeOK'
<1>1. CASE Tick
  BY <1>1 DEF TypeOK, Tick
<1>2. CASE Restart
  BY <1>2, InitialValues DEF TypeOK, Restart, JobStates, Lapsing
<1>3. ASSUME NEW s \in Sessions, TaskUp(s) \/ TaskDies(s) PROVE TypeOK'
  BY <1>3 DEF TypeOK, TaskUp, TaskDies, TaskStates
<1>4. QED BY <1>1, <1>2, <1>3 DEF Environment

-----------------------------------------------------------------------------
(* The handlers keep the types *)

LEMMA RefusalsType ==
  ASSUME TypeOK, NEW r \in Requests,
         StartCheck(r) \/ StartRefuse(r) \/ StartFails(r) \/ ListRead(r)
  PROVE  TypeOK'
<1>1. CASE StartCheck(r)
  <2>1. req' \in [Requests -> Request]
    <3>1. [Idle EXCEPT !.at = "startCommit"] \in Request
      BY InitialValues, SettingsAssumption DEF Request, RequestRecord, Steps
    <3>2. \A s \in Sessions :
            [Idle EXCEPT !.at = "startCommit", !.sid = s, !.flag = TRUE] \in Request
      BY InitialValues, SettingsAssumption DEF Request, RequestRecord, Steps
    <3>3. QED BY <1>1, <3>1, <3>2, ReqAfter DEF StartCheck, LatestActive, ActiveRows
  <2>2. QED BY <1>1, <2>1 DEF TypeOK, StartCheck
<1>2. CASE StartRefuse(r)
  <2>1. mem' \in [Sessions -> MemRecord]
    BY <1>2, InitialValues, MemAfter DEF TypeOK, StartRefuse
  <2>2. QED BY <1>2, <2>1, FinishType DEF TypeOK, StartRefuse
<1>3. CASE StartFails(r)
  <2>1. row' \in [Sessions -> SessionRow]
    BY <1>3, StatusAfter, StatusNames DEF StartFails
  <2>2. QED BY <1>3, <2>1, FinishType DEF TypeOK, StartFails
<1>4. CASE ListRead(r)
  <2>1. PICK s \in Sessions :
          Goto(r, [Idle EXCEPT !.at = "listFinish", !.sid = s, !.arn = row[s].arn,
                  !.status = IF Left(row[s].expiresAt) = 0 THEN "EXPIRED" ELSE row[s].status,
                  !.flag = now - Greatest(row[s].startedAt, row[s].createdAt) > StaleTicks])
    BY <1>4 DEF ListRead, LatestActive, ActiveRows
  <2>2. row[s].arn \in BOOLEAN /\ row[s].status \in Statuses /\ "EXPIRED" \in Statuses
    BY StatusNames DEF TypeOK, SessionRow
  <2>3. req' \in [Requests -> Request]
    <3> DEFINE st == IF Left(row[s].expiresAt) = 0 THEN "EXPIRED" ELSE row[s].status
               fl == now - Greatest(row[s].startedAt, row[s].createdAt) > StaleTicks
    <3>1. st \in Statuses /\ fl \in BOOLEAN
      BY <2>2
    <3>2. [Idle EXCEPT !.at = "listFinish", !.sid = s, !.arn = row[s].arn,
                       !.status = st, !.flag = fl] \in Request
      <4> HIDE DEF st, fl
      <4> QED BY <2>2, <3>1, InitialValues, SettingsAssumption DEF Request, RequestRecord, Steps
    <3>3. QED BY <2>1, <3>2, ReqAfter
  <2>4. QED BY <1>4, <2>3 DEF TypeOK, ListRead
<1>5. QED BY <1>1, <1>2, <1>3, <1>4

\* What a start leaves of the wallet.
LEMMA StartWallet ==
  ASSUME TypeOK, NEW r \in Requests, StartCommit(r)
  PROVE  /\ wallet' \in [exists : BOOLEAN, purchased : Nat, consumed : Nat]
         /\ wallet'.consumed = wallet.consumed /\ wallet'.purchased >= wallet.purchased
<1>1. PICK c \in PracticalCredits : wallet' \in WalletAtStart(c)
  BY DEF StartCommit
<1>2. c \in Nat /\ wallet \in [exists : BOOLEAN, purchased : Nat, consumed : Nat]
  BY AmountsAssumption DEF TypeOK
<1>3. wallet' = wallet \/ wallet' = [wallet EXCEPT !.exists = TRUE, !.purchased = Greatest(@, c)]
  BY <1>1 DEF WalletAtStart, Granted
<1>4. Greatest(wallet.purchased, c) \in Nat /\ Greatest(wallet.purchased, c) >= wallet.purchased
  BY <1>2 DEF Greatest
<1>5. CASE wallet' = wallet
  BY <1>2, <1>5
<1>6. CASE wallet' = [wallet EXCEPT !.exists = TRUE, !.purchased = Greatest(@, c)]
  <2>1. wallet'.purchased = Greatest(wallet.purchased, c) /\ wallet'.consumed = wallet.consumed
    BY <1>2, <1>6
  <2>2. QED BY <1>2, <1>4, <1>6, <2>1
<1>7. QED BY <1>3, <1>5, <1>6

\* What it writes: n tokens for its session, whatever credit was named.
LEMMA StartForm ==
  ASSUME TypeOK, NEW r \in Requests, StartCommit(r)
  PROVE  \E n \in Nat, s \in Sessions :
           /\ row[s].status = "NONE"
           /\ row' = [Reset(req[r], row) EXCEPT ![s] = NewRow(n)]
           /\ mem' = [t \in Sessions |->
                        CASE t = s -> [status |-> "starting", arn |-> FALSE,
                                       ends |-> now + 2 * n]
                          [] t # s /\ req[r].flag /\ t = req[r].sid -> NoMem
                          [] OTHER -> mem[t]]
           /\ Goto(r, [Idle EXCEPT !.at = "startLaunch", !.sid = s, !.allocated = n])
<1>1. PICK c \in PracticalCredits : \E s \in Sessions :
        LET n == SessionTokens(wallet', c) IN
        /\ row[s].status = "NONE"
        /\ row' = [Reset(req[r], row) EXCEPT ![s] = NewRow(n)]
        /\ mem' = [t \in Sessions |->
                     CASE t = s -> [status |-> "starting", arn |-> FALSE,
                                    ends |-> now + 2 * n]
                       [] t # s /\ req[r].flag /\ t = req[r].sid -> NoMem
                       [] OTHER -> mem[t]]
        /\ Goto(r, [Idle EXCEPT !.at = "startLaunch", !.sid = s, !.allocated = n])
  BY DEF StartCommit
<1>2. SessionTokens(wallet', c) \in Nat
  BY StartWallet, AmountsAssumption DEF SessionTokens, Remaining
<1>3. QED BY <1>1, <1>2

LEMMA StartType ==
  ASSUME TypeOK, NEW r \in Requests,
         StartCommit(r) \/ StartLocal(r) \/ StartLaunch(r) \/ StartSaveArn(r)
           \/ SaveArnFails(r)
  PROVE  TypeOK'
<1> DEFINE q == req[r]
<1>1. CASE StartCommit(r)
  <2>1. PICK n \in Nat, s \in Sessions :
          /\ row' = [Reset(q, row) EXCEPT ![s] = NewRow(n)]
          /\ mem' = [t \in Sessions |->
                       CASE t = s -> [status |-> "starting", arn |-> FALSE,
                                      ends |-> now + 2 * n]
                         [] t # s /\ q.flag /\ t = q.sid -> NoMem
                         [] OTHER -> mem[t]]
          /\ Goto(r, [Idle EXCEPT !.at = "startLaunch", !.sid = s, !.allocated = n])
    BY <1>1, StartForm
  <2>2. now \in Nat /\ wallet' \in [exists : BOOLEAN, purchased : Nat, consumed : Nat]
    BY <1>1, StartWallet DEF TypeOK
  <2>3. row' \in [Sessions -> SessionRow]
    <3>1. Reset(q, row) \in [Sessions -> SessionRow]
      <4>1. q.sid \in Sessions => [row[q.sid] EXCEPT !.status = "STOPPED"] \in SessionRow
        BY RowTypes, StatusNames DEF TypeOK
      <4>2. [row EXCEPT ![q.sid].status = "STOPPED"] \in [Sessions -> SessionRow]
        BY <4>1, RowAfter
      <4>3. QED BY <4>2 DEF Reset, TypeOK
    <3>2. NewRow(n) \in SessionRow
      BY <2>2, RowTypes, InitialValues
    <3>3. QED BY <2>1, <3>1, <3>2
  <2>4. mem' \in [Sessions -> MemRecord]
    <3>1. [status |-> "starting", arn |-> FALSE, ends |-> now + 2 * n]
            \in MemRecord
      BY <2>2 DEF MemRecord, MemStatuses
    <3>2. QED BY <2>1, <3>1, InitialValues DEF TypeOK
  <2>5. req' \in [Requests -> Request]
    <3>1. [Idle EXCEPT !.at = "startLaunch", !.sid = s, !.allocated = n] \in Request
      BY <2>2, InitialValues, SettingsAssumption DEF Request, RequestRecord, Steps
    <3>2. QED BY <2>1, <3>1, ReqAfter
  <2>6. QED BY <1>1, <2>1, <2>2, <2>3, <2>4, <2>5 DEF TypeOK, StartCommit
<1>2. CASE StartLocal(r)
  <2>1. row' \in [Sessions -> SessionRow]
    <3>1. q.sid \in Sessions => Started(row[q.sid], q.allocated) \in SessionRow
      BY RowTypes, RequestFields DEF TypeOK
    <3>2. QED BY <1>2, <3>1, RowAfter DEF StartLocal
  <2>2. mem' \in [Sessions -> MemRecord]
    <3>1. q.sid \in Sessions =>
            [Hydrated(q.sid, row'[q.sid]) EXCEPT !.status = "running"] \in MemRecord
      <4>1. q.sid \in Sessions => Hydrated(q.sid, row'[q.sid]) \in MemRecord
        BY <2>1, HydratedType
      <4>2. QED BY <4>1 DEF MemRecord, MemStatuses
    <3>2. QED BY <1>2, <3>1, MemAfter DEF StartLocal
  <2>3. QED BY <1>2, <2>1, <2>2, FinishType DEF TypeOK, StartLocal
<1>3. CASE StartLaunch(r)
  <2>1. req' \in [Requests -> Request]
    <3>1. Hydrated(q.sid, row[q.sid]) \in MemRecord
      BY <1>3, RequestFields, HydratedType DEF StartLaunch, At, TypeOK
    <3>2. [q EXCEPT !.at = "startSaveArn", !.mem = Hydrated(q.sid, row[q.sid])] \in Request
      BY <1>3, <3>1, RequestFields DEF StartLaunch, At, Request, RequestRecord, Steps
    <3>3. QED BY <1>3, <3>2, ReqAfter DEF StartLaunch
  <2>2. task' \in [Sessions -> TaskStates]
    BY <1>3 DEF TypeOK, StartLaunch, TaskStates
  <2>3. QED BY <1>3, <2>1, <2>2 DEF TypeOK, StartLaunch
<1>4. CASE StartSaveArn(r)
  <2>1. row' \in [Sessions -> SessionRow]
    <3>1. q.sid \in Sessions => [row[q.sid] EXCEPT !.arn = TRUE] \in SessionRow
      BY RowTypes DEF TypeOK
    <3>2. QED BY <1>4, <3>1, RowAfter DEF StartSaveArn
  <2>2. mem' \in [Sessions -> MemRecord]
    <3>1. [q.mem EXCEPT !.arn = TRUE] \in MemRecord
      BY RequestFields DEF MemRecord
    <3>2. QED BY <1>4, <3>1, MemAfter DEF StartSaveArn
  <2>3. QED BY <1>4, <2>1, <2>2, FinishType DEF TypeOK, StartSaveArn
<1>5. CASE SaveArnFails(r)
  <2>1. PICK arn, status :
          /\ arn \in {row[q.sid].arn, TRUE} /\ status \in {row[q.sid].status, "FAILED"}
          /\ row' = [row EXCEPT ![q.sid] = [row[q.sid] EXCEPT !.arn = arn, !.status = status]]
    BY <1>5 DEF SaveArnFails
  <2>2. q.sid \in Sessions
          => [row[q.sid] EXCEPT !.arn = arn, !.status = status] \in SessionRow
    BY <2>1, StatusNames DEF TypeOK, SessionRow
  <2>3. row' \in [Sessions -> SessionRow]
    BY <2>1, <2>2, RowAfter
  <2>4. QED BY <1>5, <2>3, FinishType DEF TypeOK, SaveArnFails
<1>6. QED BY <1>1, <1>2, <1>3, <1>4, <1>5

LEMMA GetType ==
  ASSUME TypeOK, NEW r \in Requests,
         \/ \E s \in Sessions : GetRead(r, s)
         \/ GetMark(r) \/ GetDead(r) \/ GetRunning(r) \/ GetAnswer(r)
  PROVE  TypeOK'
<1> DEFINE q == req[r]
<1>1. ASSUME NEW s \in Sessions, GetRead(r, s) PROVE TypeOK'
  <2>1. /\ row[s].status \in Statuses /\ row[s].arn \in BOOLEAN
        /\ row[s].expiresAt \in Nat /\ row[s].allocated \in Nat
    BY DEF TypeOK, SessionRow
  <2>2. [Idle EXCEPT !.at = "getMark", !.sid = s,
                     !.status = row[s].status, !.arn = row[s].arn,
                     !.expiresAt = row[s].expiresAt,
                     !.allocated = row[s].allocated] \in Request
    BY <2>1, InitialValues, SettingsAssumption DEF Request, RequestRecord, Steps
  <2>3. QED BY <1>1, <2>2, ReqAfter DEF TypeOK, GetRead
<1>2. CASE GetMark(r)
  <2>1. q.sid \in Sessions /\ Mark(q) \in Statuses
    BY <1>2, RequestFields, StatusNames DEF GetMark, At, Mark
  <2>2. row' \in [Sessions -> SessionRow]
    BY <1>2, <2>1, StatusAfter DEF GetMark, TypeOK
  <2>3. Hydrated(q.sid, row'[q.sid]) \in MemRecord
    BY <2>1, <2>2, HydratedType
  <2>4. [q EXCEPT !.at = "getFinish", !.status = Mark(q),
                  !.mem = Hydrated(q.sid, row'[q.sid])] \in Request
    BY <2>1, <2>3, RequestFields, SettingsAssumption DEF Request, RequestRecord, Steps
  <2>5. QED BY <1>2, <2>2, <2>4, ReqAfter DEF TypeOK, GetMark
<1>3. CASE GetDead(r)
  <2>1. row' \in [Sessions -> SessionRow] /\ mem' \in [Sessions -> MemRecord]
    BY <1>3, StatusAfter, StatusNames, DropMemType DEF GetDead
  <2>2. QED BY <1>3, <2>1, FinishType DEF TypeOK, GetDead
<1>4. CASE GetRunning(r)
  <2>1. row' \in [Sessions -> SessionRow]
    <3>1. q.sid \in Sessions => Started(row[q.sid], q.allocated) \in SessionRow
      BY RowTypes, RequestFields DEF TypeOK
    <3>2. QED BY <1>4, <3>1, RowAfter DEF GetRunning
  <2>2. mem' \in [Sessions -> MemRecord]
    <3>1. [q.mem EXCEPT !.status = "running"] \in MemRecord
      BY RequestFields DEF MemRecord, MemStatuses
    <3>2. q.sid \in Sessions =>
            [mem[q.sid] EXCEPT !.status = IF @ = "none" THEN @ ELSE "running"] \in MemRecord
      BY DEF TypeOK, MemRecord, MemStatuses
    <3>3. QED BY <1>4, <3>1, <3>2, MemAfter DEF GetRunning
  <2>3. QED BY <1>4, <2>1, <2>2, FinishType DEF TypeOK, GetRunning
<1>5. CASE GetAnswer(r)
  <2>1. row' \in [Sessions -> SessionRow] /\ mem' \in [Sessions -> MemRecord]
    BY <1>5, StatusAfter, StatusNames, DropMemType DEF TypeOK, GetAnswer
  <2>2. QED BY <1>5, <2>1, FinishType DEF TypeOK, GetAnswer
<1>6. QED BY <1>1, <1>2, <1>3, <1>4, <1>5

LEMMA ExtendType ==
  ASSUME TypeOK, NEW r \in Requests,
         \/ \E s \in Sessions, k \in ExtKeys : ExtendRead(r, s, k)
         \/ ExtendCommit(r)
  PROVE  TypeOK'
<1> DEFINE q == req[r]
<1>1. ASSUME NEW s \in Sessions, NEW k \in ExtKeys, ExtendRead(r, s, k) PROVE TypeOK'
  <2>1. row[s].expiresAt \in Nat
    BY DEF TypeOK, SessionRow
  <2>2. [Idle EXCEPT !.at = "extendCommit", !.sid = s, !.key = k,
                     !.expiresAt = row[s].expiresAt] \in Request
    BY <2>1, InitialValues, SettingsAssumption DEF Request, RequestRecord, Steps
  <2>3. QED BY <1>1, <2>2, ReqAfter DEF TypeOK, ExtendRead
<1>2. CASE ExtendCommit(r)
  <2>1. CASE UNCHANGED <<row, money>>
    BY <1>2, <2>1, FinishType DEF TypeOK, ExtendCommit
  <2>2. CASE ~(credit < ExtCost \/ AlreadyPaid(q.key))
    <3> DEFINE ends == Greatest(now, q.expiresAt) + 2 * ExtMinutes
               new  == [row[q.sid] EXCEPT !.status = "RUNNING",
                           !.allocated = row[q.sid].allocated + ExtCost,
                           !.expiresAt = ends]
    <3>1. q.sid \in Sessions /\ q.key \in ExtKeys /\ ends \in Nat
      BY <1>2, RequestFields, AmountsAssumption DEF ExtendCommit, At, TypeOK, Greatest
    <3>2. row[q.sid] \in SessionRow /\ row[q.sid].allocated \in Nat
      BY <3>1 DEF TypeOK, SessionRow
    <3>3. new \in SessionRow
      <4>1. row[q.sid].allocated + ExtCost \in Nat
        BY <3>2, AmountsAssumption
      <4>2. QED
        <5> HIDE DEF ends
        <5> QED BY <3>1, <3>2, <4>1, StatusNames DEF SessionRow
    <3>4. row' = [row EXCEPT ![q.sid] = new]
      BY <1>2, <2>2, <3>1 DEF ExtendCommit, TypeOK
    <3>5. row' \in [Sessions -> SessionRow]
      <4> HIDE DEF new
      <4> QED BY <3>3, <3>4, RowAfter
    <3>6. credit' \in Nat /\ extUsed' \subseteq ExtKeys
      BY <1>2, <2>2, <3>1, AmountsAssumption DEF TypeOK, ExtendCommit
    <3>7. QED BY <1>2, <2>2, <3>5, <3>6, FinishType DEF TypeOK, ExtendCommit
  <2>3. QED BY <1>2, <2>1, <2>2 DEF ExtendCommit
<1>3. QED BY <1>1, <1>2

LEMMA StopType ==
  ASSUME TypeOK, NEW r \in Requests,
         \/ \E s \in Sessions : StopBilling(r, s)
         \/ StopTask(r) \/ StopMark(r) \/ ListFinish(r)
  PROVE  TypeOK'
<1> DEFINE q == req[r]
<1>1. ASSUME NEW s \in Sessions, StopBilling(r, s) PROVE TypeOK'
  <2>1. [Idle EXCEPT !.at = "stopTask", !.sid = s] \in Request
    BY InitialValues, SettingsAssumption DEF Request, RequestRecord, Steps
  <2>2. req' \in [Requests -> Request]
    BY <1>1, <2>1, ReqAfter DEF StopBilling
  <2>3. CASE FinalizeBilling(s)
    BY <1>1, <2>2, <2>3, FinalizeType DEF TypeOK, StopBilling
  <2>4. CASE UNCHANGED <<row, money>>
    BY <1>1, <2>2, <2>4 DEF TypeOK, StopBilling
  <2>5. QED BY <1>1, <2>3, <2>4 DEF StopBilling
<1>2. CASE StopTask(r)
  <2>1. [q EXCEPT !.at = "stopMark"] \in Request
    BY <1>2, RequestFields, SettingsAssumption
       DEF StopTask, At, Request, RequestRecord, Steps
  <2>2. task' \in [Sessions -> TaskStates]
    BY <1>2, EcsStopType DEF TypeOK, StopTask
  <2>3. QED BY <1>2, <2>1, <2>2, ReqAfter DEF TypeOK, StopTask
<1>3. CASE StopMark(r)
  <2>1. row' \in [Sessions -> SessionRow] /\ mem' \in [Sessions -> MemRecord]
    BY <1>3, StatusAfter, StatusNames, DropMemType DEF StopMark
  <2>2. QED BY <1>3, <2>1, FinishType DEF TypeOK, StopMark
<1>4. CASE ListFinish(r)
  <2>1. row' \in [Sessions -> SessionRow] /\ mem' \in [Sessions -> MemRecord]
    BY <1>4, StatusAfter, StatusNames, DropMemType DEF TypeOK, ListFinish
  <2>2. QED BY <1>4, <2>1, FinishType DEF TypeOK, ListFinish
<1>5. QED BY <1>1, <1>2, <1>3, <1>4

LEMMA BuyType ==
  ASSUME TypeOK, BuyTokens
  PROVE  TypeOK'
<1>1. PICK n \in 1 .. MaxTokens :
        /\ wallet' = [wallet EXCEPT !.exists = TRUE, !.purchased = @ + n]
        /\ credit' = credit + 2 * n
  BY DEF BuyTokens
<1>2. n \in Nat
  BY AmountsAssumption
<1>3. wallet.purchased + n \in Nat /\ wallet.consumed \in Nat
  BY <1>2 DEF TypeOK
<1>4. wallet' = [exists |-> TRUE, purchased |-> wallet.purchased + n,
                 consumed |-> wallet.consumed]
  BY <1>1 DEF TypeOK
<1>5. credit' \in Nat
  BY <1>1, <1>2 DEF TypeOK
<1>6. QED BY <1>3, <1>4, <1>5 DEF TypeOK, BuyTokens

\* Whatever handlers, workers, containers and restarts do, in any order,
\* every store keeps holding the kind of value its schema gives it.
THEOREM TypeCorrect == Spec => []TypeOK
<1>1. Init => TypeOK
  BY InitialValues, AmountsAssumption
     DEF Init, TypeOK, TaskStates, JobStates, Lapsing
<1>2. TypeOK /\ [Next]_vars => TypeOK'
  <2> SUFFICES ASSUME TypeOK, [Next]_vars PROVE TypeOK'
    OBVIOUS
  <2>1. CASE Handlers
    BY <2>1, RefusalsType, StartType, GetType, ExtendType, StopType, BuyType DEF Handlers
  <2>2. CASE Workers
    BY <2>2, WorkersType
  <2>3. CASE Environment
    BY <2>3, EnvironmentType
  <2>4. CASE UNCHANGED vars
    BY <2>4 DEF TypeOK
  <2>5. QED BY <2>1, <2>2, <2>3, <2>4 DEF Next
<1>3. QED BY <1>1, <1>2, PTL DEF Spec

-----------------------------------------------------------------------------
(* What becomes of a session *)

\* A row that is written again: its ARN stays, and it becomes neither unused
\* nor active by that.
Ends(x, y) ==
  /\ x.arn => y.arn
  /\ y.status = "NONE" => x.status = "NONE"
  /\ y.status \in Active => x.status \in Active

\* The same, of a row that may become active.
Written(x, y) ==
  /\ x.arn => y.arn
  /\ y.status = "NONE" => x.status = "NONE"

LEMMA RowEnds ==
  ASSUME TypeOK, NEW s, NEW v, s \in Sessions => Ends(row[s], v),
         row' = [row EXCEPT ![s] = v]
  PROVE  \A t \in Sessions : Ends(row[t], row'[t])
BY DEF TypeOK, Ends

LEMMA RowWritten ==
  ASSUME TypeOK, NEW s, NEW v, s \in Sessions => Written(row[s], v),
         row' = [row EXCEPT ![s] = v]
  PROVE  \A t \in Sessions : Written(row[t], row'[t])
BY DEF TypeOK, Written

LEMMA StatusEnds ==
  ASSUME TypeOK, NEW s, NEW st, st \notin Active \cup {"NONE"}, SetStatus(s, st)
  PROVE  \A t \in Sessions : Ends(row[t], row'[t])
<1>1. s \in Sessions => Ends(row[s], [row[s] EXCEPT !.status = st])
  BY DEF TypeOK, SessionRow, Ends
<1>2. QED BY <1>1, RowEnds DEF SetStatus

LEMMA StatusWritten ==
  ASSUME TypeOK, NEW s, NEW st, st # "NONE", SetStatus(s, st)
  PROVE  \A t \in Sessions : Written(row[t], row'[t])
<1>1. s \in Sessions => Written(row[s], [row[s] EXCEPT !.status = st])
  BY DEF TypeOK, SessionRow, Written
<1>2. QED BY <1>1, RowWritten DEF SetStatus

LEMMA StartedWritten ==
  ASSUME TypeOK, NEW s, NEW n, row' = [row EXCEPT ![s] = Started(row[s], n)]
  PROVE  \A t \in Sessions : Written(row[t], row'[t])
<1>1. s \in Sessions => Written(row[s], Started(row[s], n))
  BY DEF TypeOK, SessionRow, Written, Started
<1>2. QED BY <1>1, RowWritten

\* A billing transaction makes no session active that was not.
LEMMA BillingEnds ==
  ASSUME TypeOK, NEW s \in Sessions, BillSession(s) \/ FinalizeBilling(s)
  PROVE  \A t \in Sessions : Ends(row[t], row'[t])
<1>1. CASE Promote(s)
  <2> DEFINE v == Started(row[s], row[s].allocated)
  <2>1. Ends(row[s], v) /\ Ends(row[s], [v EXCEPT !.status = "STOPPING"])
    BY <1>1 DEF TypeOK, SessionRow, Ends, Started, Promote, Active
  <2>2. row' = [row EXCEPT ![s] = v] \/ row' = [row EXCEPT ![s] = [v EXCEPT !.status = "STOPPING"]]
    BY <1>1 DEF Promote
  <2>3. QED
    <3> HIDE DEF v
    <3> QED BY <2>1, <2>2, RowEnds
<1>2. CASE BillNothingLeft(s)
  BY <1>2, StatusEnds DEF BillNothingLeft, Exhaust, Active
<1>3. CASE BillMinutes(s)
  <2> DEFINE n == Payable(Unbilled(s))
  <2>1. PICK low, st : /\ row' = [row EXCEPT ![s] =
                            [Billed(row[s], n) EXCEPT !.warned = low, !.status = st]]
                       /\ st \in {"STOPPING", row[s].status}
    <3>1. row' = [row EXCEPT ![s] =
               [Billed(row[s], n) EXCEPT
                  !.warned = Greatest(0, Remaining(wallet) - n) =< LowBalance,
                  !.status = IF Greatest(0, Remaining(wallet) - n) = 0 /\ ~WithinAllocated(s)
                               THEN "STOPPING" ELSE row[s].status]]
      BY <1>3 DEF BillMinutes
    <3> HIDE DEF n
    <3>2. QED BY <3>1
  <2>2. Ends(row[s], [Billed(row[s], n) EXCEPT !.warned = low, !.status = st])
    <3> HIDE DEF n
    <3> QED BY <2>1 DEF TypeOK, SessionRow, Ends, Billed, Active
  <2>3. QED
    <3> HIDE DEF n
    <3> QED BY <2>1, <2>2, RowEnds
<1>4. CASE FinalizeBilling(s)
  <2>1. CASE row' = row
    BY <2>1 DEF Ends
  <2>2. CASE SetStatus(s, "STOPPING")
    BY <2>2, StatusEnds DEF Active
  <2>3. ASSUME NEW n, row' = [row EXCEPT ![s] = [Billed(row[s], n) EXCEPT !.status = "STOPPING"]]
        PROVE \A t \in Sessions : Ends(row[t], row'[t])
    <3>1. Ends(row[s], [Billed(row[s], n) EXCEPT !.status = "STOPPING"])
      BY DEF TypeOK, SessionRow, Ends, Billed, Active
    <3>2. QED BY <2>3, <3>1, RowEnds
  <2>4. QED BY <1>4, <2>1, <2>2, <2>3 DEF FinalizeBilling
<1>5. QED BY <1>1, <1>2, <1>3, <1>4 DEF BillSession

\* What a step can make of the rows.
LEMMA RowSteps ==
  ASSUME TypeOK, [Next]_vars
  PROVE  \/ \A t \in Sessions : Ends(row[t], row'[t])
         \/ /\ \A t \in Sessions : Written(row[t], row'[t])
            /\ \E r \in Requests : StartLocal(r) \/ GetMark(r) \/ GetRunning(r) \/ ExtendCommit(r)
         \/ \E r \in Requests : StartCommit(r)
<1> DEFINE Over == \A t \in Sessions : Ends(row[t], row'[t])
           Kept == \A t \in Sessions : Written(row[t], row'[t])
<1>1. CASE row' = row
  BY <1>1 DEF Ends
<1>2. ASSUME NEW s, NEW st, st \in {"STOPPED", "STOPPING", "EXPIRED", "FAILED"}, SetStatus(s, st)
      PROVE Over
  BY <1>2, StatusEnds DEF Active
<1>3. CASE Workers
  <2>1. ASSUME NEW s \in Sessions, BillSession(s) PROVE Over
    BY <2>1, BillingEnds
  <2>2. CASE \A s \in Sessions : ~BillSession(s)
    BY <1>1, <1>2, <1>3, <2>2
       DEF Workers, ProcessStopCall, ProcessStopWrite, StopCycle, ExpiryStop, Exhaust,
           LapseCall, LapseMark, SyncList, SyncMark, CleanupRecord, ExpiryScan, LapseScan
  <2>3. QED BY <2>1, <2>2
<1>4. CASE Handlers
  <2>1. ASSUME NEW r \in Requests,
               \/ StartCheck(r) \/ StartRefuse(r) \/ StartLaunch(r) \/ StopTask(r)
               \/ ListRead(r) \/ \E s \in Sessions : GetRead(r, s)
               \/ \E s \in Sessions, k \in ExtKeys : ExtendRead(r, s, k)
        PROVE Over
    BY <1>1, <2>1 DEF StartCheck, StartRefuse, StartLaunch, StopTask, ListRead, GetRead,
                      ExtendRead, Ends
  <2>2. ASSUME NEW r \in Requests,
               StartFails(r) \/ GetDead(r) \/ GetAnswer(r) \/ StopMark(r) \/ ListFinish(r)
        PROVE Over
    BY <1>2, <2>2 DEF StartFails, GetDead, GetAnswer, StopMark, ListFinish, Ends
  <2>3. ASSUME NEW r \in Requests, StartLocal(r) \/ GetRunning(r) PROVE Kept
    BY <2>3, StartedWritten DEF StartLocal, GetRunning
  <2>4. ASSUME NEW r \in Requests, GetMark(r) PROVE Kept
    <3>1. row' = row \/ SetStatus(req[r].sid, "EXPIRING_SOON") \/ SetStatus(req[r].sid, "EXPIRED")
      BY <2>4 DEF GetMark, Mark
    <3>2. QED BY <3>1, StatusWritten DEF Written
  <2>5. ASSUME NEW r \in Requests, ExtendCommit(r) PROVE Kept
    <3>1. CASE row' = row
      BY <3>1 DEF Written
    <3>2. CASE row' # row
      <4>1. PICK a, x : row' = [row EXCEPT ![req[r].sid] =
                [row[req[r].sid] EXCEPT !.status = "RUNNING", !.allocated = a, !.expiresAt = x]]
        BY <2>5, <3>2 DEF ExtendCommit
      <4>2. req[r].sid \in Sessions => Written(row[req[r].sid],
                [row[req[r].sid] EXCEPT !.status = "RUNNING", !.allocated = a, !.expiresAt = x])
        BY DEF TypeOK, SessionRow, Written
      <4>3. QED BY <4>1, <4>2, RowWritten
    <3>3. QED BY <3>1, <3>2
  <2>6. ASSUME NEW r \in Requests, StartSaveArn(r) PROVE Over
    <3>1. req[r].sid \in Sessions => Ends(row[req[r].sid], [row[req[r].sid] EXCEPT !.arn = TRUE])
      BY DEF TypeOK, SessionRow, Ends
    <3>2. QED BY <2>6, <3>1, RowEnds DEF StartSaveArn
  <2>7. ASSUME NEW r \in Requests, NEW s \in Sessions, StopBilling(r, s) PROVE Over
    BY <1>1, <2>7, BillingEnds DEF StopBilling, Ends
  <2>8. CASE BuyTokens
    BY <1>1, <2>8 DEF BuyTokens
  <2>9. ASSUME NEW r \in Requests, SaveArnFails(r) PROVE Over
    <3> DEFINE s == req[r].sid
    <3>1. PICK arn, status :
            /\ arn \in {row[s].arn, TRUE} /\ status \in {row[s].status, "FAILED"}
            /\ row' = [row EXCEPT ![s] = [row[s] EXCEPT !.arn = arn, !.status = status]]
      BY <2>9 DEF SaveArnFails
    <3>2. s \in Sessions => Ends(row[s], [row[s] EXCEPT !.arn = arn, !.status = status])
      BY <3>1 DEF TypeOK, SessionRow, Ends, Active
    <3>3. QED BY <3>1, <3>2, RowEnds
  <2>10. QED
    BY <1>4, <2>1, <2>2, <2>3, <2>4, <2>5, <2>6, <2>7, <2>8, <2>9 DEF Handlers
<1>5. CASE Environment \/ UNCHANGED vars
  BY <1>1, <1>5 DEF Environment, Tick, Restart, TaskUp, TaskDies
<1>6. QED BY <1>3, <1>4, <1>5 DEF Next

\* Of a row the start of a session writes, or makes room for.
LEMMA StartCommitRows ==
  ASSUME TypeOK, NEW r \in Requests, StartCommit(r)
  PROVE  \E s \in Sessions, n \in Nat :
            /\ row[s].status = "NONE" /\ row'[s] = NewRow(n)
            /\ req' = [req EXCEPT ![r] = [Idle EXCEPT !.at = "startLaunch", !.sid = s,
                                                      !.allocated = n]]
            /\ \A t \in Sessions \ {s} : Ends(row[t], row'[t])
<1> DEFINE q == req[r]
<1>1. PICK n \in Nat, s \in Sessions :
        /\ row[s].status = "NONE"
        /\ row' = [Reset(q, row) EXCEPT ![s] = NewRow(n)]
        /\ req' = [req EXCEPT ![r] = [Idle EXCEPT !.at = "startLaunch", !.sid = s,
                                                  !.allocated = n]]
  BY StartForm DEF Goto
<1>2. n \in Nat
  OBVIOUS
<1>3. row'[s] = NewRow(n)
  BY <1>1 DEF Reset, TypeOK
<1>4. \A t \in Sessions : Ends(row[t], Reset(q, row)[t])
  BY DEF Reset, Ends, TypeOK, SessionRow, Active
<1>5. \A t \in Sessions \ {s} : row'[t] = Reset(q, row)[t]
  BY <1>1 DEF Reset, TypeOK
<1>6. QED BY <1>1, <1>2, <1>3, <1>4, <1>5

\* A running task has its row, and a row that was never used has no task.
RecordInv ==
  /\ TasksAreRecorded
  /\ \A s \in Sessions : row[s].status = "NONE" => task[s] \notin LiveTask
  /\ \A r \in Requests : At(r, "startLaunch") => row[req[r].sid].status # "NONE"

NoNewTask == \A s \in Sessions : task'[s] \in LiveTask => task[s] \in LiveTask

\* A request that is about to save an ARN is still about to, and none is
\* about to launch that was not.
SameLaunches ==
  \A r \in Requests : /\ At(r, "startSaveArn") => req'[r] = req[r]
                      /\ At(r, "startLaunch")' => req'[r] = req[r]

LEMMA OtherTasks ==
  ASSUME TypeOK, [Next]_vars, \A r \in Requests : ~StartLaunch(r)
  PROVE  NoNewTask
<1>1. CASE task' = task
  BY <1>1 DEF NoNewTask
<1>2. ASSUME NEW s, NEW b, EcsStop(s, b) PROVE NoNewTask
  BY <1>2 DEF EcsStop, NoNewTask, TypeOK, LiveTask
<1>3. CASE Workers
  BY <1>1, <1>2, <1>3
     DEF Workers, BillSession, ProcessStopCall, ProcessStopWrite, StopCycle, ExpiryStop,
         LapseCall, LapseMark, SyncList, SyncMark, CleanupRecord, ExpiryScan, LapseScan
<1>4. CASE Handlers
  BY <1>1, <1>2, <1>4
     DEF Handlers, StartCheck, StartRefuse, StartCommit, StartLocal, StartFails,
         StartSaveArn, SaveArnFails, GetRead, GetMark, GetDead, GetRunning, GetAnswer, ExtendRead,
         ExtendCommit, StopBilling, StopTask, StopMark, ListRead, ListFinish, BuyTokens
<1>5. CASE Environment
  BY <1>1, <1>5 DEF Environment, Tick, Restart, TaskUp, TaskDies, NoNewTask, TypeOK, LiveTask
<1>6. QED BY <1>1, <1>3, <1>4, <1>5 DEF Next

LEMMA OtherRequests ==
  ASSUME TypeOK, [Next]_vars, Faults \cap {"restart", "save"} = {},
         \A r \in Requests : ~StartCommit(r) /\ ~StartLaunch(r) /\ ~StartSaveArn(r)
  PROVE  SameLaunches
<1>1. CASE req' = req
  BY <1>1 DEF SameLaunches, At
<1>2. ASSUME NEW r \in Requests, NEW q, Goto(r, q), ~At(r, "startSaveArn"), q.at # "startLaunch"
      PROVE  SameLaunches
  BY <1>2 DEF SameLaunches, Goto, At, TypeOK
<1>3. ASSUME NEW r \in Requests, Finish(r), ~At(r, "startSaveArn") PROVE SameLaunches
  BY <1>2, <1>3 DEF Finish, Idle
<1>4. CASE Handlers
  <2>1. ASSUME NEW r \in Requests, StartCheck(r) PROVE SameLaunches
    BY <1>2, <2>1 DEF StartCheck, Arrives, At, Idle
  <2>2. ASSUME NEW r \in Requests, \E s \in Sessions : GetRead(r, s) \/ StopBilling(r, s)
        PROVE SameLaunches
    BY <1>2, <2>2 DEF GetRead, StopBilling, Arrives, At, Idle
  <2>3. ASSUME NEW r \in Requests, \E s \in Sessions, k \in ExtKeys : ExtendRead(r, s, k)
        PROVE SameLaunches
    BY <1>2, <2>3 DEF ExtendRead, Arrives, At, Idle
  <2>4. ASSUME NEW r \in Requests, ListRead(r) PROVE SameLaunches
    BY <1>2, <2>4 DEF ListRead, Arrives, At, Idle
  <2>5. ASSUME NEW r \in Requests, GetMark(r) PROVE SameLaunches
    <3>1. [req[r] EXCEPT !.at = "getFinish", !.status = Mark(req[r]),
                         !.mem = Hydrated(req[r].sid, row'[req[r].sid])].at # "startLaunch"
      BY RequestFields DEF Request, RequestRecord
    <3>2. QED BY <1>2, <2>5, <3>1 DEF GetMark, At
  <2>6. ASSUME NEW r \in Requests, StopTask(r) PROVE SameLaunches
    <3>1. [req[r] EXCEPT !.at = "stopMark"].at # "startLaunch"
      BY RequestFields DEF Request, RequestRecord
    <3>2. QED BY <1>2, <2>6, <3>1 DEF StopTask, At
  <2>7. ASSUME NEW r \in Requests,
               \/ StartRefuse(r) \/ StartLocal(r) \/ StartFails(r) \/ GetDead(r)
               \/ GetRunning(r) \/ GetAnswer(r) \/ ExtendCommit(r) \/ StopMark(r) \/ ListFinish(r)
        PROVE SameLaunches
    BY <1>3, <2>7 DEF StartRefuse, StartLocal, StartFails, GetDead, GetRunning, GetAnswer,
                      ExtendCommit, StopMark, ListFinish, At
  <2>8. CASE BuyTokens
    BY <1>1, <2>8 DEF BuyTokens
  <2>9. QED
    BY <1>4, <2>1, <2>2, <2>3, <2>4, <2>5, <2>6, <2>7, <2>8 DEF Handlers, SaveArnFails
<1>5. CASE Workers
  BY <1>1, <1>5
     DEF Workers, BillSession, ProcessStopCall, ProcessStopWrite, StopCycle, ExpiryStop,
         LapseCall, LapseMark, SyncList, SyncMark, CleanupRecord, ExpiryScan, LapseScan
<1>6. CASE Environment \/ UNCHANGED vars
  BY <1>1, <1>6 DEF Environment, Tick, Restart, TaskUp, TaskDies
<1>7. QED BY <1>4, <1>5, <1>6 DEF Next

\* Every row keeps its ARN and none becomes unused, unless a session starts.
LEMMA OtherRows ==
  ASSUME TypeOK, [Next]_vars, \A r \in Requests : ~StartCommit(r)
  PROVE  \A t \in Sessions : Written(row[t], row'[t])
BY RowSteps DEF Ends, Written

LEMMA RecordStep ==
  ASSUME Faults \cap {"restart", "save"} = {}
  PROVE  TypeOK /\ RecordInv /\ [Next]_vars => RecordInv'
<1> SUFFICES ASSUME TypeOK, RecordInv, [Next]_vars PROVE RecordInv'
  OBVIOUS
<1>1. \A r \in Requests : ~At(r, "idle") /\ ~At(r, "startCommit") => req[r].sid \in Sessions
  BY RequestFields DEF At
<1>2. ASSUME NEW r \in Requests, StartCommit(r) PROVE RecordInv'
  <2>1. PICK s \in Sessions, n \in Nat :
            /\ row[s].status = "NONE" /\ row'[s] = NewRow(n)
            /\ req' = [req EXCEPT ![r] = [Idle EXCEPT !.at = "startLaunch", !.sid = s,
                                                      !.allocated = n]]
            /\ \A t \in Sessions \ {s} : Ends(row[t], row'[t])
    BY <1>2, StartCommitRows
  <2>2. task' = task /\ At(r, "startCommit")
    BY <1>2 DEF StartCommit
  <2>3. row'[s].status = "STARTING" /\ task[s] \notin LiveTask
    BY <2>1 DEF NewRow, NoRow, RecordInv
  <2>4. req'[r].at = "startLaunch" /\ req'[r].sid = s
          /\ \A p \in Requests \ {r} : req'[p] = req[p]
    BY <2>1 DEF TypeOK, Idle
  <2>5. \A p \in Requests : At(p, "startSaveArn") => req'[p] = req[p]
    BY <2>2, <2>4 DEF At
  <2>6. TasksAreRecorded'
    BY <2>1, <2>2, <2>3, <2>5 DEF RecordInv, TasksAreRecorded, Ends, At
  <2>7. \A p \in Requests : At(p, "startLaunch")' => row'[req'[p].sid].status # "NONE"
    <3>1. ASSUME NEW p \in Requests \ {r}, At(p, "startLaunch") PROVE row'[req[p].sid].status # "NONE"
      BY <1>1, <2>1, <2>3, <3>1 DEF RecordInv, Ends, At
    <3>2. QED BY <2>3, <2>4, <3>1 DEF At
  <2>8. QED BY <2>1, <2>2, <2>3, <2>6, <2>7 DEF RecordInv, Ends
<1>3. ASSUME NEW r \in Requests, StartLaunch(r) PROVE RecordInv'
  <2> DEFINE s == req[r].sid
  <2>1. s \in Sessions /\ At(r, "startLaunch") /\ row' = row
          /\ task' = [task EXCEPT ![s] = "pending"]
    BY <1>1, <1>3 DEF StartLaunch, At
  <2>2. row[s].status # "NONE"
    BY <2>1 DEF RecordInv
  <2>3. req'[r].at = "startSaveArn" /\ req'[r].sid = s
          /\ \A p \in Requests \ {r} : req'[p] = req[p]
    <3>1. req[r] \in RequestRecord
      BY RequestFields DEF Request
    <3>2. QED BY <1>3, <3>1 DEF StartLaunch, Goto, TypeOK, RequestRecord
  <2>4. \A p \in Requests : At(p, "startSaveArn") => req'[p] = req[p]
    BY <2>1, <2>3 DEF At
  <2>5. TasksAreRecorded'
    BY <2>1, <2>3, <2>4 DEF RecordInv, TasksAreRecorded, At, TypeOK
  <2>6. QED BY <2>1, <2>2, <2>3, <2>5 DEF RecordInv, At, TypeOK
<1>4. ASSUME NEW r \in Requests, StartSaveArn(r) PROVE RecordInv'
  <2>1. req[r].sid \in Sessions /\ row'[req[r].sid].arn /\ task' = task
    BY <1>1, <1>4 DEF StartSaveArn, At, TypeOK, SessionRow
  <2>2. \A t \in Sessions : Written(row[t], row'[t])
    <3>1. req[r].sid \in Sessions => Written(row[req[r].sid], [row[req[r].sid] EXCEPT !.arn = TRUE])
      BY DEF TypeOK, SessionRow, Written
    <3>2. QED BY <1>4, <3>1, RowWritten DEF StartSaveArn
  <2>3. req'[r].at = "idle" /\ \A p \in Requests \ {r} : req'[p] = req[p]
    BY <1>4 DEF StartSaveArn, Finish, Goto, Idle, TypeOK
  <2>4. TasksAreRecorded'
    BY <2>1, <2>2, <2>3 DEF RecordInv, TasksAreRecorded, At, Written
  <2>5. \A p \in Requests : At(p, "startLaunch")' => row'[req'[p].sid].status # "NONE"
    BY <1>1, <2>2, <2>3 DEF RecordInv, At, Written
  <2>6. QED BY <2>1, <2>2, <2>4, <2>5 DEF RecordInv, Written
<1>5. CASE \A r \in Requests : ~StartCommit(r) /\ ~StartLaunch(r) /\ ~StartSaveArn(r)
  <2>1. \A t \in Sessions : Written(row[t], row'[t])
    BY <1>5, OtherRows
  <2>2. NoNewTask /\ SameLaunches
    BY <1>5, OtherTasks, OtherRequests
  <2>3. TasksAreRecorded'
    BY <2>1, <2>2 DEF RecordInv, TasksAreRecorded, NoNewTask, SameLaunches, Written, At
  <2>4. \A p \in Requests : At(p, "startLaunch")' => row'[req'[p].sid].status # "NONE"
    BY <1>1, <2>1, <2>2 DEF RecordInv, SameLaunches, Written, At
  <2>5. QED BY <2>1, <2>2, <2>3, <2>4 DEF RecordInv, NoNewTask, Written
<1>6. QED BY <1>2, <1>3, <1>4, <1>5

\* As long as the process does not die and its stores can be written, a task
\* that runs is in its row or about to be written there, whatever polls, stops, timers and failing calls
\* do to the row while the task is launched.
THEOREM TasksAlwaysRecorded ==
  ASSUME Faults \cap {"restart", "save"} = {}
  PROVE  Spec => []TasksAreRecorded
<1>1. Init => RecordInv
  BY DEF Init, RecordInv, TasksAreRecorded, LiveTask, At, Idle
<1>2. TypeOK /\ RecordInv /\ [Next]_vars => RecordInv'
  BY RecordStep
<1>3. RecordInv => TasksAreRecorded
  BY DEF RecordInv
<1>4. QED BY <1>1, <1>2, <1>3, TypeCorrect, PTL DEF Spec

\* No poll and no extension is under way.
NoRevival == \A r \in Requests : req[r].at \notin {"getMark", "getFinish", "extendCommit"}

\* With containers, and nobody polling or extending, no interleaving of
\* starts, stops, lists and timers makes an ended session active again.
THEOREM EndedNeverRevived ==
  ASSUME EcsEnabled, Ops \cap {"get", "extend"} = {}
  PROVE  Spec => EndedStaysEnded
<1> DEFINE Good == \A s \in Sessions :
              row[s].status \notin Active \cup {"NONE"} => row'[s].status \notin Active
<1>1. Init => NoRevival
  BY DEF Init, NoRevival, Idle
<1>2. TypeOK /\ NoRevival /\ [Next]_vars => NoRevival'
  <2> SUFFICES ASSUME TypeOK, NoRevival, [Next]_vars PROVE NoRevival'
    OBVIOUS
  <2>1. CASE req' = req
    BY <2>1 DEF NoRevival
  <2>2. ASSUME NEW r \in Requests, NEW q, Goto(r, q),
               q.at \notin {"getMark", "getFinish", "extendCommit"}
        PROVE NoRevival'
    BY <2>2 DEF NoRevival, Goto, TypeOK
  <2>3. ASSUME NEW r \in Requests, Finish(r) PROVE NoRevival'
    BY <2>2, <2>3 DEF Finish, Idle
  <2>4. ASSUME NEW r \in Requests,
               StartCheck(r) \/ StartCommit(r) \/ ListRead(r) \/ \E s \in Sessions : StopBilling(r, s)
        PROVE NoRevival'
    BY <2>2, <2>4 DEF StartCheck, StartCommit, ListRead, StopBilling, Idle
  <2>5. ASSUME NEW r \in Requests, StartLaunch(r) \/ StopTask(r) PROVE NoRevival'
    <3>1. req[r] \in RequestRecord
      BY RequestFields DEF Request
    <3>2. \A m : [req[r] EXCEPT !.at = "startSaveArn", !.mem = m].at = "startSaveArn"
      BY <3>1 DEF RequestRecord
    <3>3. [req[r] EXCEPT !.at = "stopMark"].at = "stopMark"
      BY <3>1 DEF RequestRecord
    <3>4. QED BY <2>2, <2>5, <3>2, <3>3 DEF StartLaunch, StopTask
  <2>6. CASE Handlers
    <3>1. ASSUME NEW r \in Requests,
                 \/ StartRefuse(r) \/ StartLocal(r) \/ StartFails(r) \/ StartSaveArn(r)
                 \/ SaveArnFails(r) \/ StopMark(r) \/ ListFinish(r)
          PROVE NoRevival'
      BY <2>3, <3>1 DEF StartRefuse, StartLocal, StartFails, StartSaveArn, SaveArnFails,
                        StopMark, ListFinish
    <3>2. \A r \in Requests :
            /\ ~GetMark(r) /\ ~GetDead(r) /\ ~GetRunning(r) /\ ~GetAnswer(r) /\ ~ExtendCommit(r)
            /\ \A s \in Sessions : ~GetRead(r, s) /\ \A k \in ExtKeys : ~ExtendRead(r, s, k)
      BY DEF NoRevival, GetMark, GetDead, GetRunning, GetAnswer, ExtendCommit, GetRead,
             ExtendRead, Arrives, At
    <3>3. QED BY <2>1, <2>4, <2>5, <2>6, <3>1, <3>2 DEF Handlers, BuyTokens
  <2>7. CASE Workers
    BY <2>1, <2>7
       DEF Workers, BillSession, ProcessStopCall, ProcessStopWrite, StopCycle, ExpiryStop,
           LapseCall, LapseMark, SyncList, SyncMark, CleanupRecord, ExpiryScan, LapseScan
  <2>8. CASE Environment \/ UNCHANGED vars
    BY <2>1, <2>8 DEF Environment, Tick, Restart, TaskUp, TaskDies, NoRevival, Idle
  <2>9. QED BY <2>6, <2>7, <2>8 DEF Next
<1>3. TypeOK /\ NoRevival /\ [Next]_vars => Good
  <2> SUFFICES ASSUME TypeOK, NoRevival, [Next]_vars PROVE Good
    OBVIOUS
  <2>1. \A r \in Requests : ~StartLocal(r) /\ ~GetMark(r) /\ ~GetRunning(r) /\ ~ExtendCommit(r)
    BY DEF NoRevival, StartLocal, GetMark, GetRunning, ExtendCommit, At
  <2>2. CASE \A t \in Sessions : Ends(row[t], row'[t])
    BY <2>2 DEF Ends
  <2>3. ASSUME NEW r \in Requests, StartCommit(r) PROVE Good
    BY <2>3, StartCommitRows DEF Ends
  <2>4. QED BY <2>1, <2>2, <2>3, RowSteps
<1>4. QED BY <1>1, <1>2, <1>3, TypeCorrect, PTL DEF Spec, EndedStaysEnded
=============================================================================
