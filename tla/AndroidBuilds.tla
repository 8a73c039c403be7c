--------------------------- MODULE AndroidBuilds ---------------------------
(***************************************************************************)
(* Android builds of one lab session: the three handlers of                *)
(* handlers/android.js, AndroidBuildService, and the wrapper script that   *)
(* the service starts inside the container.                                *)
(*                                                                         *)
(* Three kinds of actor meet.  A click is one call of androidBuildHandler; *)
(* it reads the session document, looks at the container, claims RUNNING   *)
(* and launches the wrapper.  A wrapper is one shell process in the        *)
(* container: it takes the lock directory, runs Gradle and writes          *)
(* build.status and latest_apk.path.  A query is a call of the status or   *)
(* of the download handler, which copies what the container says into the  *)
(* session document.  Every await of a handler and every command of the    *)
(* wrapper that another process can see is a step of its own.              *)
(***************************************************************************)
EXTENDS Integers

CONSTANTS
  Clicks,        \* calls of androidBuildHandler
  Queries,       \* concurrent status and download calls; each may repeat
  NoOne,         \* "no wrapper": the lock is free, the APK does not exist
  HttpFails,     \* the clicks whose launch over HTTP may give no answer
  SsmFails,      \* the clicks whose launch over SSM may fail
  Killed,        \* the clicks whose wrappers may be killed or signalled
  ClaimAge,      \* 2 minutes: a claim this young is always believed
  RestartAge,    \* 25 minutes: an older claim may be replaced
  StealAge,      \* 1800 seconds: a lock older than this is removed
  MaxTime        \* bound on the clock

ASSUME NoOneAssumption == NoOne \notin (Clicks \X {"http", "ssm"})
ASSUME AgeAssumption == /\ {ClaimAge, RestartAge, StealAge, MaxTime} \subseteq Nat
                        /\ ClaimAge <= RestartAge /\ RestartAge <= StealAge

\* A click starts its wrapper over HTTP and, when that call gave no answer,
\* once more over SSM.
Wrappers == Clicks \X {"http", "ssm"}
Apks == Wrappers \cup {NoOne}

VARIABLES
  now,
  build,        \* session.build of the session document
  click, seen,  \* where a click is, and the session.build it has read
  query, answer,\* where a query is, and what it has read so far
  wrapper,      \* where a wrapper process is
  lock, lockAt, \* the creator of build.lock.dir and its modification time
  statusFile,   \* build.status, "IDLE" while it does not exist
  apkPath,      \* latest_apk.path: the wrapper whose APK it names
  apk,          \* the newest APK below the workspace
  robbed        \* history: a lock was removed while its owner was alive

handlerVars == <<click, seen, query, answer>>
containerVars == <<wrapper, lock, lockAt, statusFile, apkPath, apk, robbed>>
vars == <<now, build, handlerVars, containerVars>>

NoBuild == [status |-> "IDLE", startedAt |-> 0, apk |-> NoOne]

Init ==
  /\ now = 0 /\ build = NoBuild
  /\ click = [c \in Clicks |-> "idle"] /\ seen = [c \in Clicks |-> NoBuild]
  /\ query = [q \in Queries |-> "idle"]
  /\ answer = [q \in Queries |-> NoBuild]
  /\ wrapper = [w \in Wrappers |-> "absent"]
  /\ lock = NoOne /\ lockAt = 0
  /\ statusFile = "IDLE" /\ apkPath = NoOne /\ apk = NoOne
  /\ robbed = FALSE

-----------------------------------------------------------------------------
(* androidBuildHandler. *)

MoveClick(c, to) == click' = [click EXCEPT ![c] = to]

ReadSession(c) ==
  /\ click[c] = "idle"
  /\ \/ build.status = "RUNNING" /\ MoveClick(c, "inspect")
        /\ seen' = [seen EXCEPT ![c] = build]
     \/ build.status # "RUNNING" /\ MoveClick(c, "validate") /\ UNCHANGED seen
  /\ UNCHANGED <<now, build, query, answer, containerVars>>

\* The age is taken after the container has answered.
Refuses(c) ==
  LET age == now - seen[c].startedAt
  IN  age < RestartAge /\ (statusFile = "RUNNING" \/ age < ClaimAge)

InspectContainer(c) ==
  /\ click[c] = "inspect"
  /\ MoveClick(c, IF Refuses(c) THEN "refused" ELSE "validate")
  /\ seen' = [seen EXCEPT ![c] = NoBuild]
  /\ UNCHANGED <<now, build, query, answer, containerVars>>

\* startBuild up to its updateSession; the document was read several awaits ago.
ClaimBuild(c) ==
  /\ click[c] = "validate"
  /\ build' = [status |-> "RUNNING", startedAt |-> now, apk |-> NoOne]
  /\ MoveClick(c, "claimed")
  /\ UNCHANGED <<now, seen, query, answer, containerVars>>

\* A file of the workspace is missing, or the container cannot be asked.
RefuseWorkspace(c) ==
  /\ click[c] = "validate" /\ MoveClick(c, "refused")
  /\ UNCHANGED <<now, build, seen, query, answer, containerVars>>

Start(c, how) ==
  wrapper' = [w \in Wrappers |->
                IF w[1] = c /\ w[2] \in how THEN "mkdir" ELSE wrapper[w]]

\* The wrapper is written and launched.  An HTTP call that gives no answer
\* within 20 s may have run the launcher; SSM then runs it again.
Launch(c) ==
  /\ click[c] = "claimed"
  /\ \/ Start(c, {"http"}) /\ MoveClick(c, "started")
     \/ /\ c \in HttpFails
        /\ \E ran \in {{}, {"http"}} :
             \/ Start(c, ran \cup {"ssm"}) /\ MoveClick(c, "started")
             \/ c \in SsmFails /\ Start(c, ran) /\ MoveClick(c, "failed")
  /\ UNCHANGED <<now, build, seen, query, answer, lock, lockAt, statusFile,
                 apkPath, apk, robbed>>

GoOn(c) ==
  InspectContainer(c) \/ ClaimBuild(c) \/ RefuseWorkspace(c) \/ Launch(c)
Click(c) == ReadSession(c) \/ GoOn(c)

-----------------------------------------------------------------------------
(* androidBuildStatusHandler and androidDownloadHandler. *)

MoveQuery(q, to) == query' = [query EXCEPT ![q] = to]

\* Only a RUNNING build makes the status handler ask the container.
ReadForStatus(q) ==
  /\ query[q] = "idle" /\ build.status = "RUNNING"
  /\ MoveQuery(q, "status")
  /\ UNCHANGED <<now, build, click, seen, answer, containerVars>>

ReadStatusFile(q) ==
  /\ query[q] = "status"
  /\ \/ /\ statusFile = "SUCCESS" /\ MoveQuery(q, "locate")
        /\ UNCHANGED answer
     \/ /\ statusFile = "FAILED" /\ MoveQuery(q, "store")
        /\ answer' = [answer EXCEPT ![q] = [NoBuild EXCEPT !.status = "FAILED"]]
     \/ /\ statusFile \in {"IDLE", "RUNNING"} /\ MoveQuery(q, "idle")
        /\ UNCHANGED answer
  /\ UNCHANGED <<now, build, click, seen, containerVars>>

\* latest_apk.path, or the newest APK of the workspace without it.
LatestApk == IF apkPath # NoOne THEN apkPath ELSE apk

LocateForStatus(q) ==
  /\ query[q] = "locate"
  /\ answer' = [answer EXCEPT ![q] =
       [status |-> IF LatestApk = NoOne THEN "FAILED" ELSE "SUCCESS",
        startedAt |-> 0, apk |-> LatestApk]]
  /\ MoveQuery(q, "store")
  /\ UNCHANGED <<now, build, click, seen, containerVars>>

ReadForDownload(q) ==
  /\ query[q] = "idle" /\ build.apk = NoOne
  /\ answer' = [answer EXCEPT ![q] = build]
  /\ MoveQuery(q, "download")
  /\ UNCHANGED <<now, build, click, seen, containerVars>>

\* A found APK makes the build SUCCESS, whatever it was.
LocateForDownload(q) ==
  /\ query[q] = "download"
  /\ \/ /\ LatestApk # NoOne
        /\ answer' = [answer EXCEPT ![q].status = "SUCCESS",
                                    ![q].apk = LatestApk]
        /\ MoveQuery(q, "store")
     \/ /\ LatestApk = NoOne /\ MoveQuery(q, "idle")
        /\ answer' = [answer EXCEPT ![q] = NoBuild]
  /\ UNCHANGED <<now, build, click, seen, containerVars>>

StoreAnswer(q) ==
  /\ query[q] = "store"
  /\ build' = answer[q] /\ answer' = [answer EXCEPT ![q] = NoBuild]
  /\ MoveQuery(q, "idle")
  /\ UNCHANGED <<now, click, seen, containerVars>>

StatusQuery(q) ==
  ReadForStatus(q) \/ ReadStatusFile(q) \/ LocateForStatus(q) \/ StoreAnswer(q)
Query(q) == StatusQuery(q) \/ ReadForDownload(q) \/ LocateForDownload(q)

-----------------------------------------------------------------------------
(* run_android_build.sh. *)

MoveWrapper(w, to) == wrapper' = [wrapper EXCEPT ![w] = to]
Unlocked == UNCHANGED <<lock, lockAt>>
OutsideContainer == UNCHANGED <<now, build, handlerVars>>

\* mkdir is atomic; it fails while the directory exists.
\* Mutant: mkdir -p, which does not fail.
MakeLockAnyway(w, otherwise) ==
  /\ lock' = w /\ lockAt' = now /\ MoveWrapper(w, "locked")
  /\ UNCHANGED <<statusFile, apkPath, apk, robbed>> /\ OutsideContainer
MakeLock(w, otherwise) ==
  /\ \/ lock = NoOne /\ lock' = w /\ lockAt' = now /\ MoveWrapper(w, "locked")
     \/ lock # NoOne /\ MoveWrapper(w, otherwise) /\ Unlocked
  /\ UNCHANGED <<statusFile, apkPath, apk, robbed>> /\ OutsideContainer

FirstMkdir(w) == wrapper[w] = "mkdir" /\ MakeLock(w, "stat")
SecondMkdir(w) == wrapper[w] = "remkdir" /\ MakeLock(w, "ignored")

\* stat prints nothing for a directory that has just gone, and the age is
\* then counted from the epoch.
LooksStale == lock = NoOne \/ now - lockAt > StealAge

StatLock(w) ==
  /\ wrapper[w] = "stat"
  /\ MoveWrapper(w, IF LooksStale THEN "steal" ELSE "ignored")
  /\ UNCHANGED <<statusFile, apkPath, apk, robbed>> /\ Unlocked
  /\ OutsideContainer

Holding == {"locked", "gradle", "built", "leaving"}

StealLock(w) ==
  /\ wrapper[w] = "steal"
  /\ lock' = NoOne /\ lockAt' = 0
  /\ robbed' = (robbed \/ (lock # NoOne /\ wrapper[lock] \in Holding))
  /\ MoveWrapper(w, "remkdir")
  /\ UNCHANGED <<statusFile, apkPath, apk>> /\ OutsideContainer

\* build.status says RUNNING and the path of the last APK is removed.
\* Mutant: the path stays.
StartGradleKeepsPath(w) ==
  /\ wrapper[w] = "locked"
  /\ statusFile' = "RUNNING"
  /\ MoveWrapper(w, "gradle")
  /\ UNCHANGED <<apkPath, apk, robbed>> /\ Unlocked /\ OutsideContainer
StartGradle(w) ==
  /\ wrapper[w] = "locked"
  /\ statusFile' = "RUNNING" /\ apkPath' = NoOne
  /\ MoveWrapper(w, "gradle")
  /\ UNCHANGED <<apk, robbed>> /\ Unlocked /\ OutsideContainer

\* Mutant: a failed build writes nothing.
EndGradleSilently(w) ==
  /\ wrapper[w] = "gradle"
  /\ \/ statusFile' = "SUCCESS" /\ apk' = w /\ MoveWrapper(w, "built")
     \/ UNCHANGED <<statusFile, apk>> /\ MoveWrapper(w, "leaving")
  /\ UNCHANGED <<apkPath, robbed>> /\ Unlocked /\ OutsideContainer
EndGradle(w) ==
  /\ wrapper[w] = "gradle"
  /\ \/ statusFile' = "SUCCESS" /\ apk' = w /\ MoveWrapper(w, "built")
     \/ statusFile' = "FAILED" /\ UNCHANGED apk /\ MoveWrapper(w, "leaving")
  /\ UNCHANGED <<apkPath, robbed>> /\ Unlocked /\ OutsideContainer

\* The newest APK need not be the one this wrapper has built.
WriteApkPath(w) ==
  /\ wrapper[w] = "built"
  /\ apkPath' = apk
  /\ MoveWrapper(w, "leaving")
  /\ UNCHANGED <<statusFile, apk, robbed>> /\ Unlocked /\ OutsideContainer

\* trap 'rm -rf "$LOCKDIR"' EXIT: the directory goes, whoever made it.
ExitTrap(w) ==
  /\ wrapper[w] = "leaving"
  /\ lock' = NoOne /\ lockAt' = 0
  /\ robbed' = (robbed \/ (lock \notin {w, NoOne} /\ wrapper[lock] \in Holding))
  /\ MoveWrapper(w, "done")
  /\ UNCHANGED <<statusFile, apkPath, apk>> /\ OutsideContainer

Run(w) ==
  \/ FirstMkdir(w) \/ StatLock(w) \/ StealLock(w) \/ SecondMkdir(w)
  \/ StartGradle(w) \/ EndGradle(w) \/ WriteApkPath(w) \/ ExitTrap(w)

\* The process is killed (out of memory) and its trap does not run.
Kill(w) ==
  /\ w[1] \in Killed /\ wrapper[w] \in Holding
  /\ MoveWrapper(w, "killed")
  /\ UNCHANGED <<statusFile, apkPath, apk, robbed>> /\ Unlocked
  /\ OutsideContainer

\* INT or TERM runs the trap, which has no exit: the script goes on.
Interrupt(w) ==
  /\ w[1] \in Killed /\ wrapper[w] \in Holding
  /\ lock' = NoOne /\ lockAt' = 0
  /\ robbed' = (robbed \/ (lock # NoOne /\ wrapper[lock] \in Holding))
  /\ UNCHANGED <<wrapper, statusFile, apkPath, apk>> /\ OutsideContainer

Tick ==
  /\ now < MaxTime /\ now' = now + 1
  /\ UNCHANGED <<build, handlerVars, containerVars>>

Next ==
  \/ \E c \in Clicks : Click(c)
  \/ \E q \in Queries : Query(q)
  \/ \E w \in Wrappers : Run(w) \/ Kill(w) \/ Interrupt(w)
  \/ Tick

Spec == Init /\ [][Next]_vars

\* A request that was accepted is carried on, a process in the container
\* keeps running until it ends, and the page asks for the status until it is
\* told how the build ended.
FairSpec ==
  /\ Spec
  /\ \A c \in Clicks : WF_vars(GoOn(c))
  /\ \A w \in Wrappers : WF_vars(Run(w))
  /\ \A q \in Queries : SF_vars(ReadForStatus(q))
  /\ \A q \in Queries : WF_vars(ReadStatusFile(q) \/ LocateForStatus(q)
                                \/ LocateForDownload(q) \/ StoreAnswer(q))

-----------------------------------------------------------------------------
Statuses == {"IDLE", "RUNNING", "SUCCESS", "FAILED"}
Builds == [status : Statuses, startedAt : Nat, apk : Apks]

\* Every variable stays within its type.
TypeOK ==
  /\ now \in Nat /\ build \in Builds
  /\ click \in [Clicks -> {"idle", "inspect", "refused", "validate", "claimed",
                           "started", "failed"}]
  /\ seen \in [Clicks -> Builds]
  /\ query \in [Queries -> {"idle", "status", "locate", "download", "store"}]
  /\ answer \in [Queries -> Builds]
  /\ wrapper \in [Wrappers -> Holding \cup {"absent", "mkdir", "stat", "steal",
                                "remkdir", "ignored", "done", "killed"}]
  /\ lock \in Apks /\ lockAt \in Nat
  /\ statusFile \in Statuses /\ apkPath \in Apks /\ apk \in Apks
  /\ robbed \in BOOLEAN

\* Two wrappers hold the lock at the same time only if somebody removed the
\* lock of a live owner (a thief, the trap of another wrapper, or its own
\* trap on a signal): mkdir by itself keeps the builds apart
\* (AndroidBuildService.js:126).
OverlapOnlyByRobbery ==
  (\E v, w \in Wrappers : v # w /\ {wrapper[v], wrapper[w]} \subseteq Holding)
    => robbed

\* While Gradle runs, the container says RUNNING and names no APK of an
\* earlier build, unless a live owner was robbed: neither the status handler
\* nor a download can then take an old result for the new one by the files.
FilesOfRunningBuild ==
  \A w \in Wrappers : wrapper[w] = "gradle" =>
    robbed \/ (statusFile = "RUNNING" /\ apkPath = NoOne)

\* AndroidBuildService.js:97 says that concurrent BUILD clicks cannot start
\* overlapping Gradle processes.
GradleExclusive ==
  \A v, w \in Wrappers :
    wrapper[v] = "gradle" /\ wrapper[w] = "gradle" => v = w

\* A build that was claimed does not stay RUNNING for ever: the page that
\* polls it is given a result, if need be the one an earlier build left in
\* the files, unless no launcher could be run or the process was killed
\* (nobody then writes build.status).
BuildSettles ==
  build.status = "RUNNING" ~>
    \/ build.status # "RUNNING"
    \/ \E c \in Clicks : click[c] = "failed"
    \/ \E w \in Wrappers : wrapper[w] = "killed"
=============================================================================
