------------------------ MODULE AndroidBuildsProofs ------------------------
(***************************************************************************)
(* Proofs about AndroidBuilds, for any sets of clicks and queries, any     *)
(* choice of failing launches and killed processes and any ages.           *)
(***************************************************************************)
EXTENDS AndroidBuilds, TLAPS

\* As long as no live owner has been robbed, whoever is past mkdir owns the
\* lock directory, and the files are those of the build that runs.
OwnerHasLock == \A w \in Wrappers : wrapper[w] \in Holding => robbed \/ lock = w

IInv == TypeOK /\ OwnerHasLock /\ FilesOfRunningBuild

USE NoOneAssumption, AgeAssumption

LEMMA NoOneIsNoWrapper == NoOne \notin Wrappers
  BY DEF Wrappers

LEMMA InitIInv == Init => IInv
<1> SUFFICES ASSUME Init PROVE IInv
  OBVIOUS
<1>1. NoBuild \in Builds
  BY DEF NoBuild, Builds, Statuses, Apks
<1>2. TypeOK
  BY <1>1 DEF Init, TypeOK, Statuses, Apks
<1>3. OwnerHasLock /\ FilesOfRunningBuild
  BY DEF Init, OwnerHasLock, FilesOfRunningBuild, Holding
<1> QED BY <1>2, <1>3 DEF IInv

-----------------------------------------------------------------------------
\* Handlers leave the container alone, but for Launch, which makes absent
\* wrappers start: none of them holds the lock.
LEMMA TypeStep == TypeOK /\ [Next]_vars => TypeOK'
<1> SUFFICES ASSUME TypeOK, [Next]_vars PROVE TypeOK'
  OBVIOUS
<1> USE DEF TypeOK, Holding
<1> NoBuild \in Builds
  BY DEF NoBuild, Builds, Statuses, Apks
<1>1. ASSUME NEW c \in Clicks, Click(c) PROVE TypeOK'
  <2>1. CASE ReadSession(c)
    BY <2>1 DEF ReadSession, MoveClick, containerVars
  <2>2. CASE InspectContainer(c)
    BY <2>2 DEF InspectContainer, MoveClick, containerVars
  <2>3. CASE ClaimBuild(c)
    BY <2>3 DEF ClaimBuild, MoveClick, containerVars, Builds, Statuses, Apks
  <2>4. CASE Launch(c)
    BY <2>4 DEF Launch, MoveClick, Start
  <2>5. CASE RefuseWorkspace(c)
    BY <2>5 DEF RefuseWorkspace, MoveClick, containerVars
  <2> QED BY <1>1, <2>1, <2>2, <2>3, <2>4, <2>5 DEF Click, GoOn
<1>2. ASSUME NEW q \in Queries, Query(q) PROVE TypeOK'
  <2> LatestApk \in Apks
    BY DEF LatestApk
  <2>1. CASE ReadForStatus(q)
    BY <2>1 DEF ReadForStatus, MoveQuery, containerVars
  <2>2. CASE ReadStatusFile(q)
    <3>1. [NoBuild EXCEPT !.status = "FAILED"] \in Builds
      BY DEF NoBuild, Builds, Statuses, Apks
    <3>2. answer' \in [Queries -> Builds]
      BY <2>2, <3>1 DEF ReadStatusFile
    <3>3. query' \in [Queries -> {"idle", "status", "locate", "download", "store"}]
      BY <2>2 DEF ReadStatusFile, MoveQuery
    <3> QED BY <2>2, <3>2, <3>3 DEF ReadStatusFile, containerVars
  <2>3. CASE LocateForStatus(q)
    BY <2>3 DEF LocateForStatus, MoveQuery, containerVars, Builds, Statuses
  <2>4. CASE ReadForDownload(q)
    BY <2>4 DEF ReadForDownload, MoveQuery, containerVars
  <2>5. CASE LocateForDownload(q)
    BY <2>5 DEF LocateForDownload, MoveQuery, containerVars, Builds, Statuses
  <2>6. CASE StoreAnswer(q)
    BY <2>6 DEF StoreAnswer, MoveQuery, containerVars
  <2> QED BY <1>2, <2>1, <2>2, <2>3, <2>4, <2>5, <2>6 DEF Query, StatusQuery
<1>3. ASSUME NEW w \in Wrappers, Run(w) \/ Kill(w) \/ Interrupt(w) PROVE TypeOK'
  <2> USE DEF MoveWrapper, OutsideContainer, Unlocked, handlerVars, Apks, Statuses
  <2>1. CASE FirstMkdir(w) \/ SecondMkdir(w)
    BY <2>1 DEF FirstMkdir, SecondMkdir, MakeLock
  <2>2. CASE StatLock(w)
    BY <2>2 DEF StatLock
  <2>3. CASE StealLock(w)
    BY <2>3 DEF StealLock
  <2>4. CASE StartGradle(w) \/ EndGradle(w)
    BY <2>4 DEF StartGradle, EndGradle
  <2>5. CASE WriteApkPath(w)
    BY <2>5 DEF WriteApkPath
  <2>6. CASE ExitTrap(w)
    <3>1. robbed' \in BOOLEAN
      BY <2>6 DEF ExitTrap
    <3> QED BY <2>6, <3>1 DEF ExitTrap
  <2>7. CASE Kill(w)
    BY <2>7 DEF Kill
  <2>8. CASE Interrupt(w)
    <3>1. robbed' \in BOOLEAN
      BY <2>8 DEF Interrupt
    <3> QED BY <2>8, <3>1 DEF Interrupt
  <2> QED BY <1>3, <2>1, <2>2, <2>3, <2>4, <2>5, <2>6, <2>7, <2>8 DEF Run
<1>4. CASE Tick
  BY <1>4 DEF Tick, handlerVars, containerVars
<1>5. CASE UNCHANGED vars
  BY <1>5 DEF vars, handlerVars, containerVars
<1> QED BY <1>1, <1>2, <1>3, <1>4, <1>5 DEF Next

LEMMA OwnerStep == IInv /\ [Next]_vars => OwnerHasLock' /\ FilesOfRunningBuild'
<1> SUFFICES ASSUME IInv, [Next]_vars
             PROVE  OwnerHasLock' /\ FilesOfRunningBuild'
  OBVIOUS
<1> USE DEF IInv, OwnerHasLock, FilesOfRunningBuild
<1>1. ASSUME UNCHANGED containerVars
      PROVE  OwnerHasLock' /\ FilesOfRunningBuild'
  BY <1>1 DEF containerVars
<1>2. ASSUME NEW c \in Clicks, Click(c)
      PROVE  OwnerHasLock' /\ FilesOfRunningBuild'
  <2>1. CASE Launch(c)
    BY <2>1 DEF Launch, Start, Holding
  <2> QED BY <1>1, <1>2, <2>1 DEF Click, GoOn, ReadSession, InspectContainer,
                                  ClaimBuild, RefuseWorkspace
<1>3. ASSUME NEW q \in Queries, Query(q)
      PROVE  OwnerHasLock' /\ FilesOfRunningBuild'
  BY <1>1, <1>3 DEF Query, StatusQuery, ReadForStatus, ReadStatusFile,
     LocateForStatus, ReadForDownload, LocateForDownload, StoreAnswer
<1>4. ASSUME NEW w \in Wrappers, Run(w) \/ Kill(w) \/ Interrupt(w)
      PROVE  OwnerHasLock' /\ FilesOfRunningBuild'
  <2> USE DEF MoveWrapper, Unlocked, Holding
  <2> /\ wrapper \in [Wrappers -> Holding \cup {"absent", "mkdir", "stat",
            "steal", "remkdir", "ignored", "done", "killed"}]
      /\ lock \in Apks /\ robbed \in BOOLEAN
    BY DEF TypeOK
  <2>1. CASE FirstMkdir(w) \/ SecondMkdir(w)
    \* mkdir succeeds only on a free lock, which nobody who holds it sees.
    BY <2>1, NoOneIsNoWrapper DEF FirstMkdir, SecondMkdir, MakeLock
  <2>2. CASE StatLock(w)
    BY <2>2 DEF StatLock
  <2>3. CASE StealLock(w)
    <3>1. robbed' \/ \A v \in Wrappers : wrapper'[v] \notin Holding
      BY <2>3, NoOneIsNoWrapper DEF StealLock, Apks
    <3> QED BY <2>3, <3>1 DEF StealLock
  <2>4. CASE StartGradle(w)
    BY <2>4 DEF StartGradle
  <2>5. CASE EndGradle(w) \/ WriteApkPath(w)
    \* Whoever else runs Gradle would own the same lock.
    <3>1. robbed \/ \A v \in Wrappers : wrapper'[v] # "gradle"
      BY <2>5 DEF EndGradle, WriteApkPath
    <3> QED BY <2>5, <3>1 DEF EndGradle, WriteApkPath
  <2>6. CASE ExitTrap(w)
    <3>1. robbed \/ \A v \in Wrappers : wrapper'[v] \notin Holding
      BY <2>6 DEF ExitTrap
    <3> QED BY <2>6, <3>1 DEF ExitTrap
  <2>7. CASE Kill(w)
    BY <2>7 DEF Kill
  <2>8. CASE Interrupt(w)
    <3>1. robbed' \/ \A v \in Wrappers : wrapper[v] \notin Holding
      BY <2>8, NoOneIsNoWrapper DEF Interrupt, Apks
    <3> QED BY <2>8, <3>1 DEF Interrupt
  <2> QED BY <1>4, <2>1, <2>2, <2>3, <2>4, <2>5, <2>6, <2>7, <2>8 DEF Run
<1> QED BY <1>1, <1>2, <1>3, <1>4 DEF Next, Tick, vars

\* The inductive invariant.
LEMMA BuildInvariant == Spec => []IInv
<1>1. IInv /\ [Next]_vars => IInv'
  BY TypeStep, OwnerStep DEF IInv
<1> QED BY InitIInv, <1>1, PTL DEF Spec

\* Every reachable state is well typed, whatever fails.
THEOREM BuildTypes == Spec => []TypeOK
  BY BuildInvariant, PTL DEF IInv

\* Two builds overlap only after a live owner's lock was removed: the lock
\* directory of AndroidBuildService.js:126 is exclusive by itself.
THEOREM BuildsExclusive == Spec => []OverlapOnlyByRobbery
<1>1. IInv => OverlapOnlyByRobbery
  BY DEF IInv, OwnerHasLock, OverlapOnlyByRobbery
<1> QED BY <1>1, BuildInvariant, PTL

\* build.status and latest_apk.path belong to the build that runs.
THEOREM BuildFiles == Spec => []FilesOfRunningBuild
<1>1. IInv => FilesOfRunningBuild
  BY DEF IInv
<1> QED BY <1>1, BuildInvariant, PTL
=============================================================================
