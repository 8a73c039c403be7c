------------------------- MODULE WorkspaceBootstrap -------------------------
(***************************************************************************)
(* Bootstrap of one session's workspace (workspaceBootstrapService.js),    *)
(* as the polls of sessionsGetHandler start it: the template is extracted  *)
(* in the container, within 120 seconds, twice at most, and the session    *)
(* document says READY or FAILED.  An attempt asks the container over HTTP *)
(* and, when no answer comes, runs a script over SSM (ECS Exec).  A list   *)
(* of files that finds the workspace empty extracts the template, too      *)
(* (containerClient.js).  The student may save a file at any time.         *)
(*                                                                         *)
(* The document is in DynamoDB, where updateSession merges fields in one   *)
(* step, or in the memory of the process, where it reads the document,     *)
(* awaits, and writes the merged whole; saveSession writes a whole         *)
(* document that was read earlier in either.                               *)
(***************************************************************************)
EXTENDS Integers

CONSTANTS
  Polls,      \* concurrent callers of sessionsGetHandler; each may repeat
  Stores,     \* of "dynamo", "memory": where documents may be kept
  MaxCrashes  \* bound on the restarts of the process

ASSUME StoresAssumption == Stores \subseteq {"dynamo", "memory"}
ASSUME MaxCrashesAssumption == MaxCrashes \in Nat

VARIABLES
  store,      \* where documents are kept
  row,        \* lab_sessions.Status
  doc,        \* the session document
  poll, read, \* where a poll is; the status and the document it has read
  boot, base, \* where a bootstrap is; the document its update has read
  listing,    \* a list of files waits for an extraction of its own
  loose,      \* extractions that nobody waits for may go on, any number
  template,   \* the template has been extracted
  work,       \* the student's work: "none", "early", "kept" (since READY)
  overwritten,\* history: an extraction that is awaited went over such work
  racing, stale, taken, crashes  \* history

docVars == <<row, doc>>
containerVars == <<listing, loose, template, work, overwritten>>
historyVars == <<racing, stale, taken, crashes>>
vars == <<store, docVars, poll, read, boot, base, containerVars, historyVars>>

NewDoc == [there |-> TRUE, state |-> "NOT_STARTED", status |-> "starting"]
\* What getSession makes up from MySQL when there is no document.
FromRow == [there |-> FALSE, state |-> "NOT_STARTED",
            status |-> IF row = "STARTING" THEN "starting" ELSE "running"]
Fetched == IF doc.there THEN doc ELSE FromRow
NoBase == [there |-> FALSE, state |-> "none", status |-> "none"]

Init ==
  /\ store \in Stores /\ row = "STARTING" /\ doc = NewDoc
  /\ poll = [p \in Polls |-> "idle"]
  /\ read = [p \in Polls |-> [row |-> "none", doc |-> NoBase]]
  /\ boot = [p \in Polls |-> "none"] /\ base = [p \in Polls |-> NoBase]
  /\ listing = FALSE /\ loose = FALSE
  /\ template = FALSE /\ work = "none" /\ overwritten = FALSE
  /\ racing = FALSE /\ stale = FALSE /\ taken = FALSE /\ crashes = 0

Ready == doc.there /\ doc.state = "READY"
Quiet == UNCHANGED <<store, containerVars, crashes>>

-----------------------------------------------------------------------------
(* updateSession. *)

Merged(d, update) ==
  CASE update = "net"   -> [d EXCEPT !.status = "running"]
    [] update = "claim" -> [d EXCEPT !.state = "BOOTSTRAPPING"]
    [] update = "ready" -> [d EXCEPT !.state = "READY", !.status = "running"]
    [] update = "fail"  -> [d EXCEPT !.state = "FAILED", !.status = "failed"]

\* In memory: an update that finds no document does nothing.  A second
\* update may come between the read and the write.
ReadBase(p) ==
  /\ store = "memory" /\ doc.there /\ base[p] = NoBase
  /\ base' = [base EXCEPT ![p] = doc] /\ UNCHANGED doc

Update(p, update) ==
  \/ /\ store = "dynamo"
     /\ doc' = [Merged(Fetched, update) EXCEPT !.there = TRUE] /\ UNCHANGED base
  \/ /\ store = "memory" /\ base[p] # NoBase
     /\ doc' = Merged(base[p], update) /\ base' = [base EXCEPT ![p] = NoBase]
  \/ /\ store = "memory" /\ base[p] = NoBase /\ ~doc.there
     /\ UNCHANGED <<doc, base>>

-----------------------------------------------------------------------------
(* sessionsGetHandler. *)

ReadRow(p) ==
  /\ poll[p] = "idle" /\ boot[p] \in {"none", "done"}
  /\ read' = [read EXCEPT ![p] = [row |-> row, doc |-> NoBase]]
  /\ poll' = [poll EXCEPT ![p] = "row"]
  /\ UNCHANGED <<docVars, boot, base, racing, stale, taken>> /\ Quiet

ReadDoc(p) ==
  /\ poll[p] = "row"
  /\ \/ /\ read[p].row = "STARTING" \/ Fetched.status = "starting"
        /\ read' = [read EXCEPT ![p].doc = Fetched]
        /\ poll' = [poll EXCEPT ![p] = "net"]
     \/ /\ read[p].row # "STARTING" /\ Fetched.status # "starting"
        /\ read' = [read EXCEPT ![p] = [row |-> "none", doc |-> NoBase]]
        /\ poll' = [poll EXCEPT ![p] = "idle"]
  /\ UNCHANGED <<docVars, boot, base, racing, stale, taken>> /\ Quiet

\* ECS says that the container runs.
Promote(p) ==
  /\ poll[p] = "net" /\ row' = "RUNNING"
  /\ poll' = [poll EXCEPT ![p] =
       IF read[p].doc.state = "NOT_STARTED" THEN "update" ELSE "save"]
  /\ UNCHANGED <<doc, read, boot, base, racing, stale, taken>> /\ Quiet

ReadForNet(p) ==
  /\ poll[p] = "update" /\ ReadBase(p)
  /\ UNCHANGED <<row, poll, read, boot, racing, stale, taken>> /\ Quiet

\* The networking is stored, and the bootstrap started without an await.
StoreNet(p) ==
  /\ poll[p] = "update" /\ Update(p, "net")
  /\ poll' = [poll EXCEPT ![p] = "idle"]
  /\ read' = [read EXCEPT ![p] = [row |-> "none", doc |-> NoBase]]
  /\ boot' = [boot EXCEPT ![p] = "check"]
  /\ stale' = (stale \/ (store = "memory" /\ doc'.state # doc.state))
  /\ UNCHANGED <<row, racing, taken>> /\ Quiet

\* saveSession of the document as it was read.
SaveStale(p) ==
  /\ poll[p] = "save"
  /\ doc' = [read[p].doc EXCEPT !.status = "running", !.there = TRUE]
  /\ stale' = (stale \/ doc'.state # doc.state)
  /\ poll' = [poll EXCEPT ![p] = "idle"]
  /\ read' = [read EXCEPT ![p] = [row |-> "none", doc |-> NoBase]]
  /\ UNCHANGED <<row, boot, base, racing, taken>> /\ Quiet

-----------------------------------------------------------------------------
(* bootstrap. *)

Goes(p, to) == boot' = [boot EXCEPT ![p] = to]
Polling == UNCHANGED <<row, poll, read>>

\* An attempt waits for an extraction that it has asked for; a bootstrap has
\* claimed the session and not come to its end.
Waits(p) == boot[p] \in {"post1", "script1", "post2", "script2"}
Extracts(p) == Waits(p) \/ boot[p] \in {"first", "second"}
Active(p) == Extracts(p) \/ boot[p] \in {"ready", "fail"}

\* A BOOTSTRAPPING older than 120 seconds is taken over, also when the two
\* attempts are still under way: they may take 240.
\* Mutant: BOOTSTRAPPING does not keep a second one out.
CheckReadyOnly(p) ==
  /\ boot[p] = "check"
  /\ Goes(p, IF Fetched.state = "READY" THEN "done" ELSE "claim")
  /\ Polling /\ UNCHANGED <<doc, base, racing, stale, taken>> /\ Quiet
\* Mutant: READY does not keep a second one out.
CheckProgressOnly(p) ==
  /\ boot[p] = "check"
  /\ Goes(p, IF Fetched.state = "BOOTSTRAPPING" THEN "done" ELSE "claim")
  /\ Polling /\ UNCHANGED <<doc, base, racing, stale, taken>> /\ Quiet
Check(p) ==
  /\ boot[p] = "check"
  /\ \/ /\ Fetched.state \in {"READY", "BOOTSTRAPPING"}
        /\ Goes(p, "done") /\ UNCHANGED taken
     \/ /\ Fetched.state # "READY" /\ Goes(p, "claim")
        /\ taken' = (taken \/ (/\ Fetched.state = "BOOTSTRAPPING"
                               /\ \E q \in Polls : Active(q)))
  /\ Polling /\ UNCHANGED <<doc, base, racing, stale>> /\ Quiet

ReadForUpdate(p) ==
  /\ boot[p] \in {"claim", "ready", "fail"} /\ ReadBase(p)
  /\ Polling /\ UNCHANGED <<boot, racing, stale, taken>> /\ Quiet

Claim(p) ==
  /\ boot[p] = "claim" /\ Update(p, "claim") /\ Goes(p, "first")
  /\ racing' = (racing \/ \E q \in Polls \ {p} : boot[q] = "claim")
  /\ Polling /\ UNCHANGED <<stale, taken>> /\ Quiet

Retry(p) == IF boot[p] \in {"post1", "script1"} THEN "second" ELSE "fail"
Attempting == UNCHANGED <<store, row, doc, poll, read, base, listing, historyVars>>

\* The container is asked, or, when it cannot be reached, the script is run.
StartAttempt(p) ==
  /\ \/ boot[p] = "first" /\ \E to \in {"post1", "script1"} : Goes(p, to)
     \/ boot[p] = "second" /\ \E to \in {"post2", "script2"} : Goes(p, to)
  /\ Attempting /\ UNCHANGED <<loose, template, work, overwritten>>

\* No answer to the POST, so the script is run.  The container may be at the
\* first extraction, or still come to it.
FallBack(p) ==
  /\ \/ boot[p] = "post1" /\ Goes(p, "script1")
     \/ boot[p] = "post2" /\ Goes(p, "script2")
  /\ loose' \in {loose, TRUE}
  /\ Attempting /\ UNCHANGED <<template, work, overwritten>>

\* The archive is extracted over whatever is there.
Extract(p) ==
  /\ Waits(p) /\ Goes(p, "ready")
  /\ template' = TRUE /\ work' = "none"
  /\ overwritten' = (overwritten \/ work = "kept")
  /\ Attempting /\ UNCHANGED loose

\* The attempt fails.  The extraction has ended with it, or the command that
\* waits for it has (a timeout, a lost connection) and it goes on.
\* Mutant: the container's failure is taken for success.
AttemptFailsUnseen(p) ==
  /\ Waits(p) /\ Goes(p, "ready")
  /\ Attempting /\ UNCHANGED <<loose, template, work, overwritten>>
AttemptFails(p) ==
  /\ Waits(p) /\ Goes(p, Retry(p))
  /\ loose' \in {loose, TRUE}
  /\ Attempting /\ UNCHANGED <<template, work, overwritten>>

\* The race is won by the 120 seconds; the attempt goes on, and may still run
\* its script, with nobody waiting for it.
\* Mutant: the second attempt has no time limit.
TimeoutOnce(p) ==
  /\ boot[p] \in {"post1", "script1"} /\ Goes(p, Retry(p)) /\ loose' = TRUE
  /\ Attempting /\ UNCHANGED <<template, work, overwritten>>
Timeout(p) ==
  /\ Waits(p) /\ Goes(p, Retry(p)) /\ loose' = TRUE
  /\ Attempting /\ UNCHANGED <<template, work, overwritten>>

Finish(p) ==
  /\ boot[p] \in {"ready", "fail"} /\ Update(p, boot[p]) /\ Goes(p, "done")
  /\ Polling /\ UNCHANGED <<racing, stale, taken>> /\ Quiet

-----------------------------------------------------------------------------
(* The editor, whatever the state of the bootstrap. *)

Running == Fetched.status = "running"
Others == UNCHANGED <<store, docVars, poll, read, boot, base, historyVars>>

\* getFilesFromContainer finds no file and extracts the template, unless such
\* an extraction is awaited.
ListEmpty ==
  /\ Running /\ ~template /\ work = "none" /\ ~listing
  /\ listing' = TRUE
  /\ Others /\ UNCHANGED <<loose, template, work, overwritten>>

\* One ends that no bootstrap waits for; others may go on.
LooseExtracts ==
  /\ \/ listing /\ listing' = FALSE /\ UNCHANGED loose
     \/ loose /\ loose' \in BOOLEAN /\ UNCHANGED listing
  /\ template' = TRUE /\ work' = "none"
  /\ Others /\ UNCHANGED overwritten
ListFails ==
  /\ listing /\ listing' = FALSE /\ loose' \in {loose, TRUE}
  /\ Others /\ UNCHANGED <<template, work, overwritten>>

\* A save reaches the container once the session runs.
Edit ==
  /\ Running
  /\ work' = IF Ready THEN "kept" ELSE IF work = "none" THEN "early" ELSE work
  /\ Others /\ UNCHANGED <<listing, loose, template, overwritten>>

Editor == ListEmpty \/ LooseExtracts \/ ListFails \/ Edit

-----------------------------------------------------------------------------
\* The process restarts; documents in memory are gone, the container works on.
Crash ==
  /\ crashes < MaxCrashes /\ crashes' = crashes + 1
  /\ doc' = IF store = "memory" THEN NoBase ELSE doc
  /\ poll' = [p \in Polls |-> "idle"]
  /\ read' = [p \in Polls |-> [row |-> "none", doc |-> NoBase]]
  /\ boot' = [p \in Polls |-> IF boot[p] = "none" THEN "none" ELSE "done"]
  /\ base' = [p \in Polls |-> NoBase]
  /\ listing' = FALSE
  /\ loose' = (loose \/ listing \/ \E p \in Polls : Waits(p))
  /\ UNCHANGED <<store, row, template, work, overwritten, racing, stale, taken>>

Poll(p) ==
  ReadRow(p) \/ ReadDoc(p) \/ Promote(p) \/ ReadForNet(p) \/ StoreNet(p) \/ SaveStale(p)
Bootstrap(p) ==
  Check(p) \/ ReadForUpdate(p) \/ Claim(p) \/ StartAttempt(p) \/ Timeout(p) \/ Finish(p)
Answer(p) == FallBack(p) \/ Extract(p) \/ AttemptFails(p)

Next ==
  \/ \E p \in Polls : Poll(p) \/ Bootstrap(p) \/ Answer(p)
  \/ Editor \/ Crash

Spec == Init /\ [][Next]_vars

\* A bootstrap that was started goes on and its timer fires; nothing is
\* assumed of the container.
FairSpec == Spec /\ \A p \in Polls : WF_vars(Bootstrap(p))

-----------------------------------------------------------------------------
States == {"none", "NOT_STARTED", "BOOTSTRAPPING", "READY", "FAILED"}
Docs == [there : BOOLEAN, state : States,
         status : {"none", "starting", "running", "failed"}]

\* Every variable stays within its type.
TypeOK ==
  /\ store \in {"dynamo", "memory"} /\ row \in {"STARTING", "RUNNING"} /\ doc \in Docs
  /\ poll \in [Polls -> {"idle", "row", "net", "update", "save"}]
  /\ read \in [Polls -> [row : {"none", "STARTING", "RUNNING"}, doc : Docs]]
  /\ boot \in [Polls -> {"none", "check", "claim", "first", "post1", "script1",
                         "second", "post2", "script2", "ready", "fail", "done"}]
  /\ base \in [Polls -> Docs]
  /\ listing \in BOOLEAN /\ loose \in BOOLEAN /\ template \in BOOLEAN
  /\ work \in {"none", "early", "kept"} /\ overwritten \in BOOLEAN
  /\ racing \in BOOLEAN /\ stale \in BOOLEAN /\ taken \in BOOLEAN /\ crashes \in Nat

\* READY is only said of a workspace into which the template was extracted,
\* whichever of two bootstraps, attempts or processes did it.
ReadyIsPopulated == Ready => template

\* A bootstrap does not extract the template over what the student has saved
\* since READY, unless a second one claimed the session: both had looked
\* before either claimed it, one took over from the other after 120 seconds,
\* or an old document was written back (workspaceBootstrapService.js:348-377,
\* sessions.js:452).  Work saved before READY is not kept, and an extraction
\* that no bootstrap waits for any more spares nothing.
WorkIsKept == overwritten => racing \/ stale \/ taken

\* Two bootstraps of one session run at once only if both had looked at the
\* document before either claimed it, the second took over from the first
\* after 120 seconds (workspaceBootstrapService.js:361-370), a document read
\* earlier was written back over a claim, or a restart lost the document, when
\* claims are stored nowhere (workspaceBootstrapService.js:348-377).
OneBootstrapUnlessRaced ==
  racing \/ stale \/ taken \/ ~doc.there \/
  \A p, q \in Polls : Extracts(p) /\ Extracts(q) => p = q

\* A session does not stay BOOTSTRAPPING for ever, also when the container
\* never answers; unless the process restarts, or a poll writes back the
\* BOOTSTRAPPING that it read before (sessions.js:452).
BootstrapSettles ==
  doc.state = "BOOTSTRAPPING" ~>
    doc.state \in {"READY", "FAILED"} \/ crashes > 0 \/ stale
=============================================================================
