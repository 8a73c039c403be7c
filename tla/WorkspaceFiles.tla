--------------------------- MODULE WorkspaceFiles ---------------------------
(***************************************************************************)
(* The files of one running session on the server: reading, saving and     *)
(* running a file (handlers/files.js, handlers/runs.js, fileRepository.js, *)
(* ExecuteCommand.js).                                                     *)
(*                                                                         *)
(* A file has three copies: in the container, in the session record, which *)
(* is read and written back whole, and in the memory of the server.  A     *)
(* call is one record of req; `by' is what asked for it in the browser     *)
(* and `later' is what the handler goes on with after its answer.          *)
(***************************************************************************)
EXTENDS Integers, FiniteSets

CONSTANTS
  Files,
  Requests,   \* bound on the calls in progress
  MaxSpent    \* bound on edits, saves on the button, runs, previews, reloads,
              \* restarts and faults together

\* Files are numbered in the order of the list, from 1; a workspace has some.
ASSUME FilesAssumption == Files \subseteq Nat \ {0} /\ Files # {}
ASSUME BoundAssumption == MaxSpent \in Nat

\* Contents are numbers; the program that a test run puts in the place of
\* c is -c.
None == 0
Blank == 1
Starter == 2
NoIndex == <<>>

VARIABLES
  disk,       \* the container's files
  record,     \* session.files of the session record: the contents in it
  cache,      \* fileContentCache
  index,      \* workspaceIndexCache
  req,
  acked,      \* history: the content of the last save that was acknowledged
  crossed,    \* history: files whose container writes overlapped or failed
  stale,      \* history: files read or kept while they were written, or
              \* served without a copy of them
  spent       \* of the bound

copies == <<disk, record, cache, index>>
serverVars == <<copies, req, acked, crossed, stale, spent>>

Call(op, f, c, by) ==
  [op |-> op, file |-> f, content |-> c, by |-> by, ok |-> TRUE, later |-> "none",
   at |-> IF op = "save" THEN "read" ELSE IF op = "run" THEN "sync" ELSE "disk",
   snap |-> <<>>]
Idle == [Call("none", None, None, "none") EXCEPT !.at = "idle"]

ServerInit ==
  /\ disk = [f \in Files |-> Starter] /\ record = [f \in Files |-> None]
  /\ cache = [f \in Files |-> None] /\ index = [f \in Files |-> None]
  /\ acked = [f \in Files |-> Starter] /\ crossed = {} /\ stale = {} /\ spent = 0

Of(f, ops) == {r \in Requests : req[r].op \in ops /\ req[r].file = f}

\* A call that still writes f, or still reads it.
Writing(f) == {r \in Of(f, {"save"}) : req[r].at \in {"read", "put", "disk"}}
              \cup {r \in Of(f, {"run"}) : req[r].at = "sync" \/ req[r].later # "none"}
Reading(f) == {r \in Of(f, {"content"}) : req[r].at # "taken" \/ req[r].later # "none"}
Keeping == {r \in Requests : req[r].at = "put" \/ req[r].later = "put"}

Spend == spent < MaxSpent /\ spent' = spent + 1

To(r, at) == req' = [req EXCEPT ![r].at = at]
Later(r, what) ==
  req' = [req EXCEPT ![r] = IF @.at = "taken" /\ what = "none" THEN Idle
                                                   ELSE [@ EXCEPT !.later = what]]
Answer(r, ok, c, later) ==
  req' = [req EXCEPT ![r].at = "done", ![r].ok = ok, ![r].content = c, ![r].later = later]

\* What a call that starts now runs into.
Meets(c) ==
  /\ crossed' = crossed \cup {f \in Files : /\ c.file = f /\ c.op # "content"
                                            /\ Writing(f) # {}}
  /\ stale' = stale \cup {f \in Files : /\ c.file = f
                                        /\ \/ Writing(f) # {}
                                           \/ c.op # "content" /\ Reading(f) # {}}

\* saveToContainer.  Whoever calls it catches its failure and goes on.
Writes(f, c) ==
  \/ disk' = [disk EXCEPT ![f] = c] /\ UNCHANGED <<spent, crossed>>
  \/ Spend /\ crossed' = crossed \cup {f} /\ UNCHANGED disk

\* listFiles: from the index or, after a restart, from the record, whose
\* contents then become the server's copies.
Listed == IF index # NoIndex THEN index ELSE record
ListFiles ==
  /\ index' = Listed
  /\ cache' = IF index # NoIndex THEN cache
              ELSE [f \in Files |-> IF record[f] # None THEN record[f] ELSE cache[f]]

-----------------------------------------------------------------------------
(* Save. *)

\* getSession: the files of the record, as they are now.
ReadRecord(r) ==
  /\ req[r].op = "save" /\ req[r].at = "read"
  /\ req' = [req EXCEPT ![r].at = "put", ![r].snap = record]
  /\ stale' = IF Keeping = {} THEN stale ELSE Files
  /\ UNCHANGED <<copies, acked, crossed, spent>>

\* The session cannot be read, or the server cannot be reached.
Refuse(r) ==
  /\ <<req[r].op, req[r].at>> \in {<<"save", "read">>, <<"content", "disk">>}
  /\ Answer(r, FALSE, req[r].content, "none") /\ Spend
  /\ UNCHANGED <<copies, acked, crossed, stale>>

\* Mutant: the entry of the list is laid over the new one, not under it.
PutRecordUnder(r) ==
  LET q == req[r]
      files == [q.snap EXCEPT ![q.file] = IF @ = None THEN q.content ELSE @]
  IN  /\ q.op = "save" /\ q.at = "put" /\ To(r, "disk")
      /\ cache' = [cache EXCEPT ![q.file] = files[q.file]]
      /\ index' = files /\ record' = files
      /\ UNCHANGED <<disk, acked, crossed, stale, spent>>

\* The copies of the server, and the whole list as it was read with the
\* file's new content in it.
PutRecord(r) ==
  LET q == req[r]
      files == [q.snap EXCEPT ![q.file] = q.content]
  IN  /\ q.op = "save" /\ q.at = "put" /\ To(r, "disk")
      /\ cache' = [cache EXCEPT ![q.file] = q.content]
      /\ index' = files
      /\ \/ record' = files /\ UNCHANGED <<spent, stale>>
         \/ Spend /\ stale' = stale \cup {q.file} /\ UNCHANGED record
      /\ UNCHANGED <<disk, acked, crossed>>

\* Mutant: a content that the server already has is not written again.
SaveToContainerIfNew(r) ==
  LET q == req[r] IN
  /\ q.op = "save" /\ q.at = "disk" /\ Answer(r, TRUE, q.content, "none")
  /\ disk' = IF cache[q.file] = q.content THEN disk
             ELSE [disk EXCEPT ![q.file] = q.content]
  /\ acked' = [acked EXCEPT ![q.file] = q.content]
  /\ UNCHANGED <<record, cache, index, crossed, stale, spent>>

\* When saveToContainer fails the save is acknowledged all the same.
SaveToContainer(r) ==
  LET q == req[r] IN
  /\ q.op = "save" /\ q.at = "disk" /\ Answer(r, TRUE, q.content, "none")
  /\ Writes(q.file, q.content)
  /\ acked' = [acked EXCEPT ![q.file] = q.content]
  /\ UNCHANGED <<record, cache, index, stale>>

-----------------------------------------------------------------------------
(* Content of a file, and what is kept of it after the answer. *)

ReadFromContainer(r) ==
  LET f == req[r].file IN
  /\ req[r].op = "content" /\ req[r].at = "disk"
  /\ Answer(r, TRUE, disk[f], "get")
  /\ UNCHANGED <<copies, acked, crossed, stale, spent>>

\* The container does not answer: getFile has a copy at hand.
ReadCopy(r) ==
  LET f == req[r].file
      found == IF cache[f] # None THEN cache[f] ELSE record[f]
  IN  /\ req[r].op = "content" /\ req[r].at = "disk"
      /\ found # None /\ Answer(r, TRUE, found, "none")
      /\ UNCHANGED <<copies, acked, crossed, stale, spent>>

\* It has none: it asks the container again, or takes the starter file from
\* S3, and answers when it has kept what it found.
ReadAgain(r) ==
  LET f == req[r].file IN
  /\ req[r].op = "content" /\ req[r].at = "disk" /\ cache[f] = None /\ record[f] = None
  /\ \E c \in {disk[f], Starter} :
       /\ req' = [req EXCEPT ![r].at = "keep", ![r].content = c, ![r].later = "get"]
       /\ cache' = [cache EXCEPT ![f] = c]
  /\ Spend /\ UNCHANGED <<disk, record, index, acked, crossed, stale>>

\* S3 has none either: the file is taken from the list, and a file that is
\* listed without its body is answered as an empty one.
ReadListed(r) ==
  LET f == req[r].file IN
  /\ req[r].op = "content" /\ req[r].at = "disk" /\ cache[f] = None /\ record[f] = None
  /\ Answer(r, TRUE, IF Listed[f] = None THEN Blank ELSE Listed[f], "none")
  /\ ListFiles /\ Spend /\ stale' = stale \cup {f}
  /\ UNCHANGED <<disk, record, acked, crossed>>

\* cacheFileContent, which nobody awaits after an answer of the container.
GetToKeep(r) ==
  /\ req[r].later = "get"
  /\ req' = [req EXCEPT ![r].later = "put", ![r].snap = record]
  /\ stale' = IF Keeping = {} THEN stale ELSE Files
  /\ UNCHANGED <<copies, acked, crossed, spent>>

Keep(r) ==
  /\ req[r].later = "put"
  /\ IF req[r].at = "keep" THEN Answer(r, TRUE, req[r].content, "none") ELSE Later(r, "none")
  /\ record' = [req[r].snap EXCEPT ![req[r].file] = req[r].content]
  /\ UNCHANGED <<disk, cache, index, acked, crossed, stale, spent>>

-----------------------------------------------------------------------------
(* A run of a test: the file is synchronised, the answer given, and then   *)
(* another program takes its place until the run has ended.                *)

\* A run without a program takes the container's, or else the saved one.
Program(q) ==
  CASE q.content # Blank -> q.content
    [] disk[q.file] \notin {None, Blank} -> disk[q.file]
    [] OTHER -> cache[q.file]

SyncFile(r) ==
  LET q == req[r] IN
  /\ q.op = "run" /\ q.at = "sync"
  /\ \/ /\ Program(q) \in {None, Blank} /\ Answer(r, FALSE, q.content, "none")
        /\ UNCHANGED <<disk, crossed>>
        /\ UNCHANGED spent
     \/ /\ Program(q) \notin {None, Blank} /\ Answer(r, TRUE, Program(q), "instrument")
        /\ \/ /\ disk' = [disk EXCEPT ![q.file] = Program(q)] /\ UNCHANGED spent
              /\ crossed' = IF Program(q) = acked[q.file] THEN crossed
                            ELSE crossed \cup {q.file}
           \/ Spend /\ crossed' = crossed \cup {q.file} /\ UNCHANGED disk
  /\ UNCHANGED <<record, cache, index, acked, stale>>

Instrument(r) ==
  /\ req[r].later = "instrument" /\ Later(r, "restore")
  /\ Writes(req[r].file, -req[r].content)
  /\ UNCHANGED <<record, cache, index, acked, stale>>

\* When it fails the other program stays.
Restore(r) ==
  /\ req[r].later = "restore" /\ Later(r, "none")
  /\ Writes(req[r].file, req[r].content)
  /\ UNCHANGED <<record, cache, index, acked, stale>>

-----------------------------------------------------------------------------
\* The server restarts: what it had in memory and its calls are gone.
Restart ==
  /\ Spend
  /\ cache' = [f \in Files |-> None] /\ index' = NoIndex
  /\ crossed' = crossed \cup {f \in Files : Writing(f) # {}}
  /\ stale' = stale \cup {f \in Files : Writing(f) # {}}
  /\ req' = [r \in Requests |->
               IF req[r].op = "none" \/ req[r].at = "taken" THEN Idle
               ELSE IF req[r].at = "done" THEN [req[r] EXCEPT !.later = "none"]
               ELSE [req[r] EXCEPT !.at = "done", !.ok = FALSE, !.later = "none"]]
  /\ UNCHANGED <<disk, record, acked>>

\* The answer does not reach the browser.
LoseAnswer(r) ==
  /\ req[r].op = "save" /\ req[r].at = "done" /\ req[r].ok /\ Spend
  /\ req' = [req EXCEPT ![r].ok = FALSE]
  /\ UNCHANGED <<copies, acked, crossed, stale>>

Works(r) ==
  \/ ReadRecord(r) \/ PutRecord(r) \/ SaveToContainer(r)
  \/ ReadFromContainer(r) \/ GetToKeep(r) \/ Keep(r)
  \/ SyncFile(r) \/ Instrument(r) \/ Restore(r)
Fails(r) == Refuse(r) \/ ReadCopy(r) \/ ReadAgain(r) \/ ReadListed(r) \/ LoseAnswer(r)
=============================================================================
