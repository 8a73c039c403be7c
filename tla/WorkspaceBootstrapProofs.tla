--------------------- MODULE WorkspaceBootstrapProofs ---------------------
(***************************************************************************)
(* What holds of the bootstrap of a workspace for any number of polls and  *)
(* restarts, in DynamoDB and in memory.                                    *)
(***************************************************************************)
EXTENDS WorkspaceBootstrap, TLAPS

\* Where a bootstrap is from its claim to its end, that is, Active.
Working == {"first", "post1", "script1", "second", "post2", "script2", "ready", "fail"}

\* Whoever says READY, or is about to, knows that the template is there.
ReadyKnown ==
  ~template =>
    /\ doc.state # "READY"
    /\ \A p \in Polls : /\ boot[p] # "ready" /\ base[p].state # "READY"
                        /\ read[p].doc.state # "READY"

\* Nothing is bootstrapped before a poll has made the session RUNNING.
Promoted ==
  row = "STARTING" =>
    /\ work # "kept" /\ doc.state \in {"NOT_STARTED", "none"}
    /\ \A p \in Polls : boot[p] = "none" /\ poll[p] \in {"idle", "row", "net"}

\* The document, where there is one, is a lock that whoever works holds, and
\* that nobody claims meanwhile; and it says READY as long as there is work.
Exclusive ==
  doc.there =>
    /\ doc.state # "BOOTSTRAPPING" => \A p \in Polls : boot[p] \notin Working
    /\ doc.state = "READY" => \A p \in Polls : boot[p] # "claim"
    /\ \A p, q \in Polls : boot[p] = "claim" => boot[q] \notin Working
    /\ \A p, q \in Polls : {boot[p], boot[q]} \subseteq Working => p = q
    /\ work = "kept" => doc.state = "READY"

\* After a restart has lost the document there is none again, and the work
\* is left alone because the session is RUNNING by then.
Lost ==
  ~doc.there =>
    /\ store = "memory" /\ doc = NoBase
    /\ \A p \in Polls : /\ base[p] = NoBase /\ poll[p] # "save"
                        /\ read[p].doc.state \in {"none", "NOT_STARTED"}

LeftAlone ==
  ~doc.there /\ work = "kept" =>
    \A p \in Polls : /\ boot[p] \in {"none", "done"}
                     /\ poll[p] \in {"idle", "row"}
                     /\ poll[p] = "row" => read[p].row = "RUNNING"

Raced == racing \/ stale \/ taken
Kept == LeftAlone /\ ~overwritten

\* What was read of a document that is there; and a poll that saves what it
\* has read has read a bootstrap that had begun.
Reads ==
  /\ doc.there => doc.state # "none"
  /\ \A p \in Polls : /\ poll[p] = "save" => read[p].doc.state \notin {"none", "NOT_STARTED"}
                      /\ poll[p] = "net" => read[p].doc.state # "none"
                      /\ poll[p] = "row" => read[p].row # "none"
                      /\ base[p] = NoBase \/ (base[p].there /\ base[p].state # "none")

IInv ==
  /\ TypeOK /\ ReadyKnown /\ Promoted /\ Reads /\ Lost
  /\ Raced \/ Exclusive
  /\ Raced \/ Kept

USE StoresAssumption, MaxCrashesAssumption

\* The absent document is one.
LEMMA NoBaseIsDoc == NoBase \in Docs /\ ~NoBase.there /\ NoBase.state = "none"
BY DEF NoBase, Docs, States

\* A new session satisfies the invariant.
LEMMA InitIInv == Init => IInv
<1> SUFFICES ASSUME Init PROVE IInv
  OBVIOUS
<1>1. NewDoc \in Docs /\ NewDoc.there /\ NewDoc.state = "NOT_STARTED"
  BY DEF NewDoc, Docs, States
<1>2. TypeOK
  <2>1. [row |-> "none", doc |-> NoBase] \in [row : {"none", "STARTING", "RUNNING"}, doc : Docs]
    BY NoBaseIsDoc
  <2> QED BY <1>1, <2>1, NoBaseIsDoc DEF Init, TypeOK
<1>3. ReadyKnown /\ Promoted /\ Reads /\ Lost
  BY <1>1, NoBaseIsDoc DEF Init, ReadyKnown, Promoted, Reads, Lost
<1>4. Exclusive /\ Kept
  BY <1>1 DEF Init, Exclusive, Kept, LeftAlone, Working
<1> QED BY <1>2, <1>3, <1>4 DEF IInv

-----------------------------------------------------------------------------
\* An update sets the state that it is for, in the document that it has read
\* or that is there, and makes none where there is none.
LEMMA UpdateDoc ==
  ASSUME TypeOK, Lost, Reads, NEW p \in Polls,
         NEW u \in {"net", "claim", "ready", "fail"}, Update(p, u)
  PROVE  /\ doc' \in Docs /\ (doc'.there <=> doc.there) /\ (~doc.there => doc' = doc)
         /\ base' \in [Polls -> Docs] /\ \A q \in Polls : base'[q] \in {base[q], NoBase}
         /\ doc.there =>
              /\ u = "net" => doc'.state \in {doc.state, base[p].state}
              /\ u = "net" /\ doc'.state # doc.state => store = "memory"
              /\ u = "claim" => doc'.state = "BOOTSTRAPPING"
              /\ u = "ready" => doc'.state = "READY"
              /\ u = "fail" => doc'.state = "FAILED"
<1>1. /\ doc \in Docs /\ base \in [Polls -> Docs] /\ base[p] \in Docs
      /\ base[p] = NoBase \/ base[p].there
  BY DEF TypeOK, Reads
<1>2. ASSUME NEW d \in Docs
      PROVE  /\ Merged(d, u) \in Docs /\ Merged(d, u).there = d.there
             /\ u = "net" => Merged(d, u).state = d.state
             /\ u = "claim" => Merged(d, u).state = "BOOTSTRAPPING"
             /\ u = "ready" => Merged(d, u).state = "READY"
             /\ u = "fail" => Merged(d, u).state = "FAILED"
  BY DEF Merged, Docs, States
<1>3. CASE store = "dynamo" /\ doc' = [Merged(Fetched, u) EXCEPT !.there = TRUE] /\ UNCHANGED base
  <2>1. doc.there /\ Fetched = doc
    BY <1>3 DEF Lost, Fetched
  <2>2. [Merged(doc, u) EXCEPT !.there = TRUE] = Merged(doc, u)
    BY <1>1, <1>2, <2>1 DEF Docs
  <2> QED BY <1>1, <1>2, <1>3, <2>1, <2>2
<1>4. CASE /\ store = "memory" /\ base[p] # NoBase
           /\ doc' = Merged(base[p], u) /\ base' = [base EXCEPT ![p] = NoBase]
  <2>1. base[p].there /\ doc.there
    BY <1>1, <1>4 DEF Lost
  <2> QED BY <1>1, <1>2, <1>4, <2>1, NoBaseIsDoc
<1>5. CASE store = "memory" /\ base[p] = NoBase /\ ~doc.there /\ UNCHANGED <<doc, base>>
  BY <1>1, <1>5
<1> QED BY <1>3, <1>4, <1>5 DEF Update

\* What getSession returns: the document, or one made up from the row.
LEMMA FetchedDoc ==
  ASSUME TypeOK, Lost
  PROVE  /\ Fetched \in Docs /\ (doc.there => Fetched = doc)
         /\ ~doc.there => /\ Fetched.state = "NOT_STARTED"
                          /\ row = "RUNNING" => Fetched.status # "starting"
<1>1. FromRow \in Docs /\ FromRow.state = "NOT_STARTED"
      /\ (row = "RUNNING" => FromRow.status # "starting")
  BY DEF FromRow, Docs, States
<1> QED BY <1>1 DEF Fetched, TypeOK

-----------------------------------------------------------------------------
(* Types. *)

Reading == [row : {"none", "STARTING", "RUNNING"}, doc : Docs]

\* The values that a poll's reading takes.
LEMMA ReadingMoves ==
  ASSUME TypeOK, NEW p \in Polls, NEW d \in Docs
  PROVE  /\ [read EXCEPT ![p].doc = d] \in [Polls -> Reading]
         /\ [read EXCEPT ![p] = [row |-> row, doc |-> NoBase]] \in [Polls -> Reading]
         /\ [read EXCEPT ![p] = [row |-> "none", doc |-> NoBase]] \in [Polls -> Reading]
         /\ [q \in Polls |-> [row |-> "none", doc |-> NoBase]] \in [Polls -> Reading]
<1>1. read \in [Polls -> Reading] /\ row \in {"STARTING", "RUNNING"}
  BY DEF TypeOK, Reading
<1>2. [read[p] EXCEPT !.doc = d] \in Reading
  BY <1>1 DEF Reading
<1>3. /\ [row |-> row, doc |-> NoBase] \in Reading
      /\ [row |-> "none", doc |-> NoBase] \in Reading
  BY <1>1, NoBaseIsDoc DEF Reading
<1> QED BY <1>1, <1>2, <1>3

\* No step leaves the types.
LEMMA TypeStep == TypeOK /\ Lost /\ Reads /\ [Next]_vars => TypeOK'
<1> SUFFICES ASSUME TypeOK, Lost, Reads, [Next]_vars PROVE TypeOK'
  OBVIOUS
<1> USE DEF docVars, historyVars, containerVars, Quiet, Polling, Goes, Attempting, Others
<1>0. doc \in Docs /\ read \in [Polls -> Reading] /\ NoBase \in Docs
  BY NoBaseIsDoc DEF TypeOK, Reading
<1>1. ASSUME NEW p \in Polls, ReadRow(p) PROVE TypeOK'
  BY <1>1, ReadingMoves, <1>0 DEF ReadRow, TypeOK, Reading
<1>2. ASSUME NEW p \in Polls, ReadDoc(p) PROVE TypeOK'
  <2>1. read' \in [Polls -> Reading]
    <3>1. Fetched \in Docs
      BY FetchedDoc
    <3>2. \/ read' = [read EXCEPT ![p].doc = Fetched]
          \/ read' = [read EXCEPT ![p] = [row |-> "none", doc |-> NoBase]]
      BY <1>2 DEF ReadDoc
    <3>3. \A d \in Docs : /\ [read EXCEPT ![p].doc = d] \in [Polls -> Reading]
                          /\ [read EXCEPT ![p] = [row |-> "none", doc |-> NoBase]]
                               \in [Polls -> Reading]
      BY ReadingMoves
    <3>4. CASE read' = [read EXCEPT ![p].doc = Fetched]
      <4> DEFINE d == Fetched
      <4>1. d \in Docs /\ read' = [read EXCEPT ![p].doc = d]
        BY <3>1, <3>4
      <4> HIDE DEF d
      <4> QED BY <3>3, <4>1
    <3> QED BY <3>1, <3>2, <3>3, <3>4
  <2>2. poll' \in [Polls -> {"idle", "row", "net", "update", "save"}]
    BY <1>2 DEF ReadDoc, TypeOK
  <2> QED BY <1>2, <2>1, <2>2 DEF ReadDoc, TypeOK, Reading
<1>3. ASSUME NEW p \in Polls, Promote(p) PROVE TypeOK'
  BY <1>3 DEF Promote, TypeOK
<1>4. ASSUME NEW p \in Polls, ReadForNet(p) \/ ReadForUpdate(p) PROVE TypeOK'
  BY <1>4 DEF ReadForNet, ReadForUpdate, ReadBase, TypeOK
<1>5. ASSUME NEW p \in Polls, StoreNet(p) PROVE TypeOK'
  <2>1. doc' \in Docs /\ base' \in [Polls -> Docs]
    BY <1>5, UpdateDoc DEF StoreNet
  <2> QED BY <1>5, <2>1, ReadingMoves, <1>0 DEF StoreNet, TypeOK, Reading
<1>6. ASSUME NEW p \in Polls, SaveStale(p) PROVE TypeOK'
  <2>1. [read[p].doc EXCEPT !.status = "running", !.there = TRUE] \in Docs
    BY <1>0 DEF Reading, Docs
  <2> QED BY <1>6, <2>1, ReadingMoves, <1>0 DEF SaveStale, TypeOK, Reading
<1>7. ASSUME NEW p \in Polls, Check(p) PROVE TypeOK'
  BY <1>7 DEF Check, TypeOK
<1>8. ASSUME NEW p \in Polls, Claim(p) PROVE TypeOK'
  <2>1. doc' \in Docs /\ base' \in [Polls -> Docs]
    BY <1>8, UpdateDoc DEF Claim
  <2> QED BY <1>8, <2>1 DEF Claim, TypeOK
<1>9. ASSUME NEW p \in Polls, StartAttempt(p) PROVE TypeOK'
  BY <1>9 DEF StartAttempt, TypeOK
<1>10. ASSUME NEW p \in Polls, Timeout(p) PROVE TypeOK'
  BY <1>10 DEF Timeout, Retry, TypeOK
<1>11. ASSUME NEW p \in Polls, Finish(p) PROVE TypeOK'
  <2>1. doc' \in Docs /\ base' \in [Polls -> Docs]
    BY <1>11, UpdateDoc DEF Finish
  <2> QED BY <1>11, <2>1 DEF Finish, TypeOK
<1>12. ASSUME NEW p \in Polls, Answer(p) PROVE TypeOK'
  <2>1. Retry(p) \in {"second", "fail"}
    BY DEF Retry
  <2>2. CASE FallBack(p)
    BY <2>2 DEF FallBack, TypeOK
  <2>3. CASE Extract(p)
    BY <2>3 DEF Extract, TypeOK
  <2>4. CASE AttemptFails(p)
    BY <2>1, <2>4 DEF AttemptFails, TypeOK
  <2> QED BY <1>12, <2>2, <2>3, <2>4 DEF Answer
<1>13. CASE Editor
  <2>1. CASE ListEmpty
    BY <2>1 DEF ListEmpty, TypeOK
  <2>2. CASE LooseExtracts
    BY <2>2 DEF LooseExtracts, TypeOK
  <2>3. CASE ListFails
    BY <2>3 DEF ListFails, TypeOK
  <2>4. CASE Edit
    BY <2>4 DEF Edit, TypeOK
  <2> QED BY <1>13, <2>1, <2>2, <2>3, <2>4 DEF Editor
<1>14. CASE Crash
  <2>1. crashes' \in Nat /\ doc' \in Docs /\ base' \in [Polls -> Docs]
    BY <1>0, <1>14 DEF Crash, TypeOK
  <2>2. read' \in [Polls -> Reading]
    BY <1>14, <1>0 DEF Crash, Reading
  <2>3. boot' \in [Polls -> {"none", "done"}]
    BY <1>14 DEF Crash
  <2>4. poll' \in [Polls -> {"idle"}]
    BY <1>14 DEF Crash
  <2> QED BY <1>14, <2>1, <2>2, <2>3, <2>4 DEF Crash, TypeOK, Reading
<1>15. CASE UNCHANGED vars
  BY <1>15 DEF vars, TypeOK
<1> QED
  BY <1>1, <1>2, <1>3, <1>4, <1>5, <1>6, <1>7, <1>8, <1>9, <1>10, <1>11, <1>12, <1>13,
     <1>14, <1>15 DEF Next, Poll, Bootstrap

-----------------------------------------------------------------------------
(* What is known of the workspace, of the row and of a lost document.      *)

Knows == ReadyKnown /\ Promoted /\ Reads /\ Lost

\* No step says READY of an empty workspace or mixes up lost documents.
LEMMA KnownStep == TypeOK /\ Knows /\ [Next]_vars => Knows'
<1> SUFFICES ASSUME TypeOK, Knows, [Next]_vars PROVE Knows'
  OBVIOUS
<1> USE DEF docVars, historyVars, containerVars, Quiet, Polling, Goes, Attempting, Others, Knows
<1>0. /\ doc \in Docs /\ read \in [Polls -> Reading] /\ base \in [Polls -> Docs]
      /\ poll \in [Polls -> {"idle", "row", "net", "update", "save"}]
      /\ boot \in [Polls -> {"none", "check", "claim", "first", "post1", "script1",
                             "second", "post2", "script2", "ready", "fail", "done"}]
      /\ row \in {"STARTING", "RUNNING"} /\ store \in {"dynamo", "memory"}
  BY DEF TypeOK, Reading
<1> USE NoBaseIsDoc
<1>1. ASSUME NEW p \in Polls, ReadRow(p) PROVE Knows'
  <2>1. read'[p] = [row |-> row, doc |-> NoBase] /\ poll'[p] = "row"
        /\ \A q \in Polls \ {p} : read'[q] = read[q] /\ poll'[q] = poll[q]
    BY <1>0, <1>1 DEF ReadRow
  <2>2. UNCHANGED <<store, template, work, row, doc, boot, base>>
    BY <1>1 DEF ReadRow
  <2> QED BY <1>0, <2>1, <2>2 DEF ReadyKnown, Promoted, Reads, Lost
<1>2. ASSUME NEW p \in Polls, ReadDoc(p) PROVE Knows'
  <2>1. \A q \in Polls \ {p} : read'[q] = read[q] /\ poll'[q] = poll[q]
    BY <1>0, <1>2 DEF ReadDoc
  <2>2. UNCHANGED <<store, template, work, row, doc, boot, base>>
    BY <1>2 DEF ReadDoc
  <2>3. \/ read'[p].doc = Fetched /\ poll'[p] = "net"
        \/ read'[p] = [row |-> "none", doc |-> NoBase] /\ poll'[p] = "idle"
    BY <1>0, <1>2 DEF ReadDoc, Reading
  <2>4. /\ Fetched.state # "none" /\ (doc.there => Fetched = doc)
        /\ ~doc.there => Fetched.state = "NOT_STARTED"
    BY FetchedDoc DEF Reads
  <2>5. ReadyKnown' /\ Promoted'
    BY <2>1, <2>2, <2>3, <2>4 DEF ReadyKnown, Promoted
  <2>6. Reads' /\ Lost'
    BY <1>0, <2>1, <2>2, <2>3, <2>4 DEF Reads, Lost
  <2> QED BY <2>5, <2>6
<1>3. ASSUME NEW p \in Polls, Promote(p) PROVE Knows'
  BY <1>0, <1>3 DEF Promote, ReadyKnown, Promoted, Reads, Lost
<1>4. ASSUME NEW p \in Polls, ReadBase(p), UNCHANGED <<store, row, poll, read, boot, template, work>>
      PROVE  Knows'
  <2>1. base'[p] = doc /\ doc.there /\ doc' = doc /\ \A q \in Polls \ {p} : base'[q] = base[q]
    BY <1>0, <1>4 DEF ReadBase
  <2> QED BY <1>4, <2>1 DEF ReadyKnown, Promoted, Reads, Lost
<1>5. ASSUME NEW p \in Polls, StoreNet(p) PROVE Knows'
  <2>1. /\ (doc'.there <=> doc.there) /\ (~doc.there => doc' = doc)
        /\ \A q \in Polls : base'[q] \in {base[q], NoBase}
        /\ doc.there => doc'.state \in {doc.state, base[p].state}
        /\ doc.there /\ doc'.state # doc.state => doc'.state # "none"
    <3>1. base[p] = NoBase => doc' = doc \/ doc'.state = doc.state
      BY <1>0, <1>5 DEF StoreNet, Update, Merged, Docs, Lost, Fetched
    <3> QED BY <1>5, <3>1, UpdateDoc DEF StoreNet, Reads
  <2>2. /\ poll[p] = "update" /\ poll'[p] = "idle" /\ boot'[p] = "check"
        /\ read'[p] = [row |-> "none", doc |-> NoBase]
        /\ \A q \in Polls \ {p} : poll'[q] = poll[q] /\ boot'[q] = boot[q] /\ read'[q] = read[q]
        /\ UNCHANGED <<row, store, template, work>>
    BY <1>0, <1>5 DEF StoreNet
  <2>3. ReadyKnown' /\ Promoted'
    BY <1>0, <2>1, <2>2 DEF ReadyKnown, Promoted
  <2>4. Reads' /\ Lost'
    BY <1>0, <2>1, <2>2 DEF Reads, Lost
  <2> QED BY <2>3, <2>4
<1>6. ASSUME NEW p \in Polls, SaveStale(p) PROVE Knows'
  <2>1. /\ poll[p] = "save" /\ poll'[p] = "idle" /\ read'[p] = [row |-> "none", doc |-> NoBase]
        /\ \A q \in Polls \ {p} : poll'[q] = poll[q] /\ read'[q] = read[q]
        /\ UNCHANGED <<row, store, template, work, boot, base>>
    BY <1>0, <1>6 DEF SaveStale
  <2>2. doc'.there /\ doc'.state = read[p].doc.state
    BY <1>0, <1>6 DEF SaveStale, Reading, Docs
  <2>3. doc.there /\ row # "STARTING"
    BY <2>1 DEF Lost, Promoted
  <2> QED BY <2>1, <2>2, <2>3 DEF ReadyKnown, Promoted, Reads, Lost
<1>7. ASSUME NEW p \in Polls, Check(p) PROVE Knows'
  <2>1. /\ boot[p] = "check" /\ boot'[p] \in {"done", "claim"}
        /\ \A q \in Polls \ {p} : boot'[q] = boot[q]
        /\ UNCHANGED <<row, poll, read, doc, base, store, template, work>>
    BY <1>0, <1>7 DEF Check
  <2> QED BY <1>0, <2>1 DEF ReadyKnown, Promoted, Reads, Lost
<1>8. ASSUME NEW p \in Polls, Claim(p) \/ Finish(p) PROVE Knows'
  <2>1. \E u \in {"claim", "ready", "fail"} : Update(p, u) /\ boot[p] = u
    BY <1>8 DEF Claim, Finish
  <2>2. /\ (doc'.there <=> doc.there) /\ (~doc.there => doc' = doc)
        /\ \A q \in Polls : base'[q] \in {base[q], NoBase}
        /\ doc.there => /\ doc'.state # "none"
                        /\ doc'.state = "READY" => boot[p] = "ready"
    BY <2>1, UpdateDoc
  <2>3. /\ boot[p] # "none" /\ boot'[p] \in {"first", "done"}
        /\ \A q \in Polls \ {p} : boot'[q] = boot[q]
        /\ UNCHANGED <<row, poll, read, store, template, work>>
    BY <1>0, <1>8, <2>1 DEF Claim, Finish
  <2>4. ReadyKnown' /\ Promoted'
    BY <1>0, <2>2, <2>3 DEF ReadyKnown, Promoted
  <2>5. Reads'
    BY <2>2, <2>3 DEF Reads
  <2>6. Lost'
    BY <2>2, <2>3 DEF Lost
  <2> QED BY <2>4, <2>5, <2>6
<1>9. ASSUME NEW p \in Polls, StartAttempt(p) \/ Timeout(p) PROVE Knows'
  <2>1. boot[p] # "none" /\ boot'[p] \notin {"ready", "none"}
        /\ \A q \in Polls \ {p} : boot'[q] = boot[q]
    BY <1>0, <1>9 DEF StartAttempt, Timeout, Retry, Waits
  <2>2. UNCHANGED <<store, template, work, row, doc, poll, read, base>>
    BY <1>9 DEF StartAttempt, Timeout
  <2> QED BY <1>0, <2>1, <2>2 DEF ReadyKnown, Promoted, Reads, Lost
<1>10. ASSUME NEW p \in Polls, Extract(p) PROVE Knows'
  <2>1. row = "RUNNING"
    BY <1>0, <1>10 DEF Extract, Promoted, Waits
  <2> QED BY <2>1, <1>10 DEF Extract, ReadyKnown, Promoted, Reads, Lost
<1>11. ASSUME NEW p \in Polls, AttemptFails(p) \/ FallBack(p) PROVE Knows'
  <2>1. row = "RUNNING"
    BY <1>0, <1>11 DEF AttemptFails, FallBack, Promoted, Waits
  <2>2. /\ boot'[p] \in {"second", "fail", "script1", "script2"}
        /\ \A q \in Polls \ {p} : boot'[q] = boot[q]
        /\ UNCHANGED <<row, poll, read, doc, base, store, template, work>>
    BY <1>0, <1>11 DEF AttemptFails, FallBack, Retry
  <2> QED BY <2>1, <2>2 DEF ReadyKnown, Promoted, Reads, Lost
<1>12. CASE Editor
  <2>1. /\ UNCHANGED <<store, row, doc, poll, read, boot, base>>
        /\ template' = template \/ template'
        /\ work' = "kept" => work = "kept" \/ doc.state = "READY"
    <3>1. ASSUME ListEmpty \/ ListFails
          PROVE  UNCHANGED <<store, row, doc, poll, read, boot, base, template, work>>
      BY <3>1 DEF ListEmpty, ListFails
    <3>2. ASSUME LooseExtracts
          PROVE  /\ UNCHANGED <<store, row, doc, poll, read, boot, base>>
                 /\ template' /\ work' = "none"
      BY <3>2 DEF LooseExtracts
    <3>3. ASSUME Edit
          PROVE  /\ UNCHANGED <<store, row, doc, poll, read, boot, base, template>>
                 /\ work' \in {"early", work} \/ doc.state = "READY"
      BY <3>3 DEF Edit, Ready
    <3> QED BY <1>12, <3>1, <3>2, <3>3 DEF Editor
  <2> QED BY <2>1 DEF ReadyKnown, Promoted, Reads, Lost
<1>13. CASE Crash
  <2>1. \A q \in Polls : /\ poll'[q] = "idle" /\ read'[q] = [row |-> "none", doc |-> NoBase]
                         /\ base'[q] = NoBase /\ boot'[q] \in {"none", "done"}
                         /\ boot[q] = "none" => boot'[q] = "none"
    BY <1>13 DEF Crash
  <2>2. /\ doc' = IF store = "memory" THEN NoBase ELSE doc
        /\ UNCHANGED <<store, row, template, work>>
    BY <1>13 DEF Crash
  <2>3. ReadyKnown' /\ Promoted'
    BY <2>1, <2>2 DEF ReadyKnown, Promoted
  <2>4. Reads' /\ Lost'
    BY <1>0, <2>1, <2>2 DEF Reads, Lost
  <2> QED BY <2>3, <2>4
<1>14. CASE UNCHANGED vars
  BY <1>14 DEF vars, ReadyKnown, Promoted, Reads, Lost
<1>15. ASSUME NEW p \in Polls, ReadForNet(p) \/ ReadForUpdate(p) PROVE Knows'
  BY <1>4, <1>15 DEF ReadForNet, ReadForUpdate
<1> QED
  BY <1>1, <1>2, <1>3, <1>5, <1>6, <1>7, <1>8, <1>9, <1>10, <1>11, <1>12, <1>13,
     <1>14, <1>15 DEF Next, Poll, Bootstrap, Answer

-----------------------------------------------------------------------------
(* The document as a lock. *)

\* What has happened is not forgotten.
LEMMA HistoryStays ==
  ASSUME TypeOK, [Next]_vars
  PROVE  Raced => Raced'
<1> USE DEF docVars, historyVars, containerVars, Quiet, Attempting, Others, Raced
<1>0. racing \in BOOLEAN /\ stale \in BOOLEAN /\ taken \in BOOLEAN
  BY DEF TypeOK
<1>1. ASSUME NEW p \in Polls, Poll(p) PROVE Raced => Raced'
  <2>1. ASSUME StoreNet(p) \/ SaveStale(p) PROVE Raced => Raced'
    <3>1. \E b \in BOOLEAN : stale' = (stale \/ b) /\ UNCHANGED <<racing, taken>>
      BY <2>1 DEF StoreNet, SaveStale
    <3> QED BY <1>0, <3>1
  <2>2. ASSUME ReadRow(p) \/ ReadDoc(p) \/ Promote(p) \/ ReadForNet(p)
        PROVE  UNCHANGED <<racing, stale, taken>>
    BY <2>2 DEF ReadRow, ReadDoc, Promote, ReadForNet
  <2> QED BY <1>1, <2>1, <2>2 DEF Poll
<1>2. ASSUME NEW p \in Polls, Bootstrap(p) PROVE Raced => Raced'
  <2>1. ASSUME Claim(p) PROVE Raced => Raced'
    <3>1. \E b \in BOOLEAN : racing' = (racing \/ b) /\ UNCHANGED <<stale, taken>>
      BY <2>1 DEF Claim
    <3> QED BY <1>0, <3>1
  <2>2. ASSUME Check(p) PROVE Raced => Raced'
    <3>1. UNCHANGED <<racing, stale>> /\ (taken => taken')
      BY <1>0, <2>2 DEF Check
    <3> QED BY <3>1
  <2>3. ASSUME Timeout(p) \/ ReadForUpdate(p) \/ StartAttempt(p) \/ Finish(p)
        PROVE  UNCHANGED <<racing, stale, taken>>
    BY <2>3 DEF Timeout, ReadForUpdate, StartAttempt, Finish
  <2> QED BY <1>2, <2>1, <2>2, <2>3 DEF Bootstrap
<1>3. ASSUME NEW p \in Polls, Answer(p) PROVE UNCHANGED <<racing, stale, taken>>
  BY <1>3 DEF Answer, FallBack, Extract, AttemptFails
<1>4. ASSUME Editor \/ Crash \/ UNCHANGED vars PROVE UNCHANGED <<racing, stale, taken>>
  BY <1>4 DEF Editor, ListEmpty, LooseExtracts, ListFails, Edit, Crash, vars
<1> QED BY <1>1, <1>2, <1>3, <1>4 DEF Next

\* The lock is kept until somebody claims in a race or writes back old state.
LEMMA ExclusiveStep ==
  TypeOK /\ Knows /\ (Raced \/ Exclusive) /\ [Next]_vars => Raced' \/ Exclusive'
<1> USE DEF docVars, historyVars, containerVars, Quiet, Polling, Goes, Attempting, Others
<1>1. ASSUME TypeOK, [Next]_vars, Raced PROVE Raced'
  BY <1>1, HistoryStays
<1> SUFFICES ASSUME TypeOK, Knows, Exclusive, [Next]_vars, ~Raced' PROVE Exclusive'
  BY <1>1
<1>0. /\ doc \in Docs /\ read \in [Polls -> Reading]
      /\ boot \in [Polls -> {"none", "check", "claim", "first", "post1", "script1",
                             "second", "post2", "script2", "ready", "fail", "done"}]
      /\ work \in {"none", "early", "kept"}
      /\ Reads /\ Lost
  BY DEF TypeOK, Reading, Knows
\* What becomes of the rest when one poll's bootstrap moves on.
<1>a. ASSUME NEW p \in Polls, \A q \in Polls \ {p} : boot'[q] = boot[q],
             doc'.there => doc.there, doc.there => doc'.state = doc.state,
             work' = "kept" => work = "kept",
             boot'[p] \in Working => boot[p] \in Working,
             boot'[p] = "claim" => /\ doc.state # "READY"
                                   /\ \A q \in Polls : boot[q] \notin Working
      PROVE  Exclusive'
  BY <1>a DEF Exclusive
<1>2. ASSUME NEW p \in Polls, ReadRow(p) \/ ReadDoc(p) \/ Promote(p) PROVE Exclusive'
  BY <1>2 DEF ReadRow, ReadDoc, Promote, Exclusive
<1>3. ASSUME NEW p \in Polls, ReadForNet(p) \/ ReadForUpdate(p) PROVE Exclusive'
  BY <1>3 DEF ReadForNet, ReadForUpdate, ReadBase, Exclusive
<1>4. ASSUME NEW p \in Polls, StoreNet(p) PROVE Exclusive'
  <2>1. /\ doc'.there <=> doc.there
        /\ doc.there /\ doc'.state # doc.state => store = "memory"
    BY <1>0, <1>4, UpdateDoc DEF StoreNet
  <2>2. ~stale' /\ stale' = (stale \/ (store = "memory" /\ doc'.state # doc.state))
    BY <1>4 DEF StoreNet, Raced
  <2>3. /\ boot'[p] = "check" /\ work' = work
        /\ \A q \in Polls \ {p} : boot'[q] = boot[q]
    BY <1>0, <1>4 DEF StoreNet
  <2> QED BY <2>1, <2>2, <2>3, <1>a DEF Working
<1>5. ASSUME NEW p \in Polls, SaveStale(p) PROVE Exclusive'
  <2>1. doc'.state = doc.state /\ doc.there /\ UNCHANGED <<boot, work>>
    BY <1>0, <1>5 DEF SaveStale, Raced, Lost
  <2> QED BY <2>1 DEF Exclusive
<1>6. ASSUME NEW p \in Polls, Check(p) PROVE Exclusive'
  <2>1. /\ boot[p] = "check" /\ boot'[p] \in {"done", "claim"}
        /\ \A q \in Polls \ {p} : boot'[q] = boot[q]
        /\ UNCHANGED <<doc, work>>
    BY <1>0, <1>6 DEF Check
  <2>2. ASSUME doc.there, boot'[p] = "claim"
        PROVE  doc.state # "READY" /\ \A q \in Polls : boot[q] \notin Working
    <3>1. Fetched = doc
      BY <1>0, <2>2, FetchedDoc
    <3>2. /\ doc.state # "READY"
          /\ ~taken' /\ taken' = (taken \/ (/\ Fetched.state = "BOOTSTRAPPING"
                                            /\ \E q \in Polls : Active(q)))
      BY <1>0, <1>6, <2>2, <3>1 DEF Check, Raced
    <3>3. doc.state = "BOOTSTRAPPING" => \A q \in Polls : ~Active(q)
      BY <3>1, <3>2
    <3> QED BY <2>2, <3>2, <3>3 DEF Exclusive, Active, Extracts, Waits, Working
  <2>3. CASE doc.there
    BY <2>1, <2>2, <2>3, <1>a DEF Working
  <2>4. CASE ~doc.there
    BY <2>1, <2>4 DEF Exclusive
  <2> QED BY <2>3, <2>4
<1>7. ASSUME NEW p \in Polls, Claim(p) PROVE Exclusive'
  <2>1. /\ doc'.there <=> doc.there
        /\ doc.there => doc'.state = "BOOTSTRAPPING"
    BY <1>0, <1>7, UpdateDoc DEF Claim
  <2>2. /\ boot[p] = "claim" /\ boot'[p] = "first" /\ work' = work
        /\ \A q \in Polls \ {p} : boot'[q] = boot[q]
    BY <1>0, <1>7 DEF Claim
  <2>3. \A q \in Polls \ {p} : boot[q] # "claim"
    BY <1>7 DEF Claim, Raced
  <2>4. doc.there => /\ \A q \in Polls : boot[q] \notin Working
                     /\ work # "kept"
    BY <2>2 DEF Exclusive
  <2> QED BY <2>1, <2>2, <2>3, <2>4 DEF Exclusive, Working
<1>8. ASSUME NEW p \in Polls, StartAttempt(p) \/ Timeout(p) PROVE Exclusive'
  BY <1>0, <1>8, <1>a DEF StartAttempt, Timeout, Retry, Waits, Working
<1>9. ASSUME NEW p \in Polls, Finish(p) PROVE Exclusive'
  <2>1. /\ doc'.there <=> doc.there
        /\ doc.there => doc'.state \in {"READY", "FAILED"}
    BY <1>0, <1>9, UpdateDoc DEF Finish
  <2>2. /\ boot[p] \in Working /\ boot'[p] = "done" /\ work' = work
        /\ \A q \in Polls \ {p} : boot'[q] = boot[q]
    BY <1>0, <1>9 DEF Finish, Working
  <2>3. doc.there => doc.state = "BOOTSTRAPPING"
    BY <2>2 DEF Exclusive
  <2>4. doc.there => \A q \in Polls : boot'[q] \notin Working /\ boot'[q] # "claim"
    BY <1>0, <2>2, <2>3 DEF Exclusive, Working
  <2>5. doc.there => work # "kept"
    BY <2>3 DEF Exclusive
  <2> QED BY <2>1, <2>2, <2>4, <2>5 DEF Exclusive
<1>10. ASSUME NEW p \in Polls, Answer(p) PROVE Exclusive'
  <2>1. /\ boot[p] \in Working /\ boot'[p] \in Working
        /\ \A q \in Polls \ {p} : boot'[q] = boot[q]
        /\ doc' = doc /\ work' \in {"none", work}
    BY <1>0, <1>10 DEF Answer, FallBack, Extract, AttemptFails, Waits, Retry, Working
  <2> QED BY <2>1, <1>a DEF Working
<1>11. CASE Editor
  <2>1. /\ UNCHANGED <<doc, boot>>
        /\ work' = "kept" => work = "kept" \/ (doc.there /\ doc.state = "READY")
    BY <1>11 DEF Editor, ListEmpty, LooseExtracts, ListFails, Edit, Ready
  <2> QED BY <2>1 DEF Exclusive
<1>12. CASE Crash
  <2>1. \A q \in Polls : boot'[q] \in {"none", "done"}
    BY <1>12 DEF Crash
  <2>2. work' = work /\ (doc'.there => doc' = doc)
    BY <1>12, NoBaseIsDoc DEF Crash
  <2> QED BY <2>1, <2>2 DEF Exclusive, Working
<1>13. CASE UNCHANGED vars
  BY <1>13 DEF vars, Exclusive
<1> QED
  BY <1>2, <1>3, <1>4, <1>5, <1>6, <1>7, <1>8, <1>9, <1>10, <1>11, <1>12, <1>13
     DEF Next, Poll, Bootstrap

-----------------------------------------------------------------------------
(* The student's work. *)

\* The work is left alone until then.
LEMMA KeptStep ==
  ASSUME TypeOK, Knows, Raced \/ Exclusive, Raced \/ Kept, [Next]_vars
  PROVE  Raced' \/ Kept'
<1> USE DEF docVars, historyVars, containerVars, Quiet, Polling, Goes, Attempting, Others
<1>1. ASSUME Raced PROVE Raced'
  BY <1>1, HistoryStays
<1> SUFFICES ASSUME Exclusive, Kept, ~Raced' PROVE Kept'
  BY <1>1
<1>0. /\ doc \in Docs /\ read \in [Polls -> Reading]
      /\ poll \in [Polls -> {"idle", "row", "net", "update", "save"}]
      /\ boot \in [Polls -> {"none", "check", "claim", "first", "post1", "script1",
                             "second", "post2", "script2", "ready", "fail", "done"}]
      /\ row \in {"STARTING", "RUNNING"} /\ work \in {"none", "early", "kept"}
      /\ Reads /\ Lost /\ Promoted /\ LeftAlone /\ ~overwritten
  BY DEF TypeOK, Reading, Knows, Kept
<1>1a. work = "kept" => row = "RUNNING"
  BY <1>0 DEF Promoted
<1>2. ASSUME NEW p \in Polls, ReadRow(p) PROVE Kept'
  <2>1. /\ poll'[p] = "row" /\ read'[p].row = row
        /\ \A q \in Polls \ {p} : poll'[q] = poll[q] /\ read'[q] = read[q]
        /\ UNCHANGED <<doc, boot, work, overwritten>>
    BY <1>0, <1>2 DEF ReadRow
  <2> QED BY <1>0, <1>1a, <2>1 DEF Kept, LeftAlone
<1>3. ASSUME NEW p \in Polls, ReadDoc(p) PROVE Kept'
  <2>1. /\ poll[p] = "row" /\ poll'[p] \in {"idle", "net"}
        /\ poll'[p] = "net" => read[p].row = "STARTING" \/ Fetched.status = "starting"
        /\ \A q \in Polls \ {p} : poll'[q] = poll[q] /\ read'[q] = read[q]
        /\ UNCHANGED <<doc, boot, work, overwritten>>
    BY <1>0, <1>3 DEF ReadDoc
  <2>2. ~doc.there /\ work = "kept" => poll'[p] = "idle"
    BY <1>0, <1>1a, <2>1, FetchedDoc DEF LeftAlone
  <2> QED BY <1>0, <2>1, <2>2 DEF Kept, LeftAlone
<1>4. ASSUME NEW p \in Polls, Promote(p) PROVE Kept'
  <2>1. /\ poll[p] = "net" /\ \A q \in Polls \ {p} : poll'[q] = poll[q]
        /\ UNCHANGED <<doc, read, boot, work, overwritten>>
    BY <1>0, <1>4 DEF Promote
  <2> QED BY <1>0, <2>1 DEF Kept, LeftAlone
<1>5. ASSUME NEW p \in Polls, ReadForNet(p) \/ ReadForUpdate(p) PROVE Kept'
  BY <1>0, <1>5 DEF ReadForNet, ReadForUpdate, ReadBase, Kept, LeftAlone
<1>6. ASSUME NEW p \in Polls, StoreNet(p) PROVE Kept'
  <2>1. doc'.there <=> doc.there
    BY <1>0, <1>6, UpdateDoc DEF StoreNet
  <2>2. poll[p] = "update" /\ UNCHANGED <<work, overwritten>>
    BY <1>6 DEF StoreNet
  <2> QED BY <1>0, <2>1, <2>2 DEF Kept, LeftAlone
<1>7. ASSUME NEW p \in Polls, SaveStale(p) PROVE Kept'
  <2>1. doc'.there /\ UNCHANGED overwritten
    BY <1>0, <1>7 DEF SaveStale, Reading, Docs
  <2> QED BY <1>0, <2>1 DEF Kept, LeftAlone
\* Whoever moves on in a bootstrap is not there when work is left alone.
<1>8. ASSUME NEW p \in Polls, boot[p] \notin {"none", "done"}, doc'.there <=> doc.there,
             work' = "kept" => work = "kept", ~overwritten'
      PROVE  Kept'
  BY <1>0, <1>8 DEF Kept, LeftAlone
<1>9. ASSUME NEW p \in Polls, Check(p) \/ StartAttempt(p) \/ Timeout(p) PROVE Kept'
  BY <1>0, <1>8, <1>9 DEF Check, StartAttempt, Timeout, Waits
<1>10. ASSUME NEW p \in Polls, Claim(p) \/ Finish(p) PROVE Kept'
  <2>1. \E u \in {"claim", "ready", "fail"} : Update(p, u) /\ boot[p] = u
    BY <1>10 DEF Claim, Finish
  <2>2. doc'.there <=> doc.there
    BY <1>0, <2>1, UpdateDoc
  <2> QED BY <1>0, <1>8, <1>10, <2>1, <2>2 DEF Claim, Finish
<1>11. ASSUME NEW p \in Polls, Answer(p) PROVE Kept'
  <2>1. CASE FallBack(p) \/ AttemptFails(p)
    <3>1. boot[p] \notin {"none", "done"} /\ UNCHANGED <<doc, work, overwritten>>
      BY <2>1 DEF FallBack, AttemptFails, Waits
    <3> QED BY <1>0, <1>8, <3>1
  <2>2. CASE Extract(p)
    <3>1. boot[p] \in Working /\ boot[p] \notin {"none", "done"}
      BY <2>2 DEF Extract, Waits, Working
    <3>2. work # "kept"
      BY <1>0, <3>1 DEF Exclusive, LeftAlone
    <3>3. doc' = doc /\ work' # "kept" /\ ~overwritten'
      BY <1>0, <2>2, <3>2 DEF Extract
    <3> QED BY <1>8, <3>1, <3>3
  <2> QED BY <1>11, <2>1, <2>2 DEF Answer
<1>12. CASE Editor
  <2>1. /\ UNCHANGED <<doc, poll, read, boot, overwritten>>
        /\ work' = "kept" => work = "kept" \/ doc.there
    BY <1>12 DEF Editor, ListEmpty, LooseExtracts, ListFails, Edit, Ready
  <2> QED BY <1>0, <2>1 DEF Kept, LeftAlone
<1>13. CASE Crash
  <2>1. \A q \in Polls : boot'[q] \in {"none", "done"} /\ poll'[q] = "idle"
    BY <1>13 DEF Crash
  <2> QED BY <1>0, <1>13, <2>1 DEF Kept, LeftAlone, Crash
<1>14. CASE UNCHANGED vars
  BY <1>0, <1>14 DEF vars, Kept, LeftAlone
<1> QED
  BY <1>2, <1>3, <1>4, <1>5, <1>6, <1>7, <1>9, <1>10, <1>11, <1>12, <1>13, <1>14
     DEF Next, Poll, Bootstrap

-----------------------------------------------------------------------------
\* The inductive invariant holds for ever.
LEMMA BootstrapInvariant == Spec => []IInv
<1>1. IInv /\ [Next]_vars => IInv'
  BY TypeStep, KnownStep, ExclusiveStep, KeptStep DEF IInv, Knows
<1> QED BY InitIInv, <1>1, PTL DEF Spec

\* Every reachable state is well typed, wherever documents are kept.
THEOREM BootstrapTypes == Spec => []TypeOK
<1>1. IInv => TypeOK
  BY DEF IInv
<1> QED BY <1>1, BootstrapInvariant, PTL

\* READY is only said of a workspace that has the template, whoever put it
\* there and whichever document was written over which.
THEOREM ReadyHolds == Spec => []ReadyIsPopulated
<1>1. IInv => ReadyIsPopulated
  BY DEF IInv, ReadyKnown, ReadyIsPopulated, Ready
<1> QED BY <1>1, BootstrapInvariant, PTL

\* Two bootstraps run at once only where both looked before either claimed, one
\* took over from the other, a stale document was written back or a restart
\* lost the document.
THEOREM BootstrapsExclusive == Spec => []OneBootstrapUnlessRaced
<1>1. IInv => OneBootstrapUnlessRaced
  BY DEF IInv, Raced, Exclusive, Working, Extracts, Waits, OneBootstrapUnlessRaced
<1> QED BY <1>1, BootstrapInvariant, PTL

\* No bootstrap extracts the template over work saved since READY, unless a
\* second one claimed the session (workspaceBootstrapService.js:348-377).
THEOREM WorkStays == Spec => []WorkIsKept
<1>1. IInv => WorkIsKept
  BY DEF IInv, WorkIsKept, Raced, Kept
<1> QED BY <1>1, BootstrapInvariant, PTL
=============================================================================
