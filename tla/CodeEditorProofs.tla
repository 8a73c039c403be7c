-------------------------- MODULE CodeEditorProofs --------------------------
(***************************************************************************)
(* What CodeEditor keeps for every number of files and of calls in         *)
(* progress, and for every bound on edits and faults: the types, that the  *)
(* container holds what was acknowledged, that loads are served with it,   *)
(* and that what was typed is saved.                                       *)
(*                                                                         *)
(* HeldInv, FreshInv and SnapInv are about the three copies of a file.     *)
(* LastInv and SecureInv are about what the editor believes of them, and   *)
(* stand on the former: an editor that is answered with something else     *)
(* than the acknowledged content would take the wrong one for saved.       *)
(***************************************************************************)
EXTENDS CodeEditor, FiniteSetTheorems, WellFoundedInduction, TLAPS

USE DEF copies, serverVars, editorVars, userVars, vars
-----------------------------------------------------------------------------
(* Types *)

\* The contents there can be so far: those at the start, those typed, and
\* the programs that test runs make of them.
Known == -(Starter + typed) .. (Starter + typed)

LEMMA KnownFacts ==
  ASSUME typed \in Nat
  PROVE  /\ Known \subseteq Int /\ None \in Known /\ Blank \in Known /\ Starter \in Known
         /\ \A c \in Known : -c \in Known
         /\ Starter + typed + 1 \notin Known
BY DEF Known, None, Blank, Starter

Calls ==
  [op : {"none", "save", "content", "run"}, file : Files \cup {NoFile}, content : Known,
   by : {"none", "load", "switch", "button", "run", "timer", "gone"}, ok : BOOLEAN,
   at : {"idle", "read", "put", "disk", "keep", "sync", "done", "taken"},
   later : {"none", "get", "put", "instrument", "restore"},
   snap : [Files -> Known] \cup {<<>>}]

\* What a call may be doing, by what it is.
Sound(q) ==
  /\ q.op = "none" => q.at = "idle" /\ q.later = "none"
  /\ q.op # "none" => q.file \in Files
  /\ q.op = "save" => /\ q.at \in {"read", "put", "disk", "done"} /\ q.later = "none"
                      /\ q.content # None
  /\ q.op = "run" => /\ q.at \in {"sync", "done", "taken"}
                     /\ q.later \in {"none", "instrument", "restore"}
                     /\ q.at = "sync" => q.later = "none"
  /\ q.op = "content" => /\ q.at \in {"disk", "keep", "done", "taken"}
                         /\ q.later \in {"none", "get", "put"}
                         /\ q.at = "disk" => q.later = "none"
                         /\ q.at = "keep" => q.later # "none"
  /\ q.at = "put" \/ q.later = "put" => q.snap \in [Files -> Known]

Calling == req \in [Requests -> Calls] /\ \A r \in Requests : Sound(req[r])

ServerTyped ==
  /\ disk \in [Files -> Known] /\ record \in [Files -> Known] /\ cache \in [Files -> Known]
  /\ index \in [Files -> Known] \cup {NoIndex}
  /\ acked \in [Files -> Known \ {None}]
  /\ crossed \in SUBSET Files /\ stale \in SUBSET Files
  /\ Calling

EditorTyped ==
  /\ text \in [Files -> Known] /\ lastSaved \in [Files -> Known] /\ wrote \in [Files -> Known]
  /\ loaded \in SUBSET Files /\ dirty \in SUBSET loaded /\ unsaved \in SUBSET Files
  /\ active \in Files /\ contentLoading \in Files \cup {NoFile}
  /\ running \in [file : Files \cup {NoFile}, content : Known, at : {"none", "saving", "mode"}]
  /\ running.at # "none" => running.file \in Files
  /\ timer \in BOOLEAN /\ isSaving \in BOOLEAN
  /\ preview \in BOOLEAN /\ mounted \in BOOLEAN
  /\ drawn \in Files \X Known \X (SUBSET Files) \X BOOLEAN

Counted == typed \in Nat /\ spent \in Nat /\ typed <= spent /\ spent <= MaxSpent

Typed == ServerTyped /\ EditorTyped /\ Counted

Below == {p \in Nat \X Nat : p[1] < p[2]}

LEMMA FirstIsFile == First \in Files
<1>1. IsWellFoundedOn(Below, Nat)
  BY NatLessThanWellFounded DEF OpToRel, Below
<1>2. PICK f \in Files : \A g \in Files : ~(<<g, f>> \in Below)
  BY <1>1, FilesAssumption, WFMin
<1>3. f \in Nat /\ \A g \in Files : g \in Nat
  BY FilesAssumption
<1>4. ASSUME NEW g \in Files PROVE f <= g
  <2>1. ~(<<g, f>> \in Below) /\ g \in Nat /\ f \in Nat
    BY <1>2, <1>3
  <2>2. g < f => <<g, f>> \in Below
    BY <2>1 DEF Below
  <2>3. QED BY <2>1, <2>2
<1>5. QED BY <1>4 DEF First

\* Calls that begin now.
NewCalls ==
  {c \in Calls : /\ Sound(c) /\ c.later = "none" /\ c.by # "gone" /\ c.ok
                 /\ \/ c.op = "save" /\ c.at = "read"
                    \/ c.op = "content" /\ c.at = "disk"
                    \/ c.op = "run" /\ c.at = "sync"}

LEMMA CallIsNew ==
  ASSUME Counted, NEW op \in {"save", "content", "run"}, NEW f \in Files, NEW k \in Known,
         NEW by \in {"load", "switch", "button", "run", "timer"}, op = "save" => k # None
  PROVE  LET c == Call(op, f, k, by)
         IN  c \in NewCalls /\ c.op = op /\ c.file = f /\ c.content = k /\ c.by = by
BY DEF Call, Calls, Sound, NewCalls

LEMMA IdleIsCall ==
  ASSUME Counted
  PROVE  Idle \in Calls /\ Sound(Idle) /\ Idle.op = "none" /\ Idle.later = "none"
         /\ Idle.at = "idle"
BY KnownFacts DEF Idle, Call, Calls, Sound, NoFile, None, Counted

LEMMA SlotIsFree ==
  ASSUME Free # {}
  PROVE  Slot \in Requests /\ req[Slot].op = "none"
BY DEF Slot, Free

\* One call moves, and stays a call.
LEMMA MoveTyped ==
  ASSUME Calling, NEW r, NEW q, r \in Requests => q \in Calls /\ Sound(q),
         req' = [req EXCEPT ![r] = q]
  PROVE  req' \in [Requests -> Calls] /\ \A s \in Requests : Sound(req'[s])
BY DEF Calling

LEMMA SendTyped ==
  ASSUME Calling, NEW c \in NewCalls, Send(c)
  PROVE  req' \in [Requests -> Calls] /\ \A s \in Requests : Sound(req'[s])
BY MoveTyped DEF Send, NewCalls

LEMMA MeetsTyped ==
  ASSUME ServerTyped, NEW c, Meets(c)
  PROVE  crossed' \in SUBSET Files /\ stale' \in SUBSET Files
BY DEF ServerTyped, Meets

\* The steps of the server.
LEMMA WorksCalling ==
  ASSUME Typed, NEW r \in Requests, Works(r) \/ Fails(r)
  PROVE  req' \in [Requests -> Calls] /\ \A s \in Requests : Sound(req'[s])
<1> DEFINE q == req[r]
<1>1. q \in Calls /\ Sound(q) /\ Calling /\ record \in [Files -> Known]
  BY DEF Typed, ServerTyped, Calling
<1>2. q.op # "none" => q.file \in Files /\ disk[q.file] \in Known /\ cache[q.file] \in Known
                        /\ record[q.file] \in Known
  BY <1>1 DEF Sound, Typed, ServerTyped
<1>3. CASE ReadRecord(r)
  <2>1. [q EXCEPT !.at = "put", !.snap = record] \in Calls
    BY <1>1 DEF Calls
  <2>2. Sound([q EXCEPT !.at = "put", !.snap = record])
    BY <1>1, <1>3 DEF Sound, ReadRecord, Calls
  <2>3. req' = [req EXCEPT ![r] = [q EXCEPT !.at = "put", !.snap = record]]
    BY <1>1, <1>3 DEF ReadRecord, Calling
  <2>4. QED BY <1>1, <2>1, <2>2, <2>3, MoveTyped
<1>4. CASE PutRecord(r)
  <2>1. [q EXCEPT !.at = "disk"] \in Calls /\ Sound([q EXCEPT !.at = "disk"])
    BY <1>1, <1>4 DEF Sound, PutRecord, Calls
  <2>2. req' = [req EXCEPT ![r] = [q EXCEPT !.at = "disk"]]
    BY <1>1, <1>4 DEF PutRecord, To, Calling
  <2>3. QED BY <1>1, <2>1, <2>2, MoveTyped
<1>5. ASSUME NEW ok \in BOOLEAN, NEW c \in Known, NEW later \in {"none", "get", "instrument"},
             Answer(r, ok, c, later), q.op # "none",
             later = "get" => q.op = "content", later = "instrument" => q.op = "run",
             q.op = "save" => c # None
      PROVE req' \in [Requests -> Calls] /\ \A s \in Requests : Sound(req'[s])
  <2> DEFINE u == [q EXCEPT !.at = "done", !.ok = ok, !.content = c, !.later = later]
  <2>1. u \in Calls
    BY <1>1 DEF Calls
  <2>2. Sound(u)
    BY <1>1, <1>5 DEF Sound, Calls
  <2>3. req' = [req EXCEPT ![r] = u]
    BY <1>1, <1>5 DEF Answer, Calling
  <2>4. QED BY <1>1, <2>1, <2>2, <2>3, MoveTyped
<1>6. CASE SaveToContainer(r)
  <2>1. q.content \in Known /\ (q.op = "save" => q.content # None)
    BY <1>1 DEF Calls, Sound
  <2>2. QED BY <1>5, <1>6, <2>1 DEF SaveToContainer
<1>7. CASE ReadFromContainer(r)
  BY <1>2, <1>5, <1>7 DEF ReadFromContainer
<1>8. CASE GetToKeep(r)
  <2> DEFINE u == [q EXCEPT !.later = "put", !.snap = record]
  <2>1. u \in Calls /\ Sound(u)
    BY <1>1, <1>8 DEF Sound, GetToKeep, Calls
  <2>2. req' = [req EXCEPT ![r] = u]
    BY <1>1, <1>8 DEF GetToKeep, Calling
  <2>3. QED BY <1>1, <2>1, <2>2, MoveTyped
<1>9. ASSUME NEW what \in {"none", "restore"}, Later(r, what), q.op \in {"run", "content"},
             what = "restore" => q.op = "run" /\ q.later = "instrument", q.at # "keep"
      PROVE req' \in [Requests -> Calls] /\ \A s \in Requests : Sound(req'[s])
  <2> DEFINE u == IF q.at = "taken" /\ what = "none" THEN Idle ELSE [q EXCEPT !.later = what]
  <2>1. u \in Calls /\ Sound(u)
    BY <1>1, <1>9, IdleIsCall DEF Sound, Calls, Typed
  <2>2. req' = [req EXCEPT ![r] = u]
    BY <1>1, <1>9 DEF Later, Calling
  <2>3. QED BY <1>1, <2>1, <2>2, MoveTyped
<1>10. CASE Keep(r)
  <2>1. q.op = "content" /\ q.content \in Known
    BY <1>1, <1>10 DEF Keep, Sound, Calls
  <2>2. Answer(r, TRUE, q.content, "none") \/ (Later(r, "none") /\ q.at # "keep")
    BY <1>10 DEF Keep
  <2>3. QED BY <1>5, <1>9, <2>1, <2>2
<1>11. CASE SyncFile(r)
  <2>1. q.op = "run" /\ q.content \in Known
    BY <1>1, <1>11 DEF SyncFile, Calls
  <2>2. Program(q) \in Known
    BY <1>2, <2>1 DEF Program
  <2>3. Answer(r, FALSE, q.content, "none") \/ Answer(r, TRUE, Program(q), "instrument")
    BY <1>11 DEF SyncFile
  <2>4. QED BY <1>5, <2>1, <2>2, <2>3
<1>12. CASE Instrument(r) \/ Restore(r)
  <2>1. q.op = "run" /\ q.at # "keep"
    BY <1>1, <1>12 DEF Instrument, Restore, Sound, Calls
  <2>2. QED BY <1>9, <1>12, <2>1 DEF Instrument, Restore
<1>13. CASE Refuse(r)
  <2>1. q.content \in Known /\ (q.op = "save" => q.content # None)
    BY <1>1 DEF Calls, Sound
  <2>2. QED BY <1>5, <1>13, <2>1 DEF Refuse
<1>14. CASE ReadCopy(r)
  <2> DEFINE found == IF cache[q.file] # None THEN cache[q.file] ELSE record[q.file]
  <2>1. found \in Known /\ q.op = "content"
    BY <1>2, <1>14 DEF ReadCopy
  <2>2. Answer(r, TRUE, found, "none")
    BY <1>14 DEF ReadCopy
  <2> HIDE DEF found
  <2>3. QED BY <1>5, <2>1, <2>2
<1>15. CASE LoseAnswer(r)
  <2>1. [q EXCEPT !.ok = FALSE] \in Calls /\ Sound([q EXCEPT !.ok = FALSE])
    BY <1>1, <1>15 DEF Sound, LoseAnswer, Calls
  <2>2. req' = [req EXCEPT ![r] = [q EXCEPT !.ok = FALSE]]
    BY <1>1, <1>15 DEF LoseAnswer, Calling
  <2>3. QED BY <1>1, <2>1, <2>2, MoveTyped
<1>16. CASE ReadAgain(r)
  <2>1. PICK c \in {disk[q.file], Starter} :
          req' = [req EXCEPT ![r].at = "keep", ![r].content = c, ![r].later = "get"]
    BY <1>16 DEF ReadAgain
  <2> DEFINE u == [q EXCEPT !.at = "keep", !.content = c, !.later = "get"]
  <2>2. q.op = "content" /\ c \in Known
    BY <1>2, <1>16, KnownFacts DEF ReadAgain, Typed, Counted
  <2>3. u \in Calls /\ Sound(u)
    BY <1>1, <2>2 DEF Sound, Calls
  <2>4. req' = [req EXCEPT ![r] = u]
    BY <1>1, <2>1 DEF Calling
  <2>5. QED BY <1>1, <2>3, <2>4, MoveTyped
<1>17. CASE ReadListed(r)
  <2> DEFINE k == IF Listed[q.file] = None THEN Blank ELSE Listed[q.file]
  <2>1. q.op = "content" /\ Listed[q.file] \in Known
    BY <1>2, <1>17 DEF ReadListed, Listed, Typed, ServerTyped
  <2>2. k \in Known /\ Answer(r, TRUE, k, "none")
    BY <2>1, <1>17, KnownFacts DEF ReadListed, Typed, Counted
  <2> HIDE DEF k
  <2>3. QED BY <1>5, <2>1, <2>2
<1>18. QED
  BY <1>3, <1>4, <1>6, <1>7, <1>8, <1>10, <1>11, <1>12, <1>13, <1>14, <1>15, <1>16, <1>17
     DEF Works, Fails

LEMMA WorksCopies ==
  ASSUME Typed, NEW r \in Requests, Works(r) \/ Fails(r)
  PROVE  /\ disk' \in [Files -> Known] /\ record' \in [Files -> Known]
         /\ cache' \in [Files -> Known] /\ index' \in [Files -> Known] \cup {NoIndex}
         /\ acked' \in [Files -> Known \ {None}]
         /\ crossed' \in SUBSET Files /\ stale' \in SUBSET Files
<1> DEFINE q == req[r]
<1>1. /\ q.content \in Known /\ (q.op # "none" => q.file \in Files)
      /\ q.at = "put" \/ q.later = "put" => q.snap \in [Files -> Known]
  BY DEF Typed, ServerTyped, Calling, Calls, Sound
<1>2. -q.content \in Known
  BY <1>1, KnownFacts DEF Typed, Counted
<1> USE DEF Typed, ServerTyped
<1>3. CASE ReadRecord(r) \/ GetToKeep(r)
  BY <1>3 DEF ReadRecord, GetToKeep
<1>4. CASE PutRecord(r)
  <2>1. q.file \in Files /\ [q.snap EXCEPT ![q.file] = q.content] \in [Files -> Known]
    BY <1>1, <1>4 DEF PutRecord
  <2>2. QED BY <1>1, <1>4, <2>1 DEF PutRecord
<1>5. CASE SaveToContainer(r)
  BY <1>1, <1>5 DEF SaveToContainer, Writes, Calling, Sound
<1>6. CASE ReadFromContainer(r) \/ Refuse(r) \/ ReadCopy(r) \/ LoseAnswer(r)
  BY <1>6 DEF ReadFromContainer, Refuse, ReadCopy, LoseAnswer
<1>7. CASE Keep(r)
  BY <1>1, <1>7 DEF Keep
<1>8. CASE SyncFile(r)
  <2>1. q.file \in Files
    BY <1>1, <1>8 DEF SyncFile
  <2>2. Program(q) \in Known
    BY <1>1, <2>1 DEF Program
  <2>3. QED BY <1>8, <2>1, <2>2 DEF SyncFile
<1>9. CASE Instrument(r) \/ Restore(r)
  <2>1. q.file \in Files
    BY <1>9 DEF Instrument, Restore, Calling, Sound
  <2>2. QED BY <1>1, <1>2, <1>9, <2>1 DEF Instrument, Restore, Writes
<1>10. CASE ReadAgain(r)
  <2>1. q.file \in Files /\ disk[q.file] \in Known /\ Starter \in Known
    BY <1>1, <1>10, KnownFacts DEF ReadAgain, Counted
  <2>2. QED BY <1>10, <2>1 DEF ReadAgain
<1>11. CASE ReadListed(r)
  <2>1. q.file \in Files /\ Listed \in [Files -> Known]
    BY <1>1, <1>11 DEF ReadListed, Listed
  <2>2. index' \in [Files -> Known] /\ cache' \in [Files -> Known]
    BY <1>11, <2>1 DEF ReadListed, ListFiles
  <2>3. QED BY <1>11, <2>1, <2>2 DEF ReadListed
<1>12. QED
  BY <1>3, <1>4, <1>5, <1>6, <1>7, <1>8, <1>9, <1>10, <1>11 DEF Works, Fails

LEMMA SpendCounted ==
  ASSUME Counted, Spend \/ spent' = spent
  PROVE  spent' \in Nat /\ spent <= spent' /\ spent' <= MaxSpent
BY BoundAssumption DEF Counted, Spend

LEMMA WorksTyped ==
  ASSUME Typed, NEW r \in Requests, Works(r) \/ Fails(r), UNCHANGED <<editorVars, userVars>>
  PROVE  Typed'
<1>1. Known' = Known
  BY DEF Known
<1>2. ServerTyped'
  BY <1>1, WorksCalling, WorksCopies DEF ServerTyped, Calling, Calls, Sound
<1>3. EditorTyped'
  BY <1>1 DEF Typed, EditorTyped
<1>4. Spend \/ spent' = spent
  BY DEF Works, Fails, ReadRecord, PutRecord, SaveToContainer, ReadFromContainer, GetToKeep,
         Keep, SyncFile, Instrument, Restore, Writes, Refuse, ReadCopy, ReadAgain, ReadListed,
         LoseAnswer
<1>5. Counted'
  BY <1>4, SpendCounted DEF Typed, Counted
<1>6. QED BY <1>2, <1>3, <1>5 DEF Typed

-----------------------------------------------------------------------------
(* What the steps of the editor are to the server *)

\* A call begins, or two, on different files; an answer is taken.
Starts(c) == Send(c) /\ UNCHANGED <<copies, acked>>
StartsBoth(c, d) ==
  SendBoth(c, d) /\ c.op = "save" /\ d.op = "content" /\ c.file # d.file
  /\ UNCHANGED <<copies, acked>>
Takes(r) == req[r].at = "done" /\ Take(r) /\ UNCHANGED <<copies, acked, crossed, stale>>
Nothing == UNCHANGED <<copies, req, acked, crossed, stale>>

EditorSteps ==
  \/ Nothing
  \/ \E c \in NewCalls : Starts(c)
  \/ \E c, d \in NewCalls : StartsBoth(c, d)
  \/ \E r \in Requests : Takes(r)

LEMMA SelectForms ==
  ASSUME Typed, NEW f \in Files, Select(f)
  PROVE  EditorSteps
<1> DEFINE save == Call("save", active, text[active], "switch")
           load == Call("content", f, None, "load")
           loads == ~(f \in loaded /\ text[f] # None) /\ Loads(f) = {}
<1>1. active \in Files /\ text[active] \in Known /\ None \in Known
      /\ (active = f /\ LeavesDirty(active) => ~loads)
  BY KnownFacts DEF Typed, EditorTyped, Counted, LeavesDirty
<1>2. LeavesDirty(active) => save \in NewCalls /\ save.op = "save" /\ save.file = active
  BY <1>1, CallIsNew DEF Typed, LeavesDirty
<1>3. load \in NewCalls /\ load.op = "content" /\ load.file = f
  BY <1>1, CallIsNew DEF Typed
<1>4. UNCHANGED <<copies, acked>>
  BY DEF Select, Sends
<1> HIDE DEF save, load
<1>5. \/ SendBoth(save, load) /\ active # f /\ LeavesDirty(active)
      \/ Send(save) /\ LeavesDirty(active)
      \/ Send(load) \/ UNCHANGED <<req, crossed, stale>>
  BY <1>1 DEF Select, save, load
<1> HIDE DEF loads
<1>6. QED
  BY <1>1, <1>2, <1>3, <1>4, <1>5 DEF EditorSteps, Starts, StartsBoth, Nothing

\* The program that a run saves and runs.
Code(f) ==
  CASE text[f] \notin {None, Blank} -> text[f]
    [] text[f] \in {None, Blank} /\ lastSaved[f] # None -> lastSaved[f]
    [] OTHER -> Blank

LEMMA PressRunForm ==
  ASSUME NEW f, PressRun(f)
  PROVE  /\ Spend /\ running = NoRun /\ UNCHANGED <<copies, acked>> /\ active = f
         /\ UNCHANGED <<text, loaded, dirty, lastSaved, active, contentLoading, isSaving,
                        drawn, timer, preview, mounted, userVars>>
         /\ \/ /\ f \in dirty \/ text[f] \in {None, Blank}
               /\ Send(Call("save", f, Code(f), "run"))
               /\ running' = [file |-> f, content |-> Code(f), at |-> "saving"]
            \/ /\ ~(f \in dirty \/ text[f] \in {None, Blank})
               /\ running' = [file |-> f, content |-> Code(f), at |-> "mode"]
               /\ UNCHANGED <<req, crossed, stale>>
BY DEF PressRun, Code

LEMMA CodeKnown ==
  ASSUME Typed, NEW f \in Files
  PROVE  Code(f) \in Known \ {None}
BY KnownFacts DEF Typed, EditorTyped, Counted, Code, None, Blank

LEMMA ValueKnown ==
  ASSUME Typed, NEW f \in Files
  PROVE  Value(f) \in Known
BY KnownFacts DEF Typed, EditorTyped, Counted, Value

LEMMA ButtonForms ==
  ASSUME Typed, NEW f \in Files, PressSave(f) \/ PressRun(f)
  PROVE  EditorSteps
<1>1. /\ Value(f) # None => Call("save", f, Value(f), "button") \in NewCalls
      /\ Call("save", f, Code(f), "run") \in NewCalls
  BY CallIsNew, CodeKnown, ValueKnown DEF Typed
<1>2. CASE PressSave(f)
  BY <1>1, <1>2 DEF PressSave, EditorSteps, Starts
<1>3. CASE PressRun(f)
  BY <1>1, <1>3, PressRunForm DEF EditorSteps, Starts, Nothing
<1>4. QED BY <1>2, <1>3

LEMMA OtherForms ==
  ASSUME Typed, TypeSomething \/ TogglePreview \/ ChooseMode \/ Draw \/ AutoSave
  PROVE  EditorSteps
<1>1. CASE TypeSomething
  BY <1>1 DEF TypeSomething, Type, EditorSteps, Nothing
<1>2. CASE Draw \/ TogglePreview
  BY <1>2 DEF Draw, TogglePreview, EditorSteps, Nothing
<1>3. CASE ChooseMode
  <2>1. running.file \in Files /\ running.content \in Known
    BY <1>3 DEF ChooseMode, Typed, EditorTyped
  <2>2. Call("run", running.file, running.content, "run") \in NewCalls
    BY <2>1, CallIsNew DEF Typed
  <2>3. QED BY <1>3, <2>2 DEF ChooseMode, Sends, EditorSteps, Starts, Nothing
<1>4. CASE AutoSave
  <2>1. active \in Files /\ Value(active) \in Known
    BY ValueKnown DEF Typed, EditorTyped
  <2>2. Value(active) # None => Call("save", active, Value(active), "timer") \in NewCalls
    BY <2>1, CallIsNew DEF Typed
  <2>3. QED BY <1>4, <2>2 DEF AutoSave, Sends, EditorSteps, Starts, Nothing
<1>5. QED BY <1>1, <1>2, <1>3, <1>4

LEMMA ReceiveForms ==
  ASSUME NEW r \in Requests, Receives(r)
  PROVE  Takes(r) /\ UNCHANGED spent
BY DEF Receives, Loaded, Saved, Ran, Gone, Answers, Taken, Takes

LEMMA NextForms ==
  ASSUME Typed, Next
  PROVE  \/ EditorSteps \/ Reload \/ Restart
         \/ \E r \in Requests : Works(r) \/ Fails(r)
BY SelectForms, ButtonForms, OtherForms, ReceiveForms DEF Next, Serves, EditorSteps

\* What Take makes of a call, and a new call of a free place.
LEMMA Taking ==
  ASSUME Typed, NEW r \in Requests, Takes(r)
  PROVE  /\ \A s \in Requests \ {r} : req'[s] = req[s]
         /\ \/ req[r].later = "none" /\ req'[r] = Idle
            \/ req[r].later # "none" /\ req'[r] = [req[r] EXCEPT !.at = "taken"]
BY DEF Typed, ServerTyped, Calling, Takes, Take

LEMMA Starting ==
  ASSUME Typed, NEW c \in NewCalls, Starts(c)
  PROVE  \E n \in Requests : /\ req[n].op = "none" /\ req'[n] = c
                             /\ \A s \in Requests \ {n} : req'[s] = req[s]
BY SlotIsFree DEF Typed, ServerTyped, Calling, Starts, Send

LEMMA StartingBoth ==
  ASSUME Typed, NEW c \in NewCalls, NEW d \in NewCalls, StartsBoth(c, d)
  PROVE  \E n, m \in Requests :
           /\ n # m /\ req[n].op = "none" /\ req'[n] = c /\ req[m].op = "none" /\ req'[m] = d
           /\ \A s \in Requests \ {n, m} : req'[s] = req[s]
<1> DEFINE m == CHOOSE s \in Free \ {Slot} : TRUE
<1>1. Cardinality(Free) > 1 /\ req' = [req EXCEPT ![Slot] = c, ![m] = d]
  BY DEF StartsBoth, SendBoth
<1>2. Free # {} /\ Free \ {Slot} # {}
  <2>1. Cardinality({}) = 0 /\ Cardinality({Slot}) = 1
    BY FS_EmptySet, FS_Singleton
  <2>2. Free \ {Slot} = {} => Free = {} \/ Free = {Slot}
    OBVIOUS
  <2>3. QED BY <1>1, <2>1, <2>2
<1>3. m \in Free \ {Slot}
  BY <1>2
<1>4. Slot \in Requests /\ req[Slot].op = "none" /\ m \in Requests /\ m # Slot
        /\ req[m].op = "none"
  BY <1>2, <1>3, SlotIsFree DEF Free
<1> HIDE DEF m
<1>5. QED BY <1>1, <1>4 DEF Typed, ServerTyped, Calling

LEMMA EditorCalling ==
  ASSUME Typed, EditorSteps
  PROVE  /\ req' \in [Requests -> Calls] /\ \A s \in Requests : Sound(req'[s])
         /\ crossed' \in SUBSET Files /\ stale' \in SUBSET Files
         /\ UNCHANGED acked
<1>1. CASE Nothing
  BY <1>1 DEF Nothing, Typed, ServerTyped, Calling
<1>2. ASSUME NEW c \in NewCalls, Starts(c)
      PROVE  /\ req' \in [Requests -> Calls] /\ \A s \in Requests : Sound(req'[s])
             /\ crossed' \in SUBSET Files /\ stale' \in SUBSET Files
             /\ UNCHANGED acked
  BY <1>2, SendTyped, MeetsTyped DEF Starts, Send, Typed, ServerTyped
<1>3. ASSUME NEW c \in NewCalls, NEW d \in NewCalls, StartsBoth(c, d)
      PROVE  /\ req' \in [Requests -> Calls] /\ \A s \in Requests : Sound(req'[s])
             /\ crossed' \in SUBSET Files /\ stale' \in SUBSET Files
             /\ UNCHANGED acked
  <2>1. c \in Calls /\ Sound(c) /\ d \in Calls /\ Sound(d)
    BY DEF NewCalls
  <2>2. req \in [Requests -> Calls] /\ \A s \in Requests : Sound(req[s])
    BY DEF Typed, ServerTyped, Calling
  <2>3. \A s \in Requests : Sound(req'[s])
    BY <1>3, <2>1, <2>2, StartingBoth
  <2>4. req' \in [Requests -> Calls]
    BY <1>3, <2>1, <2>2 DEF StartsBoth, SendBoth
  <2>5. crossed' \in SUBSET Files /\ stale' \in SUBSET Files /\ UNCHANGED acked
    BY <1>3 DEF StartsBoth, SendBoth, Typed, ServerTyped
  <2>6. QED BY <2>3, <2>4, <2>5
<1>4. ASSUME NEW r \in Requests, Takes(r)
      PROVE  /\ req' \in [Requests -> Calls] /\ \A s \in Requests : Sound(req'[s])
             /\ crossed' \in SUBSET Files /\ stale' \in SUBSET Files
             /\ UNCHANGED acked
  <2> DEFINE u == IF req[r].later = "none" THEN Idle ELSE [req[r] EXCEPT !.at = "taken"]
  <2>1. req[r] \in Calls /\ Sound(req[r])
    BY DEF Typed, ServerTyped, Calling
  <2>2. [req[r] EXCEPT !.at = "taken"] \in Calls
    BY <2>1 DEF Calls
  <2>3. req[r].later # "none" => Sound([req[r] EXCEPT !.at = "taken"])
    BY <1>4, <2>1 DEF Sound, Calls, Takes
  <2>4. u \in Calls /\ Sound(u)
    BY <2>2, <2>3, IdleIsCall DEF Typed
  <2>5. req' = [req EXCEPT ![r] = u]
    BY <1>4 DEF Takes, Take, Typed, ServerTyped, Calling
  <2>6. QED BY <1>4, <2>4, <2>5, MoveTyped DEF Takes, Typed, ServerTyped
<1>5. QED BY <1>1, <1>2, <1>3, <1>4 DEF EditorSteps

\* What is left of the calls of a page that is left.
Left(q) ==
  IF q.at = "done" /\ q.later = "none" THEN Idle
  ELSE IF q.at = "done" THEN [q EXCEPT !.at = "taken"]
  ELSE IF q.op = "none" \/ q.at = "taken" THEN q ELSE [q EXCEPT !.by = "gone"]

LEMMA LoadFirstIsNew ==
  ASSUME Typed \/ Counted
  PROVE  LoadFirst \in NewCalls /\ LoadFirst.op = "content" /\ LoadFirst.file = First
BY CallIsNew, FirstIsFile, KnownFacts DEF LoadFirst, Typed, Counted

LEMMA Reloading ==
  ASSUME Typed, Reload
  PROVE  /\ Slot \in Requests /\ req[Slot].op = "none" /\ req'[Slot] = LoadFirst
         /\ \A s \in Requests \ {Slot} : req'[s] = Left(req[s])
         /\ req' \in [Requests -> Calls] /\ \A s \in Requests : Sound(req'[s])
         /\ crossed' \in SUBSET Files /\ stale' \in SUBSET Files
<1>1. Slot \in Requests /\ req[Slot].op = "none"
  BY SlotIsFree DEF Reload
<1>2. req' = [s \in Requests |-> IF s = Slot THEN LoadFirst ELSE Left(req[s])]
  BY DEF Reload, Left
<1>3. LoadFirst \in Calls /\ Sound(LoadFirst)
  BY LoadFirstIsNew DEF NewCalls
<1>4. ASSUME NEW s \in Requests PROVE Left(req[s]) \in Calls /\ Sound(Left(req[s]))
  <2>1. req[s] \in Calls /\ Sound(req[s])
    BY DEF Typed, ServerTyped, Calling
  <2>2. [req[s] EXCEPT !.at = "taken"] \in Calls /\ [req[s] EXCEPT !.by = "gone"] \in Calls
    BY <2>1 DEF Calls
  <2>3. req[s].at = "done" /\ req[s].later # "none" => Sound([req[s] EXCEPT !.at = "taken"])
    BY <2>1 DEF Sound, Calls
  <2>4. Sound([req[s] EXCEPT !.by = "gone"])
    BY <2>1 DEF Sound, Calls
  <2>5. QED BY <2>1, <2>2, <2>3, <2>4, IdleIsCall DEF Left, Typed
<1>5. crossed' \in SUBSET Files /\ stale' \in SUBSET Files
  BY MeetsTyped DEF Reload, Typed
<1>6. QED BY <1>1, <1>2, <1>3, <1>4, <1>5

-----------------------------------------------------------------------------
(* The types are kept *)

LEMMA DrawsTyped ==
  ASSUME NEW K, NEW marks \in SUBSET loaded, Draws(marks), timer \in BOOLEAN,
         active' \in Files, text' \in [Files -> K], loaded' \in SUBSET Files,
         loaded \subseteq loaded', isSaving' \in BOOLEAN
  PROVE  /\ dirty' \in SUBSET loaded' /\ timer' \in BOOLEAN
         /\ drawn' \in Files \X K \X (SUBSET Files) \X BOOLEAN
BY DEF Draws, Drawing

LEMMA TypeTyped ==
  ASSUME Typed, TypeSomething
  PROVE  Typed'
<1>0. PICK f \in Files : \E c : Type(f, c) /\ (c = Starter + typed + 1 \/ c = lastSaved[f])
  BY DEF TypeSomething
<1>1. PICK c : Type(f, c) /\ (c = Starter + typed + 1 \/ c = lastSaved[f])
  BY <1>0
<1>2. Counted' /\ typed' = typed + 1 /\ typed \in Nat
  BY <1>1, SpendCounted DEF Type, Spend, Typed, Counted
<1>3. Known \subseteq Known' /\ Starter + typed + 1 \in Known'
  BY <1>2 DEF Known, Starter
<1>4. c \in Known'
  BY <1>1, <1>3 DEF Typed, EditorTyped
<1> USE <1>1 DEF Typed, Type
<1>5. ServerTyped'
  <2>1. Calls \subseteq Calls' /\ \A q : Sound(q) => Sound(q)'
    BY <1>3 DEF Calls, Sound
  <2>2. Calling'
    BY <2>1 DEF ServerTyped, Calling
  <2>3. QED BY <1>3, <2>2 DEF ServerTyped
<1>6. EditorTyped'
  <2>1. /\ text' \in [Files -> Known'] /\ wrote' \in [Files -> Known']
        /\ lastSaved' \in [Files -> Known']
    BY <1>3, <1>4 DEF EditorTyped
  <2>2. /\ running' \in [file : Files \cup {NoFile}, content : Known',
                         at : {"none", "saving", "mode"}]
        /\ drawn' \in Files \X Known' \X (SUBSET Files) \X BOOLEAN
    BY <1>3 DEF EditorTyped
  <2>3. QED BY <2>1, <2>2 DEF EditorTyped
<1>7. QED BY <1>2, <1>5, <1>6

LEMMA SameKnown ==
  ASSUME UNCHANGED typed
  PROVE  /\ Known' = Known /\ Calls' = Calls /\ \A q : Sound(q)' <=> Sound(q)
BY DEF Known, Calls, Sound

LEMMA ActsTyped ==
  ASSUME Typed, \/ ChooseMode \/ TogglePreview \/ Draw \/ AutoSave
                \/ \E f \in Files : Select(f) \/ PressSave(f) \/ PressRun(f)
  PROVE  EditorTyped' /\ UNCHANGED typed /\ (Spend \/ UNCHANGED spent)
<1> USE DEF Typed, EditorTyped
<1>1. Known' = Known \/ typed' # typed
  BY DEF Known
<1>2. CASE ChooseMode
  BY <1>1, <1>2, KnownFacts DEF ChooseMode, Sends, NoRun, NoFile, None, Counted
<1>9. CASE TogglePreview
  BY <1>1, <1>9 DEF TogglePreview, Mounts, Shown
<1>3. CASE Draw
  BY <1>1, <1>3, DrawsTyped DEF Draw
<1>4. CASE AutoSave
  BY <1>1, <1>4 DEF AutoSave, Sends, Blanks
<1>5. ASSUME NEW f \in Files, Select(f) PROVE EditorTyped' /\ UNCHANGED <<typed, spent>>
  <2>1. UNCHANGED <<text, lastSaved, isSaving, running, userVars, spent>> /\ active' = f
    BY <1>5 DEF Select, Sends
  <2>2. /\ loaded' \in SUBSET Files /\ loaded \subseteq loaded' /\ Draws(dirty)
        /\ contentLoading' \in Files \cup {NoFile} /\ preview' = FALSE /\ mounted' \in BOOLEAN
    BY <1>5 DEF Select, Mounts, Shown
  <2>3. QED BY <1>1, <2>1, <2>2, DrawsTyped
<1>6. ASSUME NEW f \in Files, PressSave(f) PROVE EditorTyped' /\ UNCHANGED typed /\ Spend
  BY <1>1, <1>6, DrawsTyped DEF PressSave, Blanks
<1>7. ASSUME NEW f \in Files, PressRun(f) PROVE EditorTyped' /\ UNCHANGED typed /\ Spend
  <2>1. Code(f) \in Known
    BY CodeKnown
  <2>2. /\ running' \in [file : Files \cup {NoFile}, content : Known,
                         at : {"none", "saving", "mode"}]
        /\ running'.file \in Files
    BY <1>7, <2>1, PressRunForm
  <2>3. QED BY <1>1, <1>7, <2>2, PressRunForm
<1>8. QED BY <1>2, <1>3, <1>4, <1>5, <1>6, <1>7, <1>9 DEF ChooseMode, TogglePreview, Sends, Draw,
         AutoSave

LEMMA ReceivesTyped ==
  ASSUME Typed, NEW r \in Requests, Receives(r)
  PROVE  EditorTyped' /\ UNCHANGED <<typed, spent>>
<1> DEFINE q == req[r]
           f == q.file
<1>1. q \in Calls /\ Sound(q)
  BY DEF Typed, ServerTyped, Calling
<1>2. q.content \in Known /\ (q.op # "none" => f \in Files)
  BY <1>1 DEF Calls, Sound
<1> USE DEF Typed, EditorTyped
<1>3. Known' = Known \/ typed' # typed
  BY DEF Known
<1>4. CASE Loaded(r)
  <2>1. f \in Files
    BY <1>2, <1>4 DEF Loaded, Answers
  <2>2. /\ text' \in [Files -> Known] /\ lastSaved' \in [Files -> Known]
        /\ loaded' \in SUBSET Files /\ loaded \subseteq loaded' /\ contentLoading' = NoFile
        /\ Draws(dirty) /\ mounted' \in BOOLEAN
    BY <1>2, <1>4, <2>1 DEF Loaded, Mounts, Shown
  <2>3. UNCHANGED <<active, isSaving, preview, running, userVars, spent>>
    BY <1>4 DEF Loaded, Taken
  <2>4. QED BY <1>3, <2>2, <2>3, DrawsTyped
<1>5. CASE Saved(r)
  <2>1. f \in Files
    BY <1>2, <1>5 DEF Saved, Answers
  <2>2. Marked(q) \in Known
    BY <1>2, <2>1 DEF Marked
  <2>3. /\ text' \in [Files -> Known] /\ lastSaved' \in [Files -> Known]
        /\ unsaved' \in SUBSET Files
    BY <1>2, <1>5, <2>1, <2>2 DEF Saved, Confirms
  <2>4. isSaving' \in BOOLEAN /\ mounted' \in BOOLEAN
    BY <1>5 DEF Saved, Mounts, Shown
  <2>5. UNCHANGED <<loaded, active, contentLoading, preview, typed, wrote, spent>>
    BY <1>5 DEF Saved, Taken
  <2> DEFINE marks == IF q.ok THEN dirty \ {f} ELSE dirty
  <2>6. marks \in SUBSET loaded /\ (Draws(marks) \/ (dirty' = marks /\ UNCHANGED <<drawn, timer>>))
    BY <1>5 DEF Saved
  <2> HIDE DEF marks
  <2>7. dirty' \in SUBSET loaded' /\ timer' \in BOOLEAN
        /\ drawn' \in Files \X Known \X (SUBSET Files) \X BOOLEAN
    BY <2>3, <2>4, <2>5, <2>6, DrawsTyped
  <2>8. \/ running' = running
        \/ running.at = "saving" /\ running' = [running EXCEPT !.at = "mode"]
    BY <1>5 DEF Saved
  <2>9. /\ running' \in [file : Files \cup {NoFile}, content : Known,
                         at : {"none", "saving", "mode"}]
        /\ running'.at # "none" => running'.file \in Files
    BY <2>8
  <2>10. QED BY <1>3, <2>3, <2>4, <2>5, <2>7, <2>9
<1>6. CASE Ran(r) \/ Gone(r)
  BY <1>3, <1>6 DEF Ran, Gone, Taken
<1>7. QED BY <1>4, <1>5, <1>6 DEF Receives

LEMMA ReloadTyped ==
  ASSUME Typed, Reload
  PROVE  Typed'
<1>1. UNCHANGED <<typed, disk, record, acked>> /\ Spend /\ ListFiles
  BY DEF Reload
<1>2. Known' = Known /\ Calls' = Calls /\ (\A q : Sound(q)' <=> Sound(q)) /\ None \in Known
  BY <1>1, SameKnown, KnownFacts DEF Typed, Counted
<1>3. Listed \in [Files -> Known]
  BY DEF Listed, Typed, ServerTyped
<1>4. index' \in [Files -> Known] /\ cache' \in [Files -> Known]
  BY <1>1, <1>3 DEF ListFiles, Typed, ServerTyped
<1>5. ServerTyped'
  BY <1>1, <1>2, <1>4, Reloading DEF ServerTyped, Calling, Typed
<1>6. Counted'
  BY <1>1, SpendCounted DEF Typed, Counted
<1>7. EditorTyped'
  <2>1. /\ text' = [f \in Files |-> None] /\ loaded' = {} /\ dirty' = {} /\ unsaved' = {}
        /\ preview' = FALSE /\ mounted' = FALSE
        /\ lastSaved' = [f \in Files |-> None] /\ wrote' = [f \in Files |-> None]
        /\ active' = First /\ contentLoading' = First /\ isSaving' = FALSE
        /\ drawn' = Drawing' /\ timer' = FALSE /\ running' = NoRun
    BY FirstIsFile DEF Reload
  <2>2. drawn' \in Files \X Known \X (SUBSET Files) \X BOOLEAN
    BY <1>2, <2>1, FirstIsFile DEF Drawing
  <2>3. QED BY <1>2, <2>1, <2>2, FirstIsFile DEF EditorTyped, NoRun, NoFile, None
<1>8. QED BY <1>5, <1>6, <1>7 DEF Typed

\* What is left of the calls when the server restarts.
Killed(q) ==
  IF q.op = "none" \/ q.at = "taken" THEN Idle
  ELSE IF q.at = "done" THEN [q EXCEPT !.later = "none"]
  ELSE [q EXCEPT !.at = "done", !.ok = FALSE, !.later = "none"]

LEMMA Restarting ==
  ASSUME Typed, Restart
  PROVE  /\ \A r \in Requests : req'[r] = Killed(req[r])
         /\ req' \in [Requests -> Calls] /\ \A s \in Requests : Sound(req'[s])
<1>1. req' = [r \in Requests |-> Killed(req[r])]
  BY DEF Restart, Killed
<1>2. ASSUME NEW r \in Requests PROVE Killed(req[r]) \in Calls /\ Sound(Killed(req[r]))
  <2>1. req[r] \in Calls /\ Sound(req[r])
    BY DEF Typed, ServerTyped, Calling
  <2> DEFINE u == [req[r] EXCEPT !.later = "none"]
             v == [req[r] EXCEPT !.at = "done", !.ok = FALSE, !.later = "none"]
  <2>2. u \in Calls /\ v \in Calls
    BY <2>1 DEF Calls
  <2>3. req[r].op # "none" /\ req[r].at = "done" => Sound(u)
    BY <2>1 DEF Sound, Calls
  <2>4. req[r].op # "none" => Sound(v)
    BY <2>1 DEF Sound, Calls
  <2>5. QED BY <2>2, <2>3, <2>4, IdleIsCall DEF Killed, Typed
<1>3. QED BY <1>1, <1>2

LEMMA RestartTyped ==
  ASSUME Typed, Restart, UNCHANGED <<editorVars, userVars>>
  PROVE  Typed'
<1>1. Known' = Known /\ Calls' = Calls /\ (\A q : Sound(q)' <=> Sound(q)) /\ None \in Known
  BY SameKnown, KnownFacts DEF Typed, Counted
<1>2. ServerTyped'
  BY <1>1, Restarting DEF Restart, ServerTyped, Calling, Typed
<1>3. EditorTyped'
  BY <1>1 DEF Typed, EditorTyped
<1>4. Counted'
  <2>1. Counted /\ Spend /\ UNCHANGED typed
    BY DEF Restart, Typed
  <2>2. QED BY <2>1, SpendCounted DEF Counted
<1>5. QED BY <1>2, <1>3, <1>4 DEF Typed

LEMMA InitTyped == Init => Typed
<1> SUFFICES ASSUME Init PROVE Typed
  OBVIOUS
<1>1. Counted /\ typed = 0
  BY BoundAssumption DEF Init, ServerInit, Counted
<1>2. None \in Known /\ Starter \in Known /\ Starter # None /\ First \in Files
  BY <1>1, KnownFacts, FirstIsFile DEF Starter, None
<1>3. Calling
  BY <1>1, LoadFirstIsNew, IdleIsCall DEF Init, Calling, NewCalls
<1>4. ServerTyped
  BY <1>2, <1>3 DEF Init, ServerInit, ServerTyped
<1>5. EditorTyped
  BY <1>2 DEF Init, EditorTyped, NoRun, NoFile, None
<1>6. QED BY <1>1, <1>4, <1>5 DEF Typed

LEMMA StepTyped == Typed /\ [Next]_vars => Typed'
<1> SUFFICES ASSUME Typed, [Next]_vars PROVE Typed'
  OBVIOUS
<1>1. CASE UNCHANGED vars
  BY <1>1 DEF Typed, ServerTyped, Calling, EditorTyped, Counted, Known, Calls, Sound
<1>2. CASE TypeSomething
  BY <1>2, TypeTyped
<1>3. CASE Reload
  BY <1>3, ReloadTyped
<1>4. CASE Restart /\ UNCHANGED <<editorVars, userVars>>
  BY <1>4, RestartTyped
<1>5. ASSUME EditorTyped', UNCHANGED typed, Spend \/ UNCHANGED spent, EditorSteps PROVE Typed'
  <2>1. Known' = Known /\ Calls' = Calls /\ \A q : Sound(q)' <=> Sound(q)
    BY <1>5, SameKnown
  <2>2. UNCHANGED copies
    BY <1>5 DEF EditorSteps, Nothing, Starts, StartsBoth, Takes
  <2>3. ServerTyped'
    BY <1>5, <2>1, <2>2, EditorCalling DEF ServerTyped, Calling, Typed
  <2>4. Counted'
    BY <1>5, SpendCounted DEF Typed, Counted
  <2>5. QED BY <1>5, <2>3, <2>4 DEF Typed
<1>6. CASE \/ ChooseMode \/ TogglePreview \/ Draw \/ AutoSave
           \/ \E f \in Files : Select(f) \/ PressSave(f) \/ PressRun(f)
  BY <1>5, <1>6, ActsTyped, OtherForms, SelectForms, ButtonForms
<1>7. ASSUME NEW r \in Requests, Serves(r) PROVE Typed'
  BY <1>7, WorksTyped DEF Serves
<1>8. ASSUME NEW r \in Requests, Receives(r) PROVE Typed'
  BY <1>5, <1>8, ReceivesTyped, ReceiveForms DEF EditorSteps
<1>9. QED BY <1>1, <1>2, <1>3, <1>4, <1>6, <1>7, <1>8 DEF Next

LEMMA TypesInvariant == Spec => []Typed
BY InitTyped, StepTyped, PTL DEF Spec

\* Every variable of the files and of the editor keeps its type.
THEOREM EditorTypesCorrect == Spec => []TypeOK
<1>1. Typed => TypeOK
  <2> SUFFICES ASSUME Typed PROVE TypeOK
    OBVIOUS
  <2>1. Known \subseteq Contents
    BY BoundAssumption DEF Known, Contents, Starter, Typed, Counted
  <2>2. \A r \in Requests : /\ req[r].file \in Files \cup {NoFile}
                            /\ req[r].content \in Contents
                            /\ req[r].snap \in [Files -> Contents] \cup {<<>>}
    BY <2>1 DEF Typed, ServerTyped, Calling, Calls
  <2>3. {disk, record, cache, acked, text, lastSaved, wrote} \subseteq [Files -> Contents]
    BY <2>1 DEF Typed, ServerTyped, EditorTyped
  <2>4. index \in [Files -> Contents] \cup {NoIndex}
    BY <2>1 DEF Typed, ServerTyped
  <2>5. spent \in 0 .. MaxSpent /\ typed \in 0 .. MaxSpent
    BY BoundAssumption DEF Typed, Counted
  <2>6. QED BY <2>2, <2>3, <2>4, <2>5 DEF TypeOK, Typed, ServerTyped, EditorTyped
<1>2. QED BY <1>1, TypesInvariant, PTL

-----------------------------------------------------------------------------
(* What the calls do to a file *)

Writer(q, f) ==
  /\ q.file = f
  /\ \/ q.op = "save" /\ q.at \in {"read", "put", "disk"}
     \/ q.op = "run" /\ (q.at = "sync" \/ q.later # "none")
Puts(q, f) == q.op = "save" /\ q.file = f /\ q.at = "disk"
Reads(q, f) == q.op = "content" /\ q.file = f /\ (q.at # "taken" \/ q.later # "none")
Answered(q, f) == Reads(q, f) /\ q.at # "disk" /\ (q.ok \/ q.later # "none")
Keeps(q) == q.at = "put" \/ q.later = "put"

LEMMA CallSets ==
  ASSUME NEW f
  PROVE  /\ Writing(f) = {r \in Requests : Writer(req[r], f)}
         /\ Reading(f) = {r \in Requests : Reads(req[r], f)}
         /\ Keeping = {r \in Requests : Keeps(req[r])}
BY DEF Writing, Reading, Keeping, Of, Writer, Reads, Keeps

\* One writer at most, which puts back what was acknowledged, and only a test
\* run that has not ended keeps that out of the container.
Held(f) ==
  /\ \A r, s \in Requests : Writer(req[r], f) /\ Writer(req[s], f) => r = s
  /\ \A r \in Requests :
       Writer(req[r], f) /\ req[r].later # "none" => req[r].content = acked[f]
  /\ (\A r \in Requests : Writer(req[r], f) => req[r].later # "restore")
       => disk[f] = acked[f]
HeldInv == \A f \in Files : f \notin crossed => Held(f)

\* Nobody reads what is being written, and the copies of the server are the
\* content that a save has put there or else the acknowledged one.  The record
\* has none only of a file that is still the starter's.
Fresh(f) ==
  /\ \A r, s \in Requests : ~(Reads(req[r], f) /\ Writer(req[s], f))
  /\ \A r \in Requests : Answered(req[r], f) => req[r].content = acked[f]
  /\ \A r \in Requests :
       Puts(req[r], f) => cache[f] = req[r].content /\ record[f] = req[r].content
  /\ (\A r \in Requests : ~Puts(req[r], f))
       => /\ cache[f] \in {None, acked[f]} /\ record[f] \in {None, acked[f]}
          /\ record[f] = None => acked[f] = Starter
FreshInv == \A f \in Files : f \notin crossed \cup stale => Fresh(f)

\* A list of files that is being written back is the one in the record.
SnapInv ==
  stale # Files =>
    /\ \A r \in Requests : Keeps(req[r]) => req[r].snap = record
    /\ \A r, s \in Requests : Keeps(req[r]) /\ Keeps(req[s]) => r = s

\* Call q becomes p and does nothing new to file f.
SameWrites(q, p, f) ==
  /\ Writer(p, f) => Writer(q, f) /\ p.content = q.content /\ p.later = q.later
  /\ Writer(q, f) /\ q.later = "restore" => Writer(p, f)
SameReads(q, p, f) ==
  /\ Reads(p, f) => Reads(q, f)
  /\ Answered(p, f) => Answered(q, f) /\ p.content = q.content
  /\ Puts(p, f) <=> Puts(q, f)
  /\ Puts(p, f) => p.content = q.content
SameKeeps(q, p) == Keeps(p) => Keeps(q) /\ p.snap = q.snap
Same(q, p, f) == SameWrites(q, p, f) /\ SameReads(q, p, f) /\ SameKeeps(q, p)

LEMMA SameOnes ==
  ASSUME NEW q \in Calls, Sound(q), NEW f, Counted
  PROVE  /\ Same(q, q, f)
         /\ q.at = "done" => Same(q, IF q.later = "none" THEN Idle
                                     ELSE [q EXCEPT !.at = "taken"], f)
         /\ Same(q, Left(q), f)
         /\ q.op = "none" => ~Writer(q, f) /\ ~Reads(q, f) /\ ~Puts(q, f) /\ ~Keeps(q)
         /\ ~Writer(Idle, f) /\ ~Reads(Idle, f) /\ ~Puts(Idle, f) /\ ~Keeps(Idle)
<1> DEFINE u == [q EXCEPT !.at = "taken"]
           v == [q EXCEPT !.by = "gone"]
<1> USE DEF Same, SameWrites, SameReads, SameKeeps, Writer, Reads, Puts, Answered, Keeps
<1>1. Same(q, q, f)
  OBVIOUS
<1>2. ~Writer(Idle, f) /\ ~Reads(Idle, f) /\ ~Puts(Idle, f) /\ ~Keeps(Idle)
  BY IdleIsCall
<1>3. q.op = "none" => ~Writer(q, f) /\ ~Reads(q, f) /\ ~Puts(q, f) /\ ~Keeps(q)
  BY DEF Sound
<1>4. /\ u.op = q.op /\ u.file = q.file /\ u.content = q.content /\ u.ok = q.ok
      /\ u.later = q.later /\ u.snap = q.snap /\ u.at = "taken"
      /\ v.op = q.op /\ v.file = q.file /\ v.content = q.content /\ v.ok = q.ok
      /\ v.later = q.later /\ v.snap = q.snap /\ v.at = q.at
  BY DEF Calls
<1>5. q.at = "done" /\ q.later = "none" => Same(q, Idle, f)
  BY <1>2 DEF Sound
<1>6. q.at = "done" /\ q.later # "none" => Same(q, u, f)
  BY <1>4 DEF Sound
<1>7. Same(q, v, f)
  BY <1>4
<1>8. QED BY <1>1, <1>2, <1>3, <1>5, <1>6, <1>7 DEF Left

\* What a step of the editor is to file f: nothing new, or one new call.
Opens(f) ==
  \E n \in Requests :
    /\ req[n].op = "none" /\ req'[n] \in NewCalls /\ req'[n].file = f
    /\ \A s \in Requests \ {n} : Same(req[s], req'[s], f)
    /\ req'[n].op # "content" => f \in crossed' \/ Writing(f) = {}
    /\ f \in stale' \/ Writing(f) = {}
    /\ req'[n].op # "content" => f \in stale' \/ Reading(f) = {}
AllSame(f) == \A s \in Requests : Same(req[s], req'[s], f)

LEMMA NewElsewhere ==
  ASSUME NEW c \in NewCalls, NEW f
  PROVE  /\ ~Keeps(c) /\ ~Puts(c, f) /\ ~Answered(c, f) /\ c.later = "none"
         /\ c.file # f => ~Writer(c, f) /\ ~Reads(c, f)
         /\ c.op = "content" => ~Writer(c, f)
         /\ c.op # "content" => ~Reads(c, f)
BY DEF NewCalls, Writer, Reads, Puts, Answered, Keeps

LEMMA EditorEffect ==
  ASSUME Typed, EditorSteps \/ Reload, NEW f \in Files
  PROVE  /\ AllSame(f) \/ Opens(f)
         /\ crossed \subseteq crossed' /\ stale \subseteq stale'
         /\ UNCHANGED <<disk, record, acked>> /\ cache'[f] \in {cache[f], record[f]}
<1>1. \A s \in Requests : req[s] \in Calls /\ Sound(req[s])
  BY DEF Typed, ServerTyped, Calling
<1>2. Counted
  BY DEF Typed
<1>3. \A s \in Requests, c \in NewCalls :
        req[s].op = "none" /\ c.file # f => Same(req[s], c, f)
  BY <1>1, <1>2, SameOnes, NewElsewhere DEF Same, SameWrites, SameReads, SameKeeps
<1>4. ASSUME NEW c \in NewCalls, Meets(c)
      PROVE  /\ crossed \subseteq crossed' /\ stale \subseteq stale'
             /\ c.file = f => /\ c.op # "content" => f \in crossed' \/ Writing(f) = {}
                              /\ f \in stale' \/ Writing(f) = {}
                              /\ c.op # "content" => f \in stale' \/ Reading(f) = {}
  BY <1>4 DEF Meets
<1>5. CASE Nothing
  BY <1>1, <1>2, <1>5, SameOnes DEF Nothing, AllSame
<1>6. ASSUME NEW r \in Requests, Takes(r) PROVE AllSame(f)
  BY <1>1, <1>2, <1>6, Taking, SameOnes DEF AllSame, Takes
<1>7. ASSUME NEW n \in Requests, NEW c \in NewCalls, Meets(c), req[n].op = "none",
             req'[n] = c, \A s \in Requests \ {n} : Same(req[s], req'[s], f)
      PROVE  AllSame(f) \/ Opens(f)
  <2>1. CASE c.file # f
    BY <1>3, <1>7, <2>1 DEF AllSame
  <2>2. CASE c.file = f
    BY <1>4, <1>7, <2>2 DEF Opens
  <2>3. QED BY <2>1, <2>2
<1>8. ASSUME NEW c \in NewCalls, Starts(c) PROVE AllSame(f) \/ Opens(f)
  <2>1. PICK n \in Requests : /\ req[n].op = "none" /\ req'[n] = c
                              /\ \A s \in Requests \ {n} : req'[s] = req[s]
    BY <1>8, Starting
  <2>2. \A s \in Requests \ {n} : Same(req[s], req'[s], f)
    BY <1>1, <1>2, <2>1, SameOnes
  <2>3. QED BY <1>7, <1>8, <2>1, <2>2 DEF Starts, Send
<1>9. ASSUME NEW c \in NewCalls, NEW d \in NewCalls, StartsBoth(c, d)
      PROVE  AllSame(f) \/ Opens(f)
  <2>1. PICK n, m \in Requests :
          /\ n # m /\ req[n].op = "none" /\ req'[n] = c /\ req[m].op = "none" /\ req'[m] = d
          /\ \A s \in Requests \ {n, m} : req'[s] = req[s]
    BY <1>9, StartingBoth
  <2>2. \A s \in Requests \ {n, m} : Same(req[s], req'[s], f)
    BY <1>1, <1>2, <2>1, SameOnes
  <2>3. c.op = "save" /\ d.op = "content" /\ c.file # d.file
    BY <1>9 DEF StartsBoth
  <2>4. /\ c.file = f => f \in crossed' \/ Writing(f) = {}
        /\ c.file = f => f \in stale' \/ (Writing(f) = {} /\ Reading(f) = {})
        /\ d.file = f => f \in stale' \/ Writing(f) = {}
    BY <1>9 DEF StartsBoth, SendBoth
  <2>5. CASE c.file = f
    <3>1. Same(req[m], req'[m], f)
      BY <1>3, <2>1, <2>3, <2>5
    <3>2. QED BY <2>1, <2>2, <2>4, <2>5, <3>1 DEF Opens
  <2>6. CASE d.file = f
    <3>1. Same(req[n], req'[n], f)
      BY <1>3, <2>1, <2>3, <2>6
    <3>2. QED BY <2>1, <2>2, <2>3, <2>4, <2>6, <3>1 DEF Opens
  <2>7. CASE c.file # f /\ d.file # f
    BY <1>3, <2>1, <2>2, <2>7 DEF AllSame
  <2>8. QED BY <2>5, <2>6, <2>7
<1>10. CASE EditorSteps
  <2>1. AllSame(f) \/ Opens(f)
    BY <1>5, <1>6, <1>8, <1>9, <1>10 DEF EditorSteps
  <2>2. crossed \subseteq crossed' /\ stale \subseteq stale'
    BY <1>10 DEF EditorSteps, Nothing, Starts, Send, Meets, StartsBoth, SendBoth, Takes
  <2>3. UNCHANGED <<copies, acked>>
    BY <1>10 DEF EditorSteps, Nothing, Starts, StartsBoth, Takes
  <2>4. QED BY <2>1, <2>2, <2>3
<1>11. CASE Reload
  <2>1. /\ Slot \in Requests /\ req[Slot].op = "none" /\ req'[Slot] = LoadFirst
        /\ \A s \in Requests \ {Slot} : req'[s] = Left(req[s])
    BY <1>11, Reloading
  <2>2. LoadFirst \in NewCalls /\ Meets(LoadFirst)
    BY <1>11, LoadFirstIsNew DEF Reload
  <2>3. \A s \in Requests \ {Slot} : Same(req[s], req'[s], f)
    BY <1>1, <1>2, <2>1, SameOnes
  <2>4. AllSame(f) \/ Opens(f)
    BY <1>7, <2>1, <2>2, <2>3
  <2>5. UNCHANGED <<disk, record, acked>> /\ cache'[f] \in {cache[f], record[f]}
    BY <1>11 DEF Reload, ListFiles
  <2>6. QED BY <1>4, <2>2, <2>4, <2>5
<1>12. QED BY <1>10, <1>11

-----------------------------------------------------------------------------
(* The container, the copies and the lists of files *)

LEMMA HeldCarry ==
  ASSUME NEW f, Held(f), disk'[f] = disk[f], acked'[f] = acked[f],
         \A s \in Requests : SameWrites(req[s], req'[s], f)
  PROVE  Held(f)'
BY DEF Held, SameWrites

LEMMA HeldOpens ==
  ASSUME NEW f \in Files, Held(f), f \notin crossed', Opens(f), UNCHANGED <<disk, acked>>
  PROVE  Held(f)'
<1>1. PICK n \in Requests :
        /\ req[n].op = "none" /\ req'[n] \in NewCalls /\ req'[n].file = f
        /\ \A s \in Requests \ {n} : Same(req[s], req'[s], f)
        /\ req'[n].op # "content" => Writing(f) = {}
  BY DEF Opens
<1>2. ~Writer(req[n], f) /\ req'[n].later = "none"
  BY <1>1, NewElsewhere DEF Writer
<1>3. CASE req'[n].op = "content"
  <2>1. \A s \in Requests : SameWrites(req[s], req'[s], f)
    BY <1>1, <1>2, <1>3, NewElsewhere DEF Same, SameWrites
  <2>2. QED BY <2>1, HeldCarry
<1>4. CASE req'[n].op # "content"
  <2>1. \A s \in Requests : ~Writer(req[s], f)
    BY <1>1, <1>4, CallSets
  <2>2. \A s \in Requests \ {n} : ~Writer(req'[s], f)
    BY <1>1, <2>1 DEF Same, SameWrites
  <2>3. disk[f] = acked[f]
    BY <2>1 DEF Held
  <2>4. QED BY <1>2, <2>2, <2>3 DEF Held
<1>5. QED BY <1>3, <1>4

LEMMA FreshCarry ==
  ASSUME NEW f, Fresh(f), acked'[f] = acked[f], record'[f] = record[f],
         cache'[f] \in {cache[f], record[f]},
         \A s \in Requests : SameReads(req[s], req'[s], f)
                             /\ (Writer(req'[s], f) => Writer(req[s], f))
  PROVE  Fresh(f)'
<1>1. \A r, s \in Requests : ~(Reads(req'[r], f) /\ Writer(req'[s], f))
  BY DEF Fresh, SameReads
<1>2. \A r \in Requests : Answered(req'[r], f) => req'[r].content = acked'[f]
  BY DEF Fresh, SameReads
<1>3. \A r \in Requests :
        Puts(req'[r], f) => cache'[f] = req'[r].content /\ record'[f] = req'[r].content
  BY DEF Fresh, SameReads
<1>4. (\A r \in Requests : ~Puts(req'[r], f))
        => /\ cache'[f] \in {None, acked'[f]} /\ record'[f] \in {None, acked'[f]}
           /\ record'[f] = None => acked'[f] = Starter
  BY DEF Fresh, SameReads
<1>5. QED BY <1>1, <1>2, <1>3, <1>4 DEF Fresh

LEMMA FreshOpens ==
  ASSUME NEW f \in Files, Fresh(f), f \notin stale', Opens(f),
         UNCHANGED <<record, acked>>, cache'[f] \in {cache[f], record[f]}
  PROVE  Fresh(f)'
<1>1. PICK n \in Requests :
        /\ req[n].op = "none" /\ req'[n] \in NewCalls
        /\ \A s \in Requests \ {n} : Same(req[s], req'[s], f)
        /\ Writing(f) = {} /\ (req'[n].op # "content" => Reading(f) = {})
  BY DEF Opens
<1>2. \A s \in Requests : ~Writer(req[s], f) /\ ~Puts(req[s], f)
  BY <1>1, CallSets DEF Writer, Puts
<1>3. /\ ~Puts(req'[n], f) /\ ~Answered(req'[n], f)
      /\ ~Writer(req'[n], f) \/ ~Reads(req'[n], f)
  BY <1>1, NewElsewhere
<1>4. \A s \in Requests \ {n} : /\ ~Writer(req'[s], f) /\ ~Puts(req'[s], f)
                                /\ Reads(req'[s], f) => Reads(req[s], f)
                                /\ Answered(req'[s], f) => req'[s].content = acked[f]
  BY <1>1, <1>2 DEF Same, SameWrites, SameReads, Fresh
<1>5. \A r, s \in Requests : ~(Reads(req'[r], f) /\ Writer(req'[s], f))
  <2>1. Writer(req'[n], f) => \A s \in Requests : ~Reads(req[s], f)
    BY <1>1, CallSets, NewElsewhere
  <2>2. QED BY <1>3, <1>4, <2>1
<1>6. /\ cache[f] \in {None, acked[f]} /\ record[f] \in {None, acked[f]}
      /\ record[f] = None => acked[f] = Starter
  BY <1>2 DEF Fresh
<1>7. QED BY <1>3, <1>4, <1>5, <1>6 DEF Fresh

LEMMA EditorHeld ==
  ASSUME Typed, HeldInv, FreshInv, SnapInv, EditorSteps \/ Reload
  PROVE  HeldInv' /\ FreshInv' /\ SnapInv'
<1>1. ASSUME NEW f \in Files, f \notin crossed' PROVE Held(f)'
  <2>1. /\ AllSame(f) \/ Opens(f)
        /\ crossed \subseteq crossed' /\ UNCHANGED <<disk, record, acked>>
    BY EditorEffect
  <2>2. Held(f)
    BY <1>1, <2>1 DEF HeldInv
  <2>3. QED BY <1>1, <2>1, <2>2, HeldCarry, HeldOpens DEF AllSame, Same
<1>2. ASSUME NEW f \in Files, f \notin crossed' \cup stale' PROVE Fresh(f)'
  <2>1. /\ AllSame(f) \/ Opens(f)
        /\ crossed \subseteq crossed' /\ stale \subseteq stale'
        /\ UNCHANGED <<disk, record, acked>> /\ cache'[f] \in {cache[f], record[f]}
    BY EditorEffect
  <2>2. Fresh(f)
    BY <1>2, <2>1 DEF FreshInv
  <2>3. QED BY <1>2, <2>1, <2>2, FreshCarry, FreshOpens DEF AllSame, Same, SameWrites
<1>3. SnapInv'
  <2> SUFFICES ASSUME stale' # Files
               PROVE /\ \A r \in Requests : Keeps(req'[r]) => req'[r].snap = record'
                     /\ \A r, s \in Requests : Keeps(req'[r]) /\ Keeps(req'[s]) => r = s
    BY DEF SnapInv
  <2>1. PICK f \in Files : TRUE
    BY FilesAssumption
  <2>2. /\ AllSame(f) \/ Opens(f)
        /\ stale \subseteq stale' /\ UNCHANGED <<disk, record, acked>>
    BY EditorEffect
  <2>3. stale' \subseteq Files
    BY EditorCalling, Reloading
  <2>4. \A s \in Requests : Keeps(req'[s]) => Keeps(req[s]) /\ req'[s].snap = req[s].snap
    BY <2>2, NewElsewhere DEF AllSame, Opens, Same, SameKeeps
  <2>5. QED BY <2>2, <2>3, <2>4 DEF SnapInv
<1>4. QED BY <1>1, <1>2, <1>3 DEF HeldInv, FreshInv

LEMMA RestartHeld ==
  ASSUME Typed, HeldInv, FreshInv, SnapInv, Restart
  PROVE  HeldInv' /\ FreshInv' /\ SnapInv'
<1>1. \A r \in Requests : req'[r] = Killed(req[r]) /\ req[r] \in Calls /\ Sound(req[r])
  BY Restarting DEF Typed, ServerTyped, Calling
<1>2. ASSUME NEW q \in Calls, Sound(q), NEW f
      PROVE  /\ ~Writer(Killed(q), f) /\ ~Puts(Killed(q), f) /\ ~Keeps(Killed(q))
             /\ Reads(Killed(q), f) => Reads(q, f)
             /\ Answered(Killed(q), f) => Answered(q, f) /\ Killed(q).content = q.content
  <2> DEFINE u == [q EXCEPT !.later = "none"]
             v == [q EXCEPT !.at = "done", !.ok = FALSE, !.later = "none"]
  <2>1. /\ u.op = q.op /\ u.file = q.file /\ u.content = q.content /\ u.ok = q.ok
        /\ u.later = "none" /\ u.at = q.at
        /\ v.op = q.op /\ v.file = q.file /\ v.ok = FALSE /\ v.later = "none" /\ v.at = "done"
    BY DEF Calls
  <2>2. Killed(q) = Idle \/ (q.at = "done" /\ Killed(q) = u)
          \/ (q.op # "none" /\ q.at \notin {"taken", "done"} /\ Killed(q) = v)
    BY DEF Killed
  <2>3. Counted
    BY DEF Typed
  <2>4. Sound(q) /\ (q.op = "none" => q.at = "idle")
    BY <1>2 DEF Sound
  <2> HIDE DEF u, v
  <2>5. CASE Killed(q) = Idle
    BY <1>2, <2>3, <2>5, SameOnes DEF Answered
  <2>6. CASE q.at = "done" /\ Killed(q) = u
    BY <2>1, <2>4, <2>6 DEF Writer, Reads, Puts, Answered, Keeps
  <2>7. CASE q.op # "none" /\ q.at \notin {"taken", "done"} /\ Killed(q) = v
    BY <2>1, <2>7 DEF Writer, Reads, Puts, Answered, Keeps
  <2>8. QED BY <2>2, <2>5, <2>6, <2>7
<1>3. /\ UNCHANGED <<disk, record, acked>> /\ cache' = [f \in Files |-> None]
      /\ crossed' = crossed \cup {f \in Files : Writing(f) # {}}
      /\ stale' = stale \cup {f \in Files : Writing(f) # {}}
  BY DEF Restart
<1>4. \A f \in Files : f \notin crossed' => \A r \in Requests : ~Writer(req[r], f)
  BY <1>3, CallSets
<1>5. HeldInv'
  <2>1. \A f \in Files : f \notin crossed' => disk[f] = acked[f]
    BY <1>3, <1>4 DEF HeldInv, Held
  <2>2. QED BY <1>1, <1>2, <1>3, <2>1 DEF HeldInv, Held
<1>6. FreshInv'
  <2> SUFFICES ASSUME NEW f \in Files, f \notin crossed' \cup stale' PROVE Fresh(f)'
    BY DEF FreshInv
  <2>1. Fresh(f) /\ \A r \in Requests : ~Puts(req[r], f)
    BY <1>3, <1>4 DEF FreshInv, Writer, Puts
  <2>2. /\ record'[f] \in {None, acked'[f]} /\ cache'[f] = None
        /\ record'[f] = None => acked'[f] = Starter
    BY <1>3, <2>1 DEF Fresh
  <2>3. \A r \in Requests : Answered(req'[r], f) => req'[r].content = acked'[f]
    BY <1>1, <1>2, <1>3, <2>1 DEF Fresh
  <2>4. QED BY <1>1, <1>2, <2>2, <2>3 DEF Fresh
<1>7. SnapInv'
  BY <1>1, <1>2 DEF SnapInv
<1>8. QED BY <1>5, <1>6, <1>7

\* Call q has become p.
Is(p, q, at, later, content, ok, snap) ==
  /\ p.op = q.op /\ p.file = q.file /\ p.by = q.by
  /\ p.at = at /\ p.later = later /\ p.content = content /\ p.ok = ok /\ p.snap = snap

LEMMA Outcomes ==
  ASSUME Typed, NEW r \in Requests
  PROVE  LET q == req[r]
             p == req'[r]
         IN
         /\ ReadRecord(r) => Is(p, q, "put", q.later, q.content, q.ok, record)
         /\ PutRecord(r) => Is(p, q, "disk", q.later, q.content, q.ok, q.snap)
         /\ SaveToContainer(r) => Is(p, q, "done", "none", q.content, TRUE, q.snap)
         /\ ReadFromContainer(r) => Is(p, q, "done", "get", disk[q.file], TRUE, q.snap)
         /\ GetToKeep(r) => Is(p, q, q.at, "put", q.content, q.ok, record)
         /\ Keep(r) \/ Restore(r) =>
              \/ p = Idle \/ Is(p, q, q.at, "none", q.content, q.ok, q.snap)
              \/ Is(p, q, "done", "none", q.content, TRUE, q.snap) /\ q.at = "keep" /\ Keep(r)
         /\ Instrument(r) => Is(p, q, q.at, "restore", q.content, q.ok, q.snap)
         /\ SyncFile(r) => \/ /\ Is(p, q, "done", "none", q.content, FALSE, q.snap)
                              /\ disk' = disk
                           \/ /\ Is(p, q, "done", "instrument", Program(q), TRUE, q.snap)
                              /\ \/ /\ disk' = [disk EXCEPT ![q.file] = Program(q)]
                                    /\ Program(q) = acked[q.file]
                                 \/ /\ q.file \in crossed'
                                    /\ disk' \in {disk, [disk EXCEPT ![q.file] = Program(q)]}
         /\ Refuse(r) => Is(p, q, "done", "none", q.content, FALSE, q.snap)
         /\ ReadCopy(r) =>
              \E c \in {cache[q.file], record[q.file]} \ {None} :
                Is(p, q, "done", "none", c, TRUE, q.snap)
         /\ ReadAgain(r) =>
              \E c \in {disk[q.file], Starter} :
                Is(p, q, "keep", "get", c, q.ok, q.snap) /\ cache' = [cache EXCEPT ![q.file] = c]
         /\ ReadListed(r) => \E c : c # None /\ Is(p, q, "done", "none", c, TRUE, q.snap)
         /\ LoseAnswer(r) => Is(p, q, q.at, q.later, q.content, FALSE, q.snap)
<1> DEFINE q == req[r]
           p == req'[r]
<1>1. q \in Calls /\ Calling
  BY DEF Typed, ServerTyped, Calling
<1> USE DEF Calling, Calls, Is, Answer, To, Later
<1>2. ReadRecord(r) => Is(p, q, "put", q.later, q.content, q.ok, record)
  BY <1>1 DEF ReadRecord
<1>3. PutRecord(r) => Is(p, q, "disk", q.later, q.content, q.ok, q.snap)
  BY <1>1 DEF PutRecord
<1>4. SaveToContainer(r) => Is(p, q, "done", "none", q.content, TRUE, q.snap)
  BY <1>1 DEF SaveToContainer
<1>5. ReadFromContainer(r) => Is(p, q, "done", "get", disk[q.file], TRUE, q.snap)
  BY <1>1 DEF ReadFromContainer
<1>6. GetToKeep(r) => Is(p, q, q.at, "put", q.content, q.ok, record)
  BY <1>1 DEF GetToKeep
<1>7. Keep(r) \/ Restore(r) =>
        \/ p = Idle \/ Is(p, q, q.at, "none", q.content, q.ok, q.snap)
        \/ Is(p, q, "done", "none", q.content, TRUE, q.snap) /\ q.at = "keep" /\ Keep(r)
  BY <1>1 DEF Keep, Restore
<1>8. Instrument(r) => Is(p, q, q.at, "restore", q.content, q.ok, q.snap)
  BY <1>1 DEF Instrument
<1>9. ASSUME SyncFile(r)
      PROVE  \/ /\ Is(p, q, "done", "none", q.content, FALSE, q.snap)
                /\ disk' = disk
             \/ /\ Is(p, q, "done", "instrument", Program(q), TRUE, q.snap)
                /\ \/ /\ disk' = [disk EXCEPT ![q.file] = Program(q)]
                      /\ Program(q) = acked[q.file]
                   \/ /\ q.file \in crossed'
                      /\ disk' \in {disk, [disk EXCEPT ![q.file] = Program(q)]}
  <2>1. \/ Answer(r, FALSE, q.content, "none") /\ disk' = disk
        \/ /\ Answer(r, TRUE, Program(q), "instrument")
           /\ \/ /\ disk' = [disk EXCEPT ![q.file] = Program(q)]
                 /\ Program(q) = acked[q.file]
              \/ /\ q.file \in crossed'
                 /\ disk' \in {disk, [disk EXCEPT ![q.file] = Program(q)]}
    BY <1>9 DEF SyncFile
  <2>2. QED BY <1>1, <2>1
<1>10. Refuse(r) => Is(p, q, "done", "none", q.content, FALSE, q.snap)
  BY <1>1 DEF Refuse
<1>11. ReadCopy(r) =>
         \E c \in {cache[q.file], record[q.file]} \ {None} :
           Is(p, q, "done", "none", c, TRUE, q.snap)
  BY <1>1 DEF ReadCopy
<1>12. LoseAnswer(r) => Is(p, q, q.at, q.later, q.content, FALSE, q.snap)
  BY <1>1 DEF LoseAnswer
<1>13. ReadAgain(r) =>
         \E c \in {disk[q.file], Starter} :
           Is(p, q, "keep", "get", c, q.ok, q.snap) /\ cache' = [cache EXCEPT ![q.file] = c]
  <2>1. ASSUME NEW c, req' = [req EXCEPT ![r].at = "keep", ![r].content = c, ![r].later = "get"]
        PROVE  Is(p, q, "keep", "get", c, q.ok, q.snap)
    BY <1>1, <2>1
  <2>2. QED BY <2>1 DEF ReadAgain
<1>14. ReadListed(r) => \E c : c # None /\ Is(p, q, "done", "none", c, TRUE, q.snap)
  BY <1>1 DEF ReadListed, Blank, None
<1> HIDE DEF Is
<1>15. QED
  BY <1>2, <1>3, <1>4, <1>5, <1>6, <1>7, <1>8, <1>9, <1>10, <1>11, <1>12, <1>13, <1>14

LEMMA OtherCalls ==
  ASSUME Typed, NEW r \in Requests, Works(r) \/ Fails(r)
  PROVE  /\ \A s \in Requests \ {r} : req'[s] = req[s]
         /\ req[r] \in Calls /\ Sound(req[r])
         /\ crossed \subseteq crossed' /\ stale \subseteq stale' /\ stale' \subseteq Files
<1>1. \E u : req' = [req EXCEPT ![r] = u]
  BY DEF Works, Fails, ReadRecord, PutRecord, To, SaveToContainer, ReadFromContainer, GetToKeep,
         Keep, Later, SyncFile, Instrument, Restore, Refuse, ReadCopy, ReadAgain, ReadListed,
         LoseAnswer, Answer
<1>2. crossed \subseteq crossed' /\ stale \subseteq stale'
  BY DEF Works, Fails, ReadRecord, PutRecord, To, SaveToContainer, ReadFromContainer, GetToKeep,
         Keep, Later, SyncFile, Instrument, Restore, Writes, Refuse, ReadCopy, ReadAgain,
         ReadListed, LoseAnswer, Answer, Typed, ServerTyped
<1>3. QED BY <1>1, <1>2, WorksCopies DEF Typed, ServerTyped, Calling

-----------------------------------------------------------------------------
(* A step of the server and the container *)

LEMMA WorksHeld ==
  ASSUME Typed, HeldInv, NEW r \in Requests, Works(r) \/ Fails(r)
  PROVE  HeldInv'
<1> DEFINE q == req[r]
           p == req'[r]
<1>1. /\ \A s \in Requests \ {r} : req'[s] = req[s]
      /\ q \in Calls /\ Sound(q) /\ crossed \subseteq crossed'
  BY OtherCalls
<1>2. \A s \in Requests, f \in Files : SameWrites(req[s], req[s], f)
  BY DEF SameWrites
<1> SUFFICES ASSUME NEW f \in Files, f \notin crossed' PROVE Held(f)'
  BY DEF HeldInv
<1>3. Held(f)
  BY <1>1 DEF HeldInv
<1>4. ASSUME SameWrites(q, p, f), disk'[f] = disk[f], acked'[f] = acked[f] PROVE Held(f)'
  BY <1>1, <1>2, <1>3, <1>4, HeldCarry
<1>5. ~Writer(Idle, f)
  BY IdleIsCall DEF Typed, Writer
<1> HIDE DEF q, p
<1>6. CASE ReadRecord(r) \/ PutRecord(r)
  <2>1. SameWrites(q, p, f)
    BY <1>1, <1>6, Outcomes DEF Is, SameWrites, Writer, Sound, ReadRecord, PutRecord, q, p
  <2>2. QED BY <1>4, <1>6, <2>1 DEF ReadRecord, PutRecord
<1>7. CASE ReadFromContainer(r) \/ GetToKeep(r) \/ Keep(r) \/ Refuse(r) \/ ReadCopy(r)
           \/ ReadAgain(r) \/ ReadListed(r) \/ LoseAnswer(r)
  <2>1. UNCHANGED <<disk, acked>>
    BY <1>7 DEF ReadFromContainer, GetToKeep, Keep, Refuse, ReadCopy, ReadAgain, ReadListed,
       LoseAnswer
  <2>2. ~Writer(p, f)
    <3>1. CASE ReadFromContainer(r) \/ ReadCopy(r) \/ ReadAgain(r) \/ ReadListed(r)
      BY <1>1, <3>1, Outcomes DEF Is, Writer, ReadFromContainer, ReadCopy, ReadAgain, ReadListed,
         q, p
    <3>2. CASE GetToKeep(r) \/ Keep(r)
      BY <1>1, <1>5, <3>2, Outcomes DEF Is, Writer, GetToKeep, Keep, Sound, Calls, q, p
    <3>3. CASE Refuse(r) \/ LoseAnswer(r)
      BY <1>1, <3>3, Outcomes DEF Is, Writer, Refuse, LoseAnswer, q, p
    <3>4. QED BY <1>7, <3>1, <3>2, <3>3
  <2>3. ~(Writer(q, f) /\ q.later = "restore")
    BY <1>1, <1>7 DEF ReadFromContainer, GetToKeep, Keep, Refuse, ReadCopy, ReadAgain, ReadListed,
       LoseAnswer, Sound, Writer, q
  <2>4. QED BY <1>4, <2>1, <2>2, <2>3 DEF SameWrites
<1>8. ASSUME q.file # f, p = Idle \/ p.file = q.file,
             disk'[f] = disk[f], acked'[f] = acked[f]
      PROVE  Held(f)'
  <2>1. ~Writer(q, f) /\ ~Writer(p, f)
    BY <1>5, <1>8 DEF Writer
  <2>2. QED BY <1>4, <1>8, <2>1 DEF SameWrites
<1>9. ASSUME q.file = f, \A s \in Requests \ {r} : ~Writer(req[s], f),
             Writer(p, f) /\ p.later # "none" => p.content = acked'[f],
             (Writer(p, f) => p.later # "restore") => disk'[f] = acked'[f]
      PROVE  Held(f)'
  BY <1>1, <1>9 DEF Held, p
<1>10. ASSUME q.file = f, Writer(q, f) PROVE \A s \in Requests \ {r} : ~Writer(req[s], f)
  BY <1>3, <1>10 DEF Held, q
<1>11. CASE SaveToContainer(r)
  <2>1. Is(p, q, "done", "none", q.content, TRUE, q.snap) /\ q.op = "save" /\ q.at = "disk"
          /\ q.file \in Files
    BY <1>1, <1>11, Outcomes DEF SaveToContainer, Sound, q, p
  <2>2. ~Writer(p, f) /\ p.file = q.file /\ (q.file = f => Writer(q, f))
    BY <2>1 DEF Is, Writer
  <2>3. /\ acked' = [acked EXCEPT ![q.file] = q.content]
        /\ \/ disk' = [disk EXCEPT ![q.file] = q.content]
           \/ q.file \in crossed' /\ disk' = disk
    BY <1>11 DEF SaveToContainer, Writes, q
  <2>4. disk \in [Files -> Known] /\ acked \in [Files -> Known]
    BY DEF Typed, ServerTyped
  <2>5. CASE q.file = f
    BY <1>9, <1>10, <2>1, <2>2, <2>3, <2>4, <2>5
  <2>6. CASE q.file # f
    BY <1>8, <2>2, <2>3, <2>4, <2>6
  <2>7. QED BY <2>5, <2>6
<1>12. CASE SyncFile(r)
  <2>1. q.op = "run" /\ q.at = "sync" /\ q.later = "none" /\ UNCHANGED acked
          /\ disk \in [Files -> Known] /\ (q.file = f => Writer(q, f))
    BY <1>1, <1>12 DEF SyncFile, Sound, Typed, ServerTyped, Writer, q
  <2>2. CASE Is(p, q, "done", "none", q.content, FALSE, q.snap) /\ disk' = disk
    <3>1. SameWrites(q, p, f)
      BY <2>1, <2>2 DEF Is, SameWrites, Writer
    <3>2. QED BY <1>4, <2>1, <2>2, <3>1
  <2>3. CASE /\ Is(p, q, "done", "instrument", Program(q), TRUE, q.snap)
             /\ \/ /\ disk' = [disk EXCEPT ![q.file] = Program(q)]
                   /\ Program(q) = acked[q.file]
                \/ /\ q.file \in crossed'
                   /\ disk' \in {disk, [disk EXCEPT ![q.file] = Program(q)]}
    <3>1. p.file = q.file /\ p.later = "instrument" /\ p.content = Program(q)
      BY <2>3 DEF Is
    <3>2. CASE q.file = f
      BY <1>9, <1>10, <2>1, <2>3, <3>1, <3>2
    <3>3. CASE q.file # f
      BY <1>8, <2>1, <2>3, <3>1, <3>3
    <3>4. QED BY <3>2, <3>3
  <2>4. QED BY <1>12, <2>2, <2>3, Outcomes DEF q, p
<1>13. CASE Instrument(r) \/ Restore(r)
  <2>1. q.op = "run" /\ q.later # "none" /\ UNCHANGED acked
          /\ disk \in [Files -> Known] /\ (q.file = f => Writer(q, f))
          /\ (q.file # f => disk'[f] = disk[f])
    <3>1. q.op = "run" /\ q.file \in Files
      BY <1>1, <1>13 DEF Instrument, Restore, Sound, Calls, q
    <3>2. q.later # "none" /\ UNCHANGED acked /\ disk \in [Files -> Known]
      BY <1>13 DEF Instrument, Restore, Typed, ServerTyped, q
    <3>3. q.file # f => disk'[f] = disk[f]
      BY <1>13, <3>1, <3>2 DEF Instrument, Restore, Writes, q
    <3>4. QED BY <3>1, <3>2, <3>3 DEF Writer
  <2>2. p = Idle \/ p.file = q.file
    BY <1>13, Outcomes DEF Is, q, p
  <2>3. CASE q.file # f
    BY <1>8, <2>1, <2>2, <2>3
  <2>4. CASE q.file = f /\ Instrument(r)
    <3>1. p.later = "restore" /\ p.content = q.content
      BY <2>4, Outcomes DEF Is, q, p
    <3>2. q.content = acked[f]
      BY <1>3, <2>1, <2>4 DEF Held, q
    <3>3. Writer(p, f)
      BY <2>1, <2>4, Outcomes DEF Is, Writer, q, p
    <3>4. QED BY <1>9, <1>10, <2>1, <2>4, <3>1, <3>2, <3>3
  <2>5. CASE q.file = f /\ Restore(r)
    <3>1. ~Writer(p, f)
      BY <1>5, <2>1, <2>5, Outcomes, <1>1 DEF Is, Writer, Sound, q, p
    <3>2. disk' = [disk EXCEPT ![f] = q.content]
      BY <2>5 DEF Restore, Writes, q
    <3>3. q.content = acked[f]
      BY <1>3, <2>1, <2>5 DEF Held, q
    <3>4. QED BY <1>9, <1>10, <2>1, <2>5, <3>1, <3>2, <3>3
  <2>6. QED BY <1>13, <2>3, <2>4, <2>5
<1>14. QED
  BY <1>6, <1>7, <1>11, <1>12, <1>13 DEF Works, Fails

LEMMA WorksFresh ==
  ASSUME Typed, HeldInv, FreshInv, SnapInv, NEW r \in Requests, Works(r) \/ Fails(r)
  PROVE  FreshInv'
<1> DEFINE q == req[r]
           p == req'[r]
<1>1. /\ \A s \in Requests \ {r} : req'[s] = req[s]
      /\ q \in Calls /\ Sound(q) /\ crossed \subseteq crossed' /\ stale \subseteq stale'
  BY OtherCalls
<1> SUFFICES ASSUME NEW f \in Files, f \notin crossed' \cup stale' PROVE Fresh(f)'
  BY DEF FreshInv
<1>2. Held(f) /\ Fresh(f) /\ stale # Files
  BY <1>1 DEF HeldInv, FreshInv
<1>3. /\ record \in [Files -> Known] /\ cache \in [Files -> Known]
      /\ acked \in [Files -> Known \ {None}]
  BY DEF Typed, ServerTyped
<1>4. /\ \A s \in Requests : SameReads(req[s], req[s], f)
      /\ ~Writer(Idle, f) /\ ~Reads(Idle, f) /\ ~Puts(Idle, f)
  BY IdleIsCall DEF SameReads, Typed, Writer, Reads, Puts
<1>5. ASSUME SameReads(q, p, f), Writer(p, f) => Writer(q, f),
             acked'[f] = acked[f], record'[f] = record[f], cache'[f] = cache[f]
      PROVE  Fresh(f)'
  BY <1>1, <1>2, <1>4, <1>5, FreshCarry
<1> HIDE DEF q, p
<1>6. CASE ReadRecord(r) \/ SyncFile(r) \/ Instrument(r) \/ Restore(r) \/ LoseAnswer(r)
  <2>1. UNCHANGED <<record, cache, acked>>
    BY <1>6 DEF ReadRecord, SyncFile, Instrument, Restore, LoseAnswer
  <2>2. q.op \in {"save", "run"} /\ (q.op = "save" => q.at \in {"read", "done"})
    BY <1>1, <1>6 DEF ReadRecord, SyncFile, Instrument, Restore, LoseAnswer, Sound, Calls, q
  <2>3. p = Idle \/ (p.op = q.op /\ p.file = q.file /\ p.at # "disk")
    <3>1. CASE ReadRecord(r) \/ SyncFile(r) \/ LoseAnswer(r)
      BY <3>1, Outcomes DEF Is, LoseAnswer, q, p
    <3>2. CASE Instrument(r) \/ Restore(r)
      <4>1. p = Idle \/ (p.op = q.op /\ p.file = q.file /\ p.at \in {q.at, "done"})
        BY <3>2, Outcomes DEF Is, q, p
      <4>2. q.op = "run"
        BY <1>1, <3>2 DEF Instrument, Restore, Sound, Calls, q
      <4>3. QED BY <1>1, <4>1, <4>2 DEF Sound
    <3>3. QED BY <1>6, <3>1, <3>2
  <2>4. Writer(p, f) => Writer(q, f)
    BY <1>1, <1>4, <1>6, Outcomes DEF Is, ReadRecord, SyncFile, Instrument, Restore,
       LoseAnswer, Sound, Writer, q, p
  <2>5. SameReads(q, p, f)
    BY <1>4, <2>2, <2>3 DEF SameReads, Reads, Answered, Puts
  <2>6. QED BY <1>5, <2>1, <2>4, <2>5
<1>7. CASE GetToKeep(r)
  <2>1. q.op = "content" /\ q.at # "disk" /\ q.later = "get"
          /\ UNCHANGED <<record, cache, acked>>
    BY <1>1, <1>7 DEF GetToKeep, Sound, Calls, q
  <2>2. Is(p, q, q.at, "put", q.content, q.ok, record)
    BY <1>7, Outcomes DEF q, p
  <2>3. SameReads(q, p, f) /\ ~Writer(p, f)
    BY <2>1, <2>2 DEF Is, SameReads, Reads, Answered, Puts, Writer
  <2>4. QED BY <1>5, <2>1, <2>3
<1>8. CASE Refuse(r)
  <2>1. /\ \/ q.op = "content" /\ q.at = "disk"
           \/ q.op = "save" /\ q.at = "read"
        /\ UNCHANGED <<record, cache, acked>>
    BY <1>8 DEF Refuse, q
  <2>2. Is(p, q, "done", "none", q.content, FALSE, q.snap)
    BY <1>8, Outcomes DEF q, p
  <2>3. SameReads(q, p, f) /\ ~Writer(p, f)
    BY <2>1, <2>2 DEF Is, SameReads, Reads, Answered, Puts, Writer
  <2>4. QED BY <1>5, <2>1, <2>3
<1>9. CASE PutRecord(r)
  <2>1. /\ q.op = "save" /\ q.at = "put" /\ q.file \in Files /\ q.later = "none"
        /\ Is(p, q, "disk", q.later, q.content, q.ok, q.snap)
        /\ acked' = acked /\ cache' = [cache EXCEPT ![q.file] = q.content]
        /\ \/ record' = [q.snap EXCEPT ![q.file] = q.content]
           \/ q.file \in stale' /\ record' = record
    BY <1>1, <1>9, Outcomes DEF PutRecord, Sound, Calls, q, p
  <2>2. q.snap \in [Files -> Known] /\ q.snap = record
    BY <1>1, <1>2, <2>1 DEF Sound, SnapInv, Keeps, q
  <2>3. CASE q.file # f
    <3>1. record'[f] = record[f] /\ cache'[f] = cache[f]
      BY <1>3, <2>1, <2>2, <2>3
    <3>2. SameReads(q, p, f) /\ ~Writer(p, f)
      BY <2>1, <2>3 DEF Is, SameReads, Reads, Answered, Puts, Writer
    <3>3. QED BY <1>5, <2>1, <3>1, <3>2
  <2>4. CASE q.file = f
    <3>1. Writer(q, f) /\ Puts(p, f) /\ Writer(p, f) /\ ~Reads(p, f)
            /\ p.content = q.content
      BY <2>1, <2>4 DEF Is, Writer, Puts, Reads
    <3>2. \A s \in Requests : ~Reads(req[s], f) /\ (s # r => ~Writer(req[s], f))
      BY <1>2, <3>1 DEF Fresh, Held, q
    <3>3. record'[f] = p.content /\ cache'[f] = p.content
      BY <1>3, <2>1, <2>2, <2>4, <3>1
    <3>4. \A s \in Requests \ {r} : ~Puts(req[s], f)
      BY <3>2 DEF Puts, Writer
    <3>5. QED BY <1>1, <3>1, <3>2, <3>3, <3>4 DEF Fresh, Answered, p
  <2>5. QED BY <2>3, <2>4
<1>10. CASE SaveToContainer(r)
  <2>1. /\ q.op = "save" /\ q.at = "disk" /\ q.file \in Files /\ q.later = "none"
        /\ Is(p, q, "done", "none", q.content, TRUE, q.snap)
        /\ acked' = [acked EXCEPT ![q.file] = q.content] /\ UNCHANGED <<record, cache>>
    BY <1>1, <1>10, Outcomes DEF SaveToContainer, Sound, Calls, q, p
  <2>2. ~Writer(p, f) /\ ~Puts(p, f) /\ ~Reads(p, f)
    BY <2>1 DEF Is, Writer, Puts, Reads
  <2>3. CASE q.file # f
    <3>1. SameReads(q, p, f)
      BY <2>1, <2>2, <2>3 DEF SameReads, Answered, Puts
    <3>2. QED BY <1>3, <1>5, <2>1, <2>2, <2>3, <3>1
  <2>4. CASE q.file = f
    <3>1. Writer(q, f) /\ Puts(q, f)
      BY <2>1, <2>4 DEF Writer, Puts
    <3>2. \A s \in Requests : ~Reads(req[s], f) /\ (s # r => ~Writer(req[s], f))
      BY <1>2, <3>1 DEF Fresh, Held, q
    <3>3. /\ cache[f] = q.content /\ record[f] = q.content /\ acked'[f] = q.content
          /\ q.content # None
      BY <1>1, <1>2, <1>3, <2>1, <2>4, <3>1 DEF Fresh, Sound, q
    <3>4. \A s \in Requests \ {r} : ~Puts(req[s], f)
      BY <3>2 DEF Puts, Writer
    <3>5. QED BY <1>1, <2>1, <2>2, <3>2, <3>3, <3>4 DEF Fresh, Answered, p
  <2>5. QED BY <2>3, <2>4
<1>11. CASE ReadFromContainer(r) \/ ReadCopy(r)
  <2>1. /\ q.op = "content" /\ q.at = "disk" /\ q.later = "none"
        /\ UNCHANGED <<record, cache, acked>>
        /\ p.op = "content" /\ p.file = q.file
        /\ p.content \in {disk[q.file]} \cup ({cache[q.file], record[q.file]} \ {None})
    BY <1>1, <1>11, Outcomes DEF Is, ReadFromContainer, ReadCopy, Sound, q, p
  <2>2. ~Writer(p, f) /\ ~Puts(p, f) /\ ~Puts(q, f) /\ (q.file = f => Reads(q, f))
          /\ (Reads(p, f) => q.file = f) /\ (Answered(p, f) => q.file = f)
    BY <2>1 DEF Writer, Puts, Reads, Answered
  <2>3. CASE q.file # f
    <3>1. SameReads(q, p, f)
      BY <2>1, <2>2, <2>3 DEF SameReads, Puts
    <3>2. QED BY <1>5, <2>1, <2>2, <3>1
  <2>4. CASE q.file = f
    <3>1. \A s \in Requests : ~Writer(req[s], f) /\ ~Puts(req[s], f)
      BY <1>2, <2>2, <2>4 DEF Fresh, Puts, Writer, q
    <3>2. disk[f] = acked[f]
      BY <1>2, <3>1 DEF Held
    <3>3. /\ cache[f] \in {None, acked[f]} /\ record[f] \in {None, acked[f]}
          /\ record[f] = None => acked[f] = Starter
      BY <1>2, <3>1 DEF Fresh
    <3>4. p.content = acked'[f]
      BY <2>1, <2>4, <3>2, <3>3
    <3>5. QED BY <1>1, <1>2, <2>1, <2>2, <3>1, <3>3, <3>4 DEF Fresh, p
  <2>5. QED BY <2>3, <2>4
<1>12. CASE Keep(r)
  <2>1. /\ q.op = "content" /\ q.at # "disk" /\ q.later = "put" /\ q.file \in Files
        /\ \/ p = Idle \/ Is(p, q, q.at, "none", q.content, q.ok, q.snap)
           \/ Is(p, q, "done", "none", q.content, TRUE, q.snap)
        /\ record' = [q.snap EXCEPT ![q.file] = q.content]
        /\ UNCHANGED <<cache, acked>>
    BY <1>1, <1>12, Outcomes DEF Keep, Sound, Calls, q, p
  <2>2. q.snap \in [Files -> Known] /\ q.snap = record
    BY <1>1, <1>2, <2>1 DEF Sound, SnapInv, Keeps, q
  <2>3. SameReads(q, p, f) /\ ~Writer(p, f)
    BY <1>4, <2>1 DEF Is, SameReads, Reads, Answered, Puts, Writer
  <2>4. CASE q.file # f
    BY <1>3, <1>5, <2>1, <2>2, <2>3, <2>4
  <2>5. CASE q.file = f
    <3>1. Answered(q, f) /\ Reads(q, f)
      BY <2>1, <2>5 DEF Reads, Answered
    <3>2. q.content = acked[f] /\ \A s \in Requests : ~Writer(req[s], f) /\ ~Puts(req[s], f)
      BY <1>2, <3>1 DEF Fresh, Writer, Puts, q
    <3>3. record'[f] = acked[f] /\ acked[f] # None
      BY <1>3, <2>1, <2>2, <2>5, <3>2
    <3>4. cache'[f] \in {None, acked[f]}
      BY <1>2, <2>1, <3>2 DEF Fresh
    <3>5. \A s \in Requests : /\ ~Writer(req'[s], f) /\ ~Puts(req'[s], f)
                              /\ Answered(req'[s], f) => req'[s].content = acked[f]
      BY <1>1, <1>2, <2>3, <3>1, <3>2 DEF Fresh, SameReads, p, q
    <3>6. acked'[f] = acked[f]
      BY <2>1
    <3>7. QED BY <3>3, <3>4, <3>5, <3>6 DEF Fresh
  <2>6. QED BY <2>4, <2>5
<1>13. CASE ReadAgain(r)
  <2>1. /\ q.op = "content" /\ q.at = "disk" /\ q.file \in Files
        /\ cache[q.file] = None /\ record[q.file] = None /\ UNCHANGED <<record, acked>>
    BY <1>1, <1>13 DEF ReadAgain, Sound, q
  <2>2. PICK c \in {disk[q.file], Starter} :
          Is(p, q, "keep", "get", c, q.ok, q.snap) /\ cache' = [cache EXCEPT ![q.file] = c]
    BY <1>13, Outcomes DEF q, p
  <2>3. ~Writer(p, f) /\ ~Puts(p, f) /\ ~Puts(q, f) /\ (q.file = f => Reads(q, f))
          /\ (Reads(p, f) => q.file = f) /\ (Answered(p, f) => q.file = f)
    BY <2>1, <2>2 DEF Is, Writer, Puts, Reads, Answered
  <2>4. CASE q.file # f
    <3>1. SameReads(q, p, f) /\ cache'[f] = cache[f]
      BY <1>3, <2>1, <2>2, <2>3, <2>4 DEF SameReads, Puts
    <3>2. QED BY <1>5, <2>1, <2>3, <3>1
  <2>5. CASE q.file = f
    <3>1. \A s \in Requests : ~Writer(req[s], f) /\ ~Puts(req[s], f)
      BY <1>2, <2>3, <2>5 DEF Fresh, Puts, Writer, q
    <3>2. disk[f] = acked[f] /\ acked[f] = Starter
      BY <1>2, <2>1, <2>5, <3>1 DEF Held, Fresh
    <3>3. p.content = acked[f] /\ cache'[f] = acked[f]
      BY <1>3, <2>1, <2>2, <2>5, <3>2 DEF Is
    <3>4. QED BY <1>1, <1>2, <2>1, <2>3, <2>5, <3>1, <3>2, <3>3 DEF Fresh, p
  <2>6. QED BY <2>4, <2>5
<1>14. CASE ReadListed(r)
  <2>1. /\ q.op = "content" /\ q.at = "disk" /\ q.file # f /\ UNCHANGED <<record, acked>>
        /\ cache'[f] \in {cache[f], record[f]}
    BY <1>14 DEF ReadListed, ListFiles, q
  <2>2. PICK c : Is(p, q, "done", "none", c, TRUE, q.snap)
    BY <1>14, Outcomes DEF q, p
  <2>3. SameReads(q, p, f) /\ ~Writer(p, f)
    BY <2>1, <2>2 DEF Is, SameReads, Reads, Answered, Puts, Writer
  <2>4. QED BY <1>1, <1>2, <1>4, <2>1, <2>3, FreshCarry DEF p, q
<1>15. QED
  BY <1>6, <1>7, <1>8, <1>9, <1>10, <1>11, <1>12, <1>13, <1>14 DEF Works, Fails

LEMMA WorksSnap ==
  ASSUME Typed, SnapInv, NEW r \in Requests, Works(r) \/ Fails(r)
  PROVE  SnapInv'
<1> DEFINE q == req[r]
           p == req'[r]
<1>1. /\ \A s \in Requests \ {r} : req'[s] = req[s]
      /\ q \in Calls /\ Sound(q) /\ stale \subseteq stale' /\ stale' \subseteq Files
  BY OtherCalls
<1> SUFFICES ASSUME stale' # Files
             PROVE /\ \A s \in Requests : Keeps(req'[s]) => req'[s].snap = record'
                   /\ \A s, t \in Requests : Keeps(req'[s]) /\ Keeps(req'[t]) => s = t
  BY DEF SnapInv
<1>2. /\ \A s \in Requests : Keeps(req[s]) => req[s].snap = record
      /\ \A s, t \in Requests : Keeps(req[s]) /\ Keeps(req[t]) => s = t
  BY <1>1 DEF SnapInv
<1>3. ~Keeps(Idle)
  BY IdleIsCall DEF Keeps, Typed
<1> HIDE DEF q, p
<1>4. CASE ReadRecord(r) \/ GetToKeep(r)
  <2>1. Keeping = {} /\ record' = record
    BY <1>4 DEF ReadRecord, GetToKeep
  <2>2. p.snap = record
    BY <1>4, Outcomes DEF Is, p
  <2>3. QED BY <1>1, <2>1, <2>2, CallSets DEF p
<1>5. CASE PutRecord(r) \/ Keep(r)
  <2>1. Keeps(q)
    BY <1>5 DEF PutRecord, Keep, Keeps, q
  <2>2. ~Keeps(p)
    <3>1. CASE PutRecord(r)
      <4>1. q.op = "save" /\ Is(p, q, "disk", q.later, q.content, q.ok, q.snap)
        BY <3>1, Outcomes DEF PutRecord, q, p
      <4>2. QED BY <1>1, <4>1 DEF Sound, Is, Keeps
    <3>2. CASE Keep(r)
      <4>1. /\ q.later = "put"
            /\ \/ p = Idle \/ Is(p, q, q.at, "none", q.content, q.ok, q.snap)
               \/ Is(p, q, "done", "none", q.content, TRUE, q.snap)
        BY <3>2, Outcomes DEF Keep, q, p
      <4>2. q.op = "content"
        BY <1>1, <4>1 DEF Sound, Calls
      <4>3. QED BY <1>1, <1>3, <4>1, <4>2 DEF Sound, Is, Keeps
    <3>3. QED BY <1>5, <3>1, <3>2
  <2>3. QED BY <1>1, <1>2, <2>1, <2>2 DEF p, q
<1>6. CASE \/ SaveToContainer(r) \/ ReadFromContainer(r) \/ SyncFile(r) \/ Instrument(r)
           \/ Restore(r) \/ Refuse(r) \/ ReadCopy(r) \/ ReadAgain(r) \/ ReadListed(r)
           \/ LoseAnswer(r)
  <2>1. record' = record
    BY <1>6 DEF SaveToContainer, ReadFromContainer, SyncFile, Instrument, Restore, Refuse,
       ReadCopy, ReadAgain, ReadListed, LoseAnswer
  <2>2. Keeps(p) => Keeps(q) /\ p.snap = q.snap
    <3>1. CASE Restore(r) \/ Instrument(r) \/ LoseAnswer(r)
      BY <1>1, <1>3, <3>1, Outcomes DEF Is, Restore, Instrument, LoseAnswer, Sound, Keeps, q, p
    <3>2. CASE \/ SaveToContainer(r) \/ ReadFromContainer(r) \/ SyncFile(r) \/ Refuse(r)
               \/ ReadCopy(r) \/ ReadAgain(r) \/ ReadListed(r)
      BY <3>2, Outcomes DEF Is, Keeps, q, p
    <3>3. QED BY <1>6, <3>1, <3>2
  <2>3. QED BY <1>1, <1>2, <2>1, <2>2 DEF p, q
<1>7. QED BY <1>4, <1>5, <1>6 DEF Works, Fails

LEMMA InitHeld ==
  ASSUME Init
  PROVE  HeldInv /\ FreshInv /\ SnapInv
<1>1. Typed
  BY InitTyped
<1>2. LoadFirst \in NewCalls /\ LoadFirst.op = "content"
  BY <1>1, LoadFirstIsNew
<1>3. \A r \in Requests : req[r] = Idle \/ req[r] = LoadFirst
  BY DEF Init
<1>4. \A r \in Requests, f \in Files :
        /\ ~Writer(req[r], f) /\ ~Puts(req[r], f) /\ ~Answered(req[r], f) /\ ~Keeps(req[r])
  BY <1>1, <1>2, <1>3, IdleIsCall, NewElsewhere DEF Typed, Writer, Puts, Reads, Answered, Keeps
<1>5. \A f \in Files : /\ disk[f] = acked[f] /\ cache[f] = None /\ record[f] = None
                       /\ acked[f] = Starter
  BY DEF Init, ServerInit
<1>6. QED BY <1>4, <1>5, FilesAssumption DEF HeldInv, Held, FreshInv, Fresh, SnapInv

LEMMA StepHeld ==
  Typed /\ HeldInv /\ FreshInv /\ SnapInv /\ [Next]_vars => HeldInv' /\ FreshInv' /\ SnapInv'
<1> SUFFICES ASSUME Typed, HeldInv, FreshInv, SnapInv, [Next]_vars
             PROVE  HeldInv' /\ FreshInv' /\ SnapInv'
  OBVIOUS
<1>1. CASE UNCHANGED vars
  BY <1>1 DEF HeldInv, Held, FreshInv, Fresh, SnapInv
<1>2. CASE Next
  BY <1>2, NextForms, EditorHeld, RestartHeld, WorksHeld, WorksFresh, WorksSnap
<1>3. QED BY <1>1, <1>2

LEMMA HeldInvariant == Spec => [](Typed /\ HeldInv /\ FreshInv /\ SnapInv)
BY InitTyped, InitHeld, StepTyped, StepHeld, PTL DEF Spec

\* However many calls are in progress, the container holds the last save that
\* was acknowledged whenever nobody writes the file, unless two writers of it
\* overlapped or a write to the container failed.
THEOREM AcknowledgedAlwaysKept == Spec => []AcknowledgedIsKept
<1>1. HeldInv => AcknowledgedIsKept
  BY CallSets DEF HeldInv, Held, AcknowledgedIsKept
<1>2. QED BY <1>1, HeldInvariant, PTL

\* Every load is answered with the last save that was acknowledged, unless the
\* file was read while it was written or two lists of files overlapped.
THEOREM ServedAlwaysSaved == Spec => []ServedIsSaved
<1>1. Typed /\ FreshInv => ServedIsSaved
  <2> SUFFICES ASSUME Typed, FreshInv, NEW r \in Requests, req[r].op = "content",
                      req[r].at = "done", req[r].ok,
                      req[r].file \notin stale \cup crossed
               PROVE  req[r].content = acked[req[r].file]
    BY DEF ServedIsSaved
  <2>1. req[r].file \in Files
    BY DEF Typed, ServerTyped, Calling, Sound
  <2>2. Fresh(req[r].file) /\ Answered(req[r], req[r].file)
    BY <2>1 DEF FreshInv, Answered, Reads
  <2>3. QED BY <2>2 DEF Fresh
<1>2. QED BY <1>1, HeldInvariant, PTL

-----------------------------------------------------------------------------
(* The calls that a step of the editor begins *)

Begins(C) ==
  /\ C \subseteq NewCalls
  /\ \A s \in Requests : req'[s] = req[s] \/ (req[s].op = "none" /\ req'[s] \in C)
  /\ \A c \in C : \E n \in Requests : req[n].op = "none" /\ req'[n] = c
  /\ \A c \in C : c.op = "save" => c.file \in crossed' \/ Writing(c.file) = {}
  /\ crossed \subseteq crossed' /\ stale \subseteq stale' /\ UNCHANGED <<copies, acked>>

LEMMA BeginsOne ==
  ASSUME Typed, NEW c \in NewCalls, Starts(c)
  PROVE  Begins({c})
<1>1. PICK n \in Requests : /\ req[n].op = "none" /\ req'[n] = c
                            /\ \A s \in Requests \ {n} : req'[s] = req[s]
  BY Starting
<1>2. /\ c.op = "save" => c.file \in crossed' \/ Writing(c.file) = {}
      /\ crossed \subseteq crossed' /\ stale \subseteq stale'
  <2>1. c.op = "save" => c.file \in Files
    BY DEF NewCalls, Sound
  <2>2. QED BY <2>1 DEF Starts, Send, Meets
<1>3. QED BY <1>1, <1>2 DEF Begins, Starts

LEMMA BeginsTwo ==
  ASSUME Typed, NEW c \in NewCalls, NEW d \in NewCalls, StartsBoth(c, d)
  PROVE  Begins({c, d})
<1>1. PICK n, m \in Requests :
        /\ n # m /\ req[n].op = "none" /\ req'[n] = c /\ req[m].op = "none" /\ req'[m] = d
        /\ \A s \in Requests \ {n, m} : req'[s] = req[s]
  BY StartingBoth
<1>2. /\ c.op = "save" /\ d.op = "content" /\ c.file \in Files
      /\ c.file \in crossed' \/ Writing(c.file) = {}
      /\ crossed \subseteq crossed' /\ stale \subseteq stale'
  <2>1. c.op = "save" /\ d.op = "content" /\ c.file \in Files
    BY DEF StartsBoth, NewCalls, Sound
  <2>2. QED BY <2>1 DEF StartsBoth, SendBoth
<1>3. QED BY <1>1, <1>2 DEF Begins, StartsBoth

LEMMA BeginsNone ==
  ASSUME Nothing
  PROVE  Begins({})
BY DEF Nothing, Begins

LEMMA SelectBegins ==
  ASSUME Typed, NEW f \in Files, Select(f)
  PROVE  \E C : /\ Begins(C)
                /\ \A c \in C : \/ /\ c.op = "save" /\ c.file = active
                                   /\ c.content = text[active] /\ text[active] # None
                                \/ /\ c.op = "content" /\ c.file = f
                                   /\ ~(f \in loaded /\ text[f] # None)
                /\ LeavesDirty(active) => \E c \in C : c.op = "save"
<1> DEFINE save == Call("save", active, text[active], "switch")
           load == Call("content", f, None, "load")
           loads == ~(f \in loaded /\ text[f] # None) /\ Loads(f) = {}
<1>1. active \in Files /\ text[active] \in Known /\ None \in Known
      /\ (active = f /\ LeavesDirty(active) => ~loads)
  BY KnownFacts DEF Typed, EditorTyped, Counted, LeavesDirty
<1>2. LeavesDirty(active) => /\ save \in NewCalls /\ save.op = "save" /\ save.file = active
                             /\ save.content = text[active]
  BY <1>1, CallIsNew DEF Typed, LeavesDirty
<1>3. load \in NewCalls /\ load.op = "content" /\ load.file = f
  BY <1>1, CallIsNew DEF Typed
<1>4. UNCHANGED <<copies, acked>>
  BY DEF Select, Sends
<1> HIDE DEF save, load, loads
<1>5. \/ LeavesDirty(active) /\ loads /\ SendBoth(save, load)
      \/ LeavesDirty(active) /\ ~loads /\ Send(save)
      \/ ~LeavesDirty(active) /\ loads /\ Send(load)
      \/ ~LeavesDirty(active) /\ ~loads /\ UNCHANGED <<req, crossed, stale>>
  BY DEF Select, save, load, loads
<1>6. LeavesDirty(active) => text[active] # None
  BY DEF LeavesDirty
<1>7. loads => ~(f \in loaded /\ text[f] # None)
  BY DEF loads
<1>8. CASE LeavesDirty(active) /\ loads /\ SendBoth(save, load)
  <2>1. Begins({save, load})
    BY <1>1, <1>2, <1>3, <1>4, <1>8, BeginsTwo DEF StartsBoth
  <2>2. QED BY <1>2, <1>3, <1>6, <1>7, <1>8, <2>1
<1>9. CASE LeavesDirty(active) /\ ~loads /\ Send(save)
  <2>1. Begins({save})
    BY <1>2, <1>4, <1>9, BeginsOne DEF Starts
  <2>2. QED BY <1>2, <1>6, <1>9, <2>1
<1>10. CASE ~LeavesDirty(active) /\ loads /\ Send(load)
  <2>1. Begins({load})
    BY <1>3, <1>4, <1>10, BeginsOne DEF Starts
  <2>2. QED BY <1>3, <1>7, <1>10, <2>1
<1>11. CASE ~LeavesDirty(active) /\ ~loads /\ UNCHANGED <<req, crossed, stale>>
  <2>1. Begins({})
    BY <1>4, <1>11, BeginsNone DEF Nothing
  <2>2. QED BY <1>11, <2>1
<1>12. QED BY <1>5, <1>8, <1>9, <1>10, <1>11

\* What else the editor sends is one save of what is in the file in view, or a run.
SavesOf(f, k, C) ==
  \E c : C = {c} /\ c.op = "save" /\ c.file = f /\ c.content = k /\ k # None

LEMMA ButtonBegins ==
  ASSUME Typed, NEW f \in Files
  PROVE  /\ PressSave(f) => \E C : Begins(C) /\ SavesOf(f, Value(f), C)
         /\ PressRun(f) =>
              \E C : Begins(C) /\ ((C = {} /\ f \notin dirty) \/ SavesOf(f, Code(f), C))
<1> DEFINE a == Call("save", f, Value(f), "button")
           b == Call("save", f, Code(f), "run")
<1>1. Value(f) \in Known /\ Code(f) \in Known \ {None}
  BY CodeKnown, ValueKnown
<1>2. /\ Value(f) # None =>
           a \in NewCalls /\ a.op = "save" /\ a.file = f /\ a.content = Value(f)
      /\ b \in NewCalls /\ b.op = "save" /\ b.file = f /\ b.content = Code(f)
  BY <1>1, CallIsNew DEF Typed
<1> HIDE DEF a, b
<1>3. ASSUME PressSave(f) PROVE \E C : Begins(C) /\ SavesOf(f, Value(f), C)
  <2>1. Starts(a) /\ Value(f) # None
    BY <1>3 DEF PressSave, Starts, a
  <2>2. Begins({a})
    BY <1>2, <2>1, BeginsOne
  <2>3. SavesOf(f, Value(f), {a})
    BY <1>2, <2>1 DEF SavesOf
  <2>4. QED BY <2>2, <2>3
<1>4. ASSUME PressRun(f)
      PROVE  \E C : Begins(C) /\ ((C = {} /\ f \notin dirty) \/ SavesOf(f, Code(f), C))
  <2>1. \/ Starts(b)
        \/ (f \notin dirty /\ Nothing)
    BY <1>4, PressRunForm DEF Starts, Nothing, b
  <2>2. CASE Starts(b)
    <3>1. Begins({b}) /\ SavesOf(f, Code(f), {b})
      BY <1>1, <1>2, <2>2, BeginsOne DEF SavesOf
    <3>2. QED BY <3>1
  <2>3. CASE f \notin dirty /\ Nothing
    BY <2>3, BeginsNone
  <2>4. QED BY <2>1, <2>2, <2>3
<1>5. QED BY <1>3, <1>4

LEMMA OtherBegins ==
  ASSUME Typed
  PROVE  /\ TypeSomething \/ Draw \/ TogglePreview => Begins({})
         /\ ChooseMode => \E C : Begins(C) /\ \A c \in C : c.op = "run"
         /\ AutoSave =>
              \E C : /\ Begins(C)
                     /\ \/ C = {} /\ Value(active) \in {None, lastSaved[active]}
                        \/ \E c : /\ C = {c} /\ c.op = "save" /\ c.file = active
                                  /\ c.content = Value(active) /\ c.content # None
<1>1. TypeSomething \/ Draw \/ TogglePreview => Begins({})
  BY BeginsNone DEF TypeSomething, Type, Draw, TogglePreview, Nothing
<1>2. ASSUME ChooseMode PROVE \E C : Begins(C) /\ \A c \in C : c.op = "run"
  <2> DEFINE c == Call("run", running.file, running.content, "run")
  <2>1. running.file \in Files /\ running.content \in Known
    BY <1>2 DEF ChooseMode, Typed, EditorTyped
  <2>2. c \in NewCalls /\ c.op = "run"
    BY <2>1, CallIsNew DEF Typed
  <2>3. Starts(c) \/ Nothing
    BY <1>2 DEF ChooseMode, Sends, Starts, Nothing
  <2> HIDE DEF c
  <2>4. Begins({c}) \/ Begins({})
    BY <2>2, <2>3, BeginsOne, BeginsNone
  <2>5. QED BY <2>2, <2>4
<1>3. ASSUME AutoSave
      PROVE  \E C : /\ Begins(C)
                    /\ \/ C = {} /\ Value(active) \in {None, lastSaved[active]}
                       \/ \E c : /\ C = {c} /\ c.op = "save" /\ c.file = active
                                 /\ c.content = Value(active) /\ c.content # None
  <2> DEFINE c == Call("save", active, Value(active), "timer")
  <2>1. active \in Files /\ Value(active) \in Known
    BY ValueKnown DEF Typed, EditorTyped
  <2>2. Value(active) # None => /\ c \in NewCalls /\ c.op = "save" /\ c.file = active
                                /\ c.content = Value(active) /\ c.content # None
    BY <2>1, CallIsNew DEF Typed
  <2>3. \/ Value(active) # None /\ Starts(c)
        \/ Value(active) \in {None, lastSaved[active]} /\ Nothing
    BY <1>3 DEF AutoSave, Sends, Starts, Nothing
  <2> HIDE DEF c
  <2>4. CASE Value(active) # None /\ Starts(c)
    <3>1. Begins({c})
      BY <2>2, <2>4, BeginsOne
    <3>2. QED BY <2>2, <2>4, <3>1
  <2>5. CASE Value(active) \in {None, lastSaved[active]} /\ Nothing
    BY <2>5, BeginsNone
  <2>6. QED BY <2>3, <2>4, <2>5
<1>4. QED BY <1>1, <1>2, <1>3

-----------------------------------------------------------------------------
(* What the editor knows of a file *)

SaveOf(q, f) == q.op = "save" /\ q.file = f
LiveSave(q, f) == SaveOf(q, f) /\ q.by # "gone"
LeftSave(q, f) == SaveOf(q, f) /\ q.by = "gone" /\ q.at # "done"
LiveLoad(q, f) == q.op = "content" /\ q.file = f /\ q.at # "taken" /\ q.by # "gone"
Done(q) == q.at = "done" /\ q.ok

LEMMA CallsOfEditor ==
  ASSUME Typed, NEW f
  PROVE  /\ Of(f, {"save"}) = {r \in Requests : SaveOf(req[r], f)}
         /\ Saves(f) = {r \in Requests : LiveSave(req[r], f)}
         /\ Loads(f) = {r \in Requests : LiveLoad(req[r], f)}
         /\ \A r \in Requests : LeftSave(req[r], f) => r \in Writing(f)
<1>1. \A r \in Requests : req[r] \in Calls /\ Sound(req[r])
  BY DEF Typed, ServerTyped, Calling
<1>2. QED
  BY <1>1 DEF Of, Saves, Loads, Writing, SaveOf, LiveSave, LeftSave, LiveLoad, Sound

\* Nothing that is loaded, saved or in the container is None.
Filled(q) ==
  \/ q.op = "save"
  \/ q.later \in {"instrument", "restore"}
  \/ q.op = "content" /\ (Done(q) \/ q.at = "keep")
  => q.content # None
ServerFilled == /\ \A f \in Files : disk[f] # None
                /\ \A r \in Requests : Filled(req[r])
PageFilled == /\ \A f \in loaded : text[f] # None
              /\ timer => active \in loaded

\* What the page has drawn is no more than what there is to draw.
DrawnInv == /\ drawn[1] = active /\ drawn[4] = isSaving /\ drawn[3] \subseteq loaded
            /\ \A f \in Files : wrote[f] # None => f \in loaded

\* What counts as saved is what the server has, or a save is on its way.
Last(f) ==
  /\ \A r, s \in Requests :
       LeftSave(req[r], f) => lastSaved[f] = None /\ ~LiveSave(req[s], f)
  /\ f \notin unsaved => \/ lastSaved[f] \in {None, acked[f]}
                         \/ \E r \in Requests : LiveSave(req[r], f)
LastInv == \A f \in Files : f \notin stale \cup crossed => Last(f)

\* An edit that is not known to be lost is in the page and in every save, and
\* has been saved, is being saved or will be.
Pending(f) == active = f /\ f \in dirty /\ (timer \/ drawn # Drawing \/ isSaving)
Safe(f) ==
  \/ acked[f] = wrote[f] \/ \E r \in Requests : LiveSave(req[r], f)
  \/ lastSaved[f] = wrote[f] /\ f \in stale \cup crossed
Secure(f) ==
  /\ text[f] = wrote[f] /\ (wrote[f] = Blank => lastSaved[f] = Blank)
  /\ \A r \in Requests : ~LiveLoad(req[r], f)
  /\ \A r \in Requests :
       SaveOf(req[r], f) => /\ req[r].content = wrote[f]
                            /\ Done(req[r]) => acked[f] = wrote[f]
  /\ Safe(f) \/ Pending(f)
SecureInv == \A f \in Files : f \notin unsaved /\ wrote[f] # None => Secure(f)

Editing == ServerFilled /\ PageFilled /\ DrawnInv /\ LastInv /\ SecureInv

\* Call q becomes p: the saves of f stay, or there is a new one of k.
SameSave(q, p, f) ==
  /\ SaveOf(p, f) => /\ SaveOf(q, f) /\ p.content = q.content /\ p.by = q.by
                     /\ Done(p) => Done(q)
                     /\ p.at # "done" => q.at # "done"
  /\ LiveSave(q, f) => LiveSave(p, f)
NewSave(q, p, f, k) == ~SaveOf(q, f) /\ LiveSave(p, f) /\ p.content = k /\ p.at = "read"
SavesSame(f) == \A s \in Requests : SameSave(req[s], req'[s], f)
SavesMore(f, k) ==
  /\ \A s \in Requests : SameSave(req[s], req'[s], f) \/ NewSave(req[s], req'[s], f, k)
  /\ \E s \in Requests : NewSave(req[s], req'[s], f, k)
  /\ f \in crossed' \/ \A s \in Requests : ~LeftSave(req[s], f)
LoadsSame(f) == \A s \in Requests : LiveLoad(req'[s], f) => LiveLoad(req[s], f)

LEMMA LastSame ==
  ASSUME NEW f \in Files, f \notin stale' \cup crossed', LastInv,
         stale \subseteq stale', crossed \subseteq crossed', SavesSame(f),
         lastSaved'[f] = lastSaved[f], acked'[f] = acked[f], f \notin unsaved' => f \notin unsaved
  PROVE  Last(f)'
<1>1. Last(f)
  BY DEF LastInv
<1>2. \A s \in Requests : /\ LeftSave(req'[s], f) => LeftSave(req[s], f)
                          /\ LiveSave(req'[s], f) <=> LiveSave(req[s], f)
  BY DEF SavesSame, SameSave, LeftSave, LiveSave
<1>3. QED BY <1>1, <1>2 DEF Last

LEMMA LastMore ==
  ASSUME NEW f \in Files, f \notin crossed', NEW k, SavesMore(f, k)
  PROVE  Last(f)'
<1>1. \A s \in Requests : ~LeftSave(req'[s], f)
  BY DEF SavesMore, SameSave, NewSave, LeftSave, LiveSave
<1>2. \E s \in Requests : LiveSave(req'[s], f)
  BY DEF SavesMore, NewSave
<1>3. QED BY <1>1, <1>2 DEF Last

LEMMA LastSafe ==
  ASSUME LastInv, NEW f \in Files, f \notin unsaved, lastSaved[f] = wrote[f], wrote[f] # None
  PROVE  Safe(f)
BY DEF LastInv, Last, Safe

LEMMA SecureSame ==
  ASSUME NEW f \in Files, Secure(f), SavesSame(f), LoadsSame(f),
         text'[f] = text[f], wrote'[f] = wrote[f], acked'[f] = acked[f],
         lastSaved'[f] = lastSaved[f], stale \subseteq stale', crossed \subseteq crossed',
         Pending(f) => Safe(f) \/ Pending(f)'
  PROVE  Secure(f)'
<1>1. \A s \in Requests : ~LiveLoad(req'[s], f)
  BY DEF Secure, LoadsSame
<1>2. \A s \in Requests :
        SaveOf(req'[s], f) => /\ req'[s].content = wrote'[f]
                              /\ Done(req'[s]) => acked'[f] = wrote'[f]
  BY DEF Secure, SavesSame, SameSave
<1>3. (\E r \in Requests : LiveSave(req[r], f)) => \E r \in Requests : LiveSave(req'[r], f)
  BY DEF SavesSame, SameSave
<1>4. Safe(f)' \/ Pending(f)'
  BY <1>3 DEF Secure, Safe
<1>5. QED BY <1>1, <1>2, <1>4 DEF Secure

LEMMA SecureMore ==
  ASSUME NEW f \in Files, Secure(f), SavesMore(f, wrote[f]), LoadsSame(f),
         text'[f] = text[f], wrote'[f] = wrote[f], acked'[f] = acked[f],
         lastSaved'[f] = lastSaved[f]
  PROVE  Secure(f)'
<1>1. \A s \in Requests : ~LiveLoad(req'[s], f)
  BY DEF Secure, LoadsSame
<1>2. \A s \in Requests :
        SaveOf(req'[s], f) => /\ req'[s].content = wrote'[f]
                              /\ Done(req'[s]) => acked'[f] = wrote'[f]
  BY DEF Secure, SavesMore, SameSave, NewSave, Done
<1>3. Safe(f)'
  BY DEF Safe, SavesMore, NewSave
<1>4. QED BY <1>1, <1>2, <1>3 DEF Secure

LEMMA BeginsEffect ==
  ASSUME Typed, NEW C, Begins(C), NEW f \in Files
  PROVE  /\ (\A c \in C : ~SaveOf(c, f)) => SavesSame(f)
         /\ \A k : (\A c \in C : SaveOf(c, f) => c.content = k) /\ (\E c \in C : SaveOf(c, f))
                     => SavesMore(f, k)
         /\ (\A c \in C : ~(c.op = "content" /\ c.file = f)) => LoadsSame(f)
<1>1. \A s \in Requests : req'[s] = req[s] \/ (req[s].op = "none" /\ req'[s] \in C)
  BY DEF Begins
<1>2. \A q : SameSave(q, q, f)
  BY DEF SameSave
<1>3. \A q, c : q.op = "none" /\ ~SaveOf(c, f) => SameSave(q, c, f)
  BY DEF SameSave, SaveOf, LiveSave
<1>4. \A q, c : q.op = "none" /\ c \in C /\ SaveOf(c, f) => NewSave(q, c, f, c.content)
  BY DEF Begins, NewCalls, NewSave, SaveOf, LiveSave
<1>5. (\A c \in C : ~SaveOf(c, f)) => SavesSame(f)
  BY <1>1, <1>2, <1>3 DEF SavesSame
<1>6. ASSUME NEW k, \A c \in C : SaveOf(c, f) => c.content = k, NEW c \in C, SaveOf(c, f)
      PROVE  SavesMore(f, k)
  <2>1. \A s \in Requests : SameSave(req[s], req'[s], f) \/ NewSave(req[s], req'[s], f, k)
    BY <1>1, <1>2, <1>3, <1>4, <1>6
  <2>2. \E s \in Requests : NewSave(req[s], req'[s], f, k)
    BY <1>4, <1>6 DEF Begins
  <2>3. f \in crossed' \/ Writing(f) = {}
    BY <1>6 DEF Begins, SaveOf
  <2>4. QED BY <2>1, <2>2, <2>3, CallsOfEditor DEF SavesMore
<1>7. (\A c \in C : ~(c.op = "content" /\ c.file = f)) => LoadsSame(f)
  BY <1>1 DEF LoadsSame, LiveLoad
<1>8. QED BY <1>5, <1>6, <1>7

LEMMA BeginsFilled ==
  ASSUME NEW C, Begins(C), ServerFilled, \A c \in C : c.op = "save" => c.content # None
  PROVE  ServerFilled'
<1>1. \A c \in C : Filled(c)
  BY DEF Begins, NewCalls, Filled, Done
<1>2. \A s \in Requests : Filled(req'[s])
  BY <1>1 DEF Begins, ServerFilled
<1>3. QED BY <1>2 DEF ServerFilled, Begins

LEMMA DrawsWhat ==
  ASSUME Typed, PageFilled, DrawnInv, NEW marks, Draws(marks), loaded \subseteq loaded'
  PROVE  /\ drawn'[1] = active' /\ drawn'[4] = isSaving' /\ drawn'[3] = loaded'
         /\ timer' => active' \in loaded'
<1>1. drawn' = Drawing' /\ timer' = IF drawn' = drawn THEN timer ELSE
                              drawn' # drawn /\ Watched' /\ active' \in marks /\ Edited'
  BY DEF Draws
<1>2. drawn'[1] = active' /\ drawn'[4] = isSaving' /\ drawn'[3] = loaded'
  BY <1>1 DEF Drawing
<1>3. QED BY <1>1, <1>2 DEF DrawnInv, PageFilled, Watched

\* A dirty file in view is saved after 1.2 seconds, or it holds what counts as saved.
LEMMA DrawsPending ==
  ASSUME Typed, DrawnInv, NEW f \in Files, NEW marks, Draws(marks), loaded \subseteq loaded',
         active' = active, text'[f] = text[f], f \in marks, f \in loaded, Pending(f)
  PROVE  lastSaved'[f] = text'[f] \/ Pending(f)'
<1>1. /\ drawn' = Drawing' /\ active = f
      /\ timer' = IF drawn' = drawn THEN timer ELSE
                              drawn' # drawn /\ Watched' /\ active' \in marks /\ Edited'
      /\ dirty' = IF drawn' # drawn /\ Watched' /\ active' \in marks /\ ~Edited'
                  THEN marks \ {active'} ELSE marks
  BY DEF Draws, Pending
<1>2. CASE drawn' # drawn
  <2>1. ~isSaving' => Watched'
    BY <1>1 DEF Watched
  <2>2. QED BY <1>1, <1>2, <2>1 DEF Pending, Edited, Watched
<1>3. CASE drawn' = drawn
  <2>1. f \in dirty' /\ timer' = timer /\ active' = f
    BY <1>1, <1>3
  <2>2. loaded' = drawn[3] /\ isSaving' = drawn[4] /\ text'[active'] = drawn[2]
    BY <1>1, <1>3 DEF Drawing
  <2>3. loaded = drawn[3] /\ isSaving = drawn[4] /\ text[active] = drawn[2] /\ active = drawn[1]
    BY <1>1, <2>1, <2>2 DEF DrawnInv
  <2>4. drawn = Drawing
    BY <2>3 DEF Drawing, Typed, EditorTyped
  <2>5. timer' \/ isSaving'
    BY <2>1, <2>2, <2>3, <2>4 DEF Pending
  <2>6. QED BY <2>1, <2>5 DEF Pending
<1>4. QED BY <1>2, <1>3

-----------------------------------------------------------------------------
(* The student's steps *)

LEMMA TypeKeeps ==
  ASSUME Typed, Editing, TypeSomething
  PROVE  Editing'
<1>0. PICK g \in Files : \E c :
        Type(g, c) /\ (c = Starter + typed + 1 \/ (lastSaved[g] # None /\ c = lastSaved[g]))
  BY DEF TypeSomething
<1>1. PICK c :
        Type(g, c) /\ (c = Starter + typed + 1 \/ (lastSaved[g] # None /\ c = lastSaved[g]))
  BY <1>0
<1>2. /\ Begins({}) /\ active = g /\ text' = [text EXCEPT ![g] = c]
      /\ loaded' = loaded \cup {g} /\ dirty' = dirty \cup {g}
      /\ wrote' = [wrote EXCEPT ![g] = c]
      /\ UNCHANGED <<copies, req, acked, crossed, stale, lastSaved, active, isSaving, drawn, timer>>
      /\ unsaved \subseteq unsaved' /\ unsaved' \subseteq unsaved \cup {g}
      /\ g \notin unsaved' => Of(g, {"save"}) = {} /\ Loads(g) = {}
  BY <1>1, OtherBegins DEF Type, Ready
<1>3. /\ text \in [Files -> Known] /\ wrote \in [Files -> Known] /\ drawn[2] \in Known
      /\ typed \in Nat
  BY DEF Typed, EditorTyped, Counted
<1>4. c # None /\ (c = Blank => lastSaved[g] = Blank)
  BY <1>1, <1>3 DEF Starter, None, Blank
<1>5. \A f \in Files : SavesSame(f) /\ LoadsSame(f)
  BY <1>2, BeginsEffect
<1>6. ServerFilled'
  BY <1>2, BeginsFilled DEF Editing
<1>7. PageFilled'
  BY <1>2, <1>3, <1>4 DEF Editing, PageFilled, Typed, EditorTyped
<1>8. DrawnInv'
  BY <1>2, <1>3 DEF Editing, DrawnInv
<1>9. LastInv'
  BY <1>2, <1>5, LastSame DEF Editing, LastInv
<1>10. SecureInv'
  <2> SUFFICES ASSUME NEW f \in Files, f \notin unsaved', wrote'[f] # None PROVE Secure(f)'
    BY DEF SecureInv
  <2>1. CASE f # g
    <3>1. Secure(f) /\ ~Pending(f)
      BY <1>2, <1>3, <2>1 DEF Editing, SecureInv, Pending
    <3>2. text'[f] = text[f] /\ wrote'[f] = wrote[f]
      BY <1>2, <1>3, <2>1
    <3>3. QED BY <1>2, <1>5, <3>1, <3>2, SecureSame
  <2>2. CASE f = g
    <3>1. \A r \in Requests : ~SaveOf(req'[r], f) /\ ~LiveLoad(req'[r], f)
      BY <1>2, <2>2, CallsOfEditor
    <3>2. /\ text'[f] = c /\ wrote'[f] = c /\ f \in dirty' /\ active' = f
          /\ lastSaved'[f] = lastSaved[f] /\ (c = Blank => lastSaved[f] = Blank)
      BY <1>2, <1>3, <1>4, <2>2
    <3>3. CASE c = Starter + typed + 1
      <4>1. drawn'[2] # text'[active']
        BY <1>2, <1>3, <3>2, <3>3, KnownFacts
      <4>2. drawn' # Drawing'
        BY <4>1 DEF Drawing
      <4>3. QED BY <3>1, <3>2, <4>2 DEF Secure, Pending
    <3>4. CASE lastSaved[g] # None /\ c = lastSaved[g]
      <4>1. CASE f \in stale \cup crossed
        BY <1>2, <2>2, <3>1, <3>2, <3>4, <4>1 DEF Secure, Safe
      <4>2. CASE f \notin stale \cup crossed
        <5>1. Last(f) /\ f \notin unsaved
          BY <1>2, <4>2 DEF Editing, LastInv
        <5>2. \A r \in Requests : ~LiveSave(req[r], f)
          BY <1>2, <3>1 DEF LiveSave
        <5>3. acked[f] = c
          BY <2>2, <3>4, <5>1, <5>2 DEF Last
        <5>4. QED BY <1>2, <3>1, <3>2, <5>3 DEF Secure, Safe
      <4>3. QED BY <4>1, <4>2
    <3>5. QED BY <1>1, <3>3, <3>4
  <2>3. QED BY <2>1, <2>2
<1>11. QED BY <1>6, <1>7, <1>8, <1>9, <1>10 DEF Editing

\* A step that begins C, with a save of k for the file in view, and leaves what
\* is in the files and what counts as saved as it is.
LEMMA BeginsKeep ==
  ASSUME Typed, Editing, NEW C, Begins(C), NEW k,
         unsaved' \in {unsaved, unsaved \cup {active}},
         active \notin unsaved' /\ wrote[active] # None => k = text[active],
         \A c \in C : c.op = "save" => c.file = active /\ c.content = k /\ k # None,
         \A c \in C : c.op = "content" => wrote[c.file] = None,
         UNCHANGED <<text, wrote, lastSaved>>,
         PageFilled', DrawnInv',
         \A f \in Files : f \notin unsaved' /\ wrote[f] # None /\ Secure(f) /\ Pending(f)
                           => Safe(f) \/ Pending(f)' \/ \E c \in C : c.op = "save"
  PROVE  Editing'
<1>1. ServerFilled'
  BY BeginsFilled DEF Editing
<1>2. UNCHANGED <<copies, acked>> /\ stale \subseteq stale' /\ crossed \subseteq crossed'
  BY DEF Begins
<1>3. ASSUME NEW f \in Files
      PROVE  \/ SavesSame(f) /\ (f = active => \A c \in C : c.op # "save")
             \/ f = active /\ SavesMore(f, k)
  <2>1. CASE \A c \in C : ~SaveOf(c, f)
    BY <2>1, BeginsEffect DEF SaveOf
  <2>2. CASE \E c \in C : SaveOf(c, f)
    BY <2>2, BeginsEffect DEF SaveOf
  <2>3. QED BY <2>1, <2>2
<1>4. LastInv'
  BY <1>2, <1>3, LastSame, LastMore DEF Editing, LastInv
<1>5. SecureInv'
  <2> SUFFICES ASSUME NEW f \in Files, f \notin unsaved', wrote[f] # None PROVE Secure(f)'
    BY DEF SecureInv
  <2>1. Secure(f) /\ text[f] = wrote[f]
    BY DEF Editing, SecureInv, Secure
  <2>2. LoadsSame(f)
    BY BeginsEffect
  <2>3. CASE SavesSame(f) /\ (f = active => \A c \in C : c.op # "save")
    <3>1. Pending(f) => f = active
      BY DEF Pending
    <3>2. Pending(f) => Safe(f) \/ Pending(f)'
      BY <2>1, <2>3, <3>1
    <3>3. QED BY <1>2, <2>1, <2>2, <2>3, <3>2, SecureSame
  <2>4. CASE f = active /\ SavesMore(f, k)
    BY <1>2, <2>1, <2>2, <2>4, SecureMore
  <2>5. QED BY <1>3, <2>3, <2>4
<1>6. QED BY <1>1, <1>4, <1>5 DEF Editing

LEMMA SelectKeeps ==
  ASSUME Typed, Editing, NEW f \in Files, Select(f)
  PROVE  Editing'
<1>1. PICK C : /\ Begins(C)
               /\ \A c \in C : \/ /\ c.op = "save" /\ c.file = active
                                  /\ c.content = text[active] /\ text[active] # None
                               \/ /\ c.op = "content" /\ c.file = f
                                  /\ ~(f \in loaded /\ text[f] # None)
               /\ LeavesDirty(active) => \E c \in C : c.op = "save"
  BY SelectBegins
<1>2. /\ UNCHANGED <<text, wrote, lastSaved, unsaved>> /\ Draws(dirty) /\ active' = f
      /\ loaded' = loaded \cup {g \in {f} : text[g] # None}
  BY DEF Select
<1>3. PageFilled /\ DrawnInv /\ active \in Files /\ wrote \in [Files -> Known]
  BY DEF Editing, Typed, EditorTyped
<1>4. f \notin loaded \/ text[f] = None => wrote[f] = None
  BY <1>3 DEF PageFilled, DrawnInv
<1>5. PageFilled' /\ DrawnInv'
  BY <1>2, <1>3, DrawsWhat DEF PageFilled, DrawnInv
<1>6. \A g \in Files : wrote[g] # None /\ Pending(g) => \E c \in C : c.op = "save"
  <2>1. \A g \in Files : wrote[g] # None /\ Pending(g) => LeavesDirty(active)
    BY <1>3 DEF Pending, LeavesDirty, DrawnInv, PageFilled
  <2>2. QED BY <1>1, <2>1
<1>7. QED BY <1>1, <1>2, <1>4, <1>5, <1>6, BeginsKeep

LEMMA ButtonKeeps ==
  ASSUME Typed, Editing, NEW f \in Files, PressSave(f) \/ PressRun(f)
  PROVE  Editing'
<1>1. PageFilled /\ DrawnInv /\ f \in Files /\ wrote \in [Files -> Known] /\ active = f
  BY PressRunForm DEF Editing, Typed, EditorTyped, PressSave, Ready
<1>2. CASE PressSave(f)
  <2>1. PICK C : Begins(C) /\ SavesOf(f, Value(f), C)
    BY <1>2, ButtonBegins
  <2>2. /\ UNCHANGED <<text, wrote, lastSaved, active, loaded>> /\ Draws(dirty)
        /\ unsaved' \in {unsaved, unsaved \cup {f}} /\ (f \notin unsaved' => Value(f) = text[f])
    BY <1>2 DEF PressSave, Blanks
  <2>3. PageFilled' /\ DrawnInv'
    BY <1>1, <2>2, DrawsWhat DEF PageFilled, DrawnInv
  <2>4. QED BY <1>1, <2>1, <2>2, <2>3, BeginsKeep DEF SavesOf
<1>3. CASE PressRun(f)
  <2> DEFINE code == Code(f)
  <2>1. PICK C : Begins(C) /\ ((C = {} /\ f \notin dirty) \/ SavesOf(f, code, C))
    BY <1>3, ButtonBegins
  <2>2. UNCHANGED <<text, loaded, dirty, lastSaved, active, isSaving, drawn, timer, userVars>>
    BY <1>3, PressRunForm
  <2>3. PageFilled' /\ DrawnInv'
    BY <1>1, <2>2 DEF PageFilled, DrawnInv
  <2>4. f \notin unsaved /\ wrote[f] # None => code = text[f]
    BY DEF Editing, SecureInv, Secure, Code
  <2> HIDE DEF code
  <2>5. CASE C = {} /\ f \notin dirty
    <3>1. \A g \in Files : ~Pending(g)
      BY <1>1, <2>5 DEF Pending
    <3>2. QED BY <1>1, <2>1, <2>2, <2>3, <2>4, <2>5, <3>1, BeginsKeep
  <2>6. CASE SavesOf(f, code, C)
    BY <1>1, <2>1, <2>2, <2>3, <2>4, <2>6, BeginsKeep DEF SavesOf
  <2>7. QED BY <2>1, <2>5, <2>6
<1>4. QED BY <1>2, <1>3

LEMMA ChooseKeeps ==
  ASSUME Typed, Editing, ChooseMode \/ TogglePreview
  PROVE  Editing'
<1>1. PICK C : Begins(C) /\ \A c \in C : c.op = "run"
  BY OtherBegins
<1>2. UNCHANGED <<text, loaded, dirty, lastSaved, active, isSaving, drawn, timer, userVars>>
  BY DEF ChooseMode, TogglePreview
<1>3. PageFilled' /\ DrawnInv'
  BY <1>2 DEF Editing, PageFilled, DrawnInv
<1>4. \A g \in Files : Pending(g) => Pending(g)'
  BY <1>2 DEF Pending, Drawing
<1>5. QED BY <1>1, <1>2, <1>3, <1>4, BeginsKeep

LEMMA DrawKeeps ==
  ASSUME Typed, Editing, Draw
  PROVE  Editing'
<1>1. Begins({}) /\ Draws(dirty)
        /\ UNCHANGED <<text, loaded, lastSaved, active, isSaving, userVars>>
  BY OtherBegins DEF Draw
<1>2. PageFilled /\ DrawnInv /\ LastInv /\ SecureInv
  BY DEF Editing
<1>3. PageFilled' /\ DrawnInv'
  BY <1>1, <1>2, DrawsWhat DEF PageFilled, DrawnInv
<1>4. ASSUME NEW f \in Files, f \notin unsaved, wrote[f] # None, Secure(f), Pending(f)
      PROVE  Safe(f) \/ Pending(f)'
  <2>1. f \in loaded /\ f \in dirty /\ active' = active /\ text'[f] = text[f]
    BY <1>1, <1>2, <1>4 DEF DrawnInv, Pending
  <2>2. lastSaved'[f] = text'[f] \/ Pending(f)'
    BY <1>1, <1>2, <1>4, <2>1, DrawsPending
  <2>3. QED BY <1>1, <1>2, <1>4, <2>2, LastSafe DEF Secure
<1>5. QED BY <1>1, <1>3, <1>4, BeginsKeep

LEMMA AutoSaveKeeps ==
  ASSUME Typed, Editing, AutoSave
  PROVE  Editing'
<1>1. PICK C : /\ Begins(C)
               /\ \/ C = {} /\ Value(active) \in {None, lastSaved[active]}
                  \/ \E c : /\ C = {c} /\ c.op = "save" /\ c.file = active
                            /\ c.content = Value(active) /\ c.content # None
  BY OtherBegins
<1>2. /\ UNCHANGED <<text, loaded, lastSaved, active, isSaving, drawn, wrote>>
      /\ timer /\ timer' = FALSE
      /\ unsaved' \in {unsaved, unsaved \cup {active}}
      /\ active \notin unsaved' => Value(active) = text[active]
  BY DEF AutoSave, Blanks
<1>3. PageFilled /\ DrawnInv /\ LastInv /\ SecureInv /\ text[active] # None
  BY <1>2 DEF Editing, PageFilled
<1>4. PageFilled' /\ DrawnInv'
  BY <1>2, <1>3 DEF PageFilled, DrawnInv
<1>5. ASSUME NEW f \in Files, f \notin unsaved', wrote[f] # None, Secure(f), Pending(f)
      PROVE  Safe(f) \/ \E c \in C : c.op = "save"
  <2>1. f = active /\ f \notin unsaved /\ (Value(active) = lastSaved[active] => lastSaved[f] = wrote[f])
    BY <1>2, <1>5 DEF Pending, Secure
  <2>2. Value(active) # None
    BY <1>2, <1>3, <1>5, <2>1
  <2>3. QED BY <1>1, <1>3, <1>5, <2>1, <2>2, LastSafe
<1> DEFINE k == Value(active)
<1> HIDE DEF k
<1>6. \A c \in C : c.op = "save" /\ c.file = active /\ c.content = k /\ k # None
  BY <1>1 DEF k
<1>7. active \notin unsaved' => k = text[active]
  BY <1>2 DEF k
<1>8. QED BY <1>1, <1>2, <1>4, <1>5, <1>6, <1>7, BeginsKeep

-----------------------------------------------------------------------------
(* The answers *)

LEMMA TakeEffect ==
  ASSUME Typed, ServerFilled, NEW r \in Requests, Takes(r)
  PROVE  /\ \A f : LoadsSame(f)
         /\ \A f : ~LiveSave(req[r], f) => SavesSame(f)
         /\ \A f : \A s \in Requests : SaveOf(req'[s], f) => s # r /\ req'[s] = req[s]
         /\ ServerFilled' /\ UNCHANGED <<copies, acked, crossed, stale>>
<1>1. /\ \A s \in Requests \ {r} : req'[s] = req[s]
      /\ \/ req[r].later = "none" /\ req'[r] = Idle
         \/ req[r].later # "none" /\ req'[r] = [req[r] EXCEPT !.at = "taken"]
  BY Taking
<1>2. req[r] \in Calls /\ Sound(req[r]) /\ Idle.op = "none" /\ Idle.later = "none"
  BY IdleIsCall DEF Typed, ServerTyped, Calling
<1>3. /\ \A f : ~SaveOf(req'[r], f) /\ ~LiveLoad(req'[r], f)
      /\ Filled(req[r]) => Filled(req'[r])
  <2>1. CASE req'[r] = Idle
    BY <1>2, <2>1 DEF SaveOf, LiveLoad, Filled
  <2>2. CASE req[r].later # "none" /\ req'[r] = [req[r] EXCEPT !.at = "taken"]
    BY <1>2, <2>2 DEF SaveOf, LiveLoad, Filled, Calls, Sound, Done
  <2>3. QED BY <1>1, <2>1, <2>2
<1>4. \A f : LoadsSame(f)
  BY <1>1, <1>3 DEF LoadsSame
<1>5. \A f : \A s \in Requests : SaveOf(req'[s], f) => s # r /\ req'[s] = req[s]
  BY <1>1, <1>3
<1>6. \A f : ~LiveSave(req[r], f) => SavesSame(f)
  BY <1>1, <1>5 DEF SavesSame, SameSave, LiveSave
<1>7. UNCHANGED <<copies, acked, crossed, stale>>
  BY DEF Takes
<1>8. ServerFilled'
  BY <1>1, <1>3, <1>7 DEF ServerFilled
<1>9. QED BY <1>4, <1>5, <1>6, <1>7, <1>8

LEMMA LoadedKeeps ==
  ASSUME Typed, FreshInv, Editing, NEW r \in Requests, Loaded(r)
  PROVE  Editing'
<1> DEFINE q == req[r]
           f == q.file
<1>1. q.op = "content" /\ q.at = "done" /\ q.by # "gone" /\ f \in Files /\ Takes(r)
  <2>1. Takes(r) /\ q.op = "content" /\ q.at = "done" /\ q.by # "gone"
    BY ReceiveForms DEF Receives, Loaded, Answers
  <2>2. QED BY <2>1 DEF Typed, ServerTyped, Calling, Sound
<1>2. /\ text' = IF q.ok THEN [text EXCEPT ![f] = q.content] ELSE text
      /\ loaded' = IF q.ok THEN loaded \cup {f} ELSE loaded
      /\ lastSaved' = IF q.ok THEN [lastSaved EXCEPT ![f] = q.content] ELSE lastSaved
      /\ UNCHANGED <<active, isSaving, wrote, unsaved>> /\ Draws(dirty)
  BY DEF Loaded
<1>3. /\ \A g \in Files : LoadsSame(g) /\ SavesSame(g)
      /\ ServerFilled' /\ UNCHANGED <<copies, acked, crossed, stale>>
  BY <1>1, TakeEffect DEF Editing, LiveSave, SaveOf
<1>4. /\ PageFilled /\ DrawnInv /\ LastInv /\ SecureInv /\ (q.ok => q.content # None)
      /\ text \in [Files -> Known] /\ lastSaved \in [Files -> Known]
  BY <1>1 DEF Editing, Typed, EditorTyped, ServerFilled, Filled, Done
<1>5. LiveLoad(q, f) /\ Reads(q, f) /\ (q.ok => Answered(q, f))
  BY <1>1 DEF LiveLoad, Reads, Answered
<1> HIDE DEF q, f
<1>6. PageFilled' /\ DrawnInv'
  BY <1>1, <1>2, <1>4, DrawsWhat DEF PageFilled, DrawnInv
<1>7. LastInv'
  <2> SUFFICES ASSUME NEW g \in Files, g \notin stale' \cup crossed' PROVE Last(g)'
    BY DEF LastInv
  <2>1. CASE g # f \/ ~q.ok
    <3>1. lastSaved'[g] = lastSaved[g]
      BY <1>2, <1>4, <2>1
    <3>2. QED BY <1>2, <1>3, <1>4, <3>1, LastSame
  <2>2. CASE g = f /\ q.ok
    <3>1. Fresh(f)
      BY <1>3, <2>2 DEF FreshInv
    <3>2. lastSaved'[f] = acked'[f]
      BY <1>1, <1>2, <1>3, <1>4, <1>5, <2>2, <3>1 DEF Fresh, q
    <3>3. \A s \in Requests : ~LeftSave(req[s], f)
      <4>1. \A s \in Requests : ~Writer(req[s], f)
        BY <1>5, <3>1 DEF Fresh, q
      <4>2. \A s \in Requests : ~(s \in Writing(f))
        BY <4>1, CallSets
      <4>3. QED BY <4>2, CallsOfEditor
    <3>4. \A s \in Requests : ~LeftSave(req'[s], f)
      BY <1>1, <1>3, <3>3 DEF SavesSame, SameSave, LeftSave
    <3>5. QED BY <2>2, <3>2, <3>4 DEF Last
  <2>3. QED BY <2>1, <2>2
<1>8. SecureInv'
  <2> SUFFICES ASSUME NEW g \in Files, g \notin unsaved, wrote[g] # None PROVE Secure(g)'
    BY <1>2 DEF SecureInv
  <2>1. Secure(g) /\ g \in loaded
    BY <1>4 DEF SecureInv, DrawnInv
  <2>2. g # f
    BY <1>5, <2>1 DEF Secure, q
  <2>3. text'[g] = text[g] /\ lastSaved'[g] = lastSaved[g]
    BY <1>2, <1>4, <2>2
  <2>4. Pending(g) => lastSaved'[g] = text'[g] \/ Pending(g)'
    <3>1. Pending(g) => g \in dirty
      BY DEF Pending
    <3>2. loaded \subseteq loaded' /\ active' = active /\ Draws(dirty)
      BY <1>2
    <3>3. QED BY <1>4, <2>1, <2>3, <3>1, <3>2, DrawsPending
  <2>5. Pending(g) => Safe(g) \/ Pending(g)'
    BY <1>4, <2>1, <2>3, <2>4, LastSafe DEF Secure
  <2>6. QED BY <1>2, <1>3, <2>1, <2>3, <2>5, SecureSame
<1>9. QED BY <1>3, <1>6, <1>7, <1>8 DEF Editing

LEMMA SavedKeeps ==
  ASSUME Typed, Editing, NEW r \in Requests, Saved(r)
  PROVE  Editing'
<1> DEFINE q == req[r]
           f == q.file
           marks == IF q.ok THEN dirty \ {f} ELSE dirty
<1>1. q.op = "save" /\ q.at = "done" /\ q.by # "gone" /\ f \in Files /\ Takes(r)
  <2>1. Takes(r) /\ q.op = "save" /\ q.at = "done" /\ q.by # "gone"
    BY ReceiveForms DEF Receives, Saved, Answers
  <2>2. QED BY <2>1 DEF Typed, ServerTyped, Calling, Sound
<1>2. /\ lastSaved' = IF q.ok THEN [lastSaved EXCEPT ![f] = Marked(q)] ELSE lastSaved
      /\ isSaving' = (isSaving /\ q.by # "button")
      /\ text' = IF q.ok /\ q.by = "run" THEN [text EXCEPT ![f] = q.content] ELSE text
      /\ unsaved' = Confirms(r) /\ UNCHANGED <<loaded, active, wrote>>
      /\ \/ Draws(marks)
         \/ q.by # "button" /\ dirty' = marks /\ UNCHANGED <<drawn, timer>>
  BY DEF Saved
<1>3. /\ \A g : LoadsSame(g)
      /\ \A g : g # f => SavesSame(g)
      /\ \A g : \A s \in Requests : SaveOf(req'[s], g) => s # r /\ req'[s] = req[s]
      /\ ServerFilled' /\ UNCHANGED <<copies, acked, crossed, stale>>
  BY <1>1, TakeEffect DEF Editing, LiveSave, SaveOf
<1>4. /\ PageFilled /\ DrawnInv /\ LastInv /\ SecureInv /\ q.content # None
      /\ text \in [Files -> Known] /\ lastSaved \in [Files -> Known] /\ isSaving \in BOOLEAN
  BY <1>1 DEF Editing, Typed, EditorTyped, ServerFilled, Filled
<1>5. /\ (q.ok /\ Marked(q) = acked[f]) \/ f \in unsaved'
      /\ \A g : g # f => (g \in unsaved' <=> g \in unsaved)
      /\ f \notin unsaved' =>
           \/ f \notin unsaved
           \/ /\ \A s \in Requests : s # r => ~SaveOf(req[s], f)
              /\ \A s \in Requests : ~LiveLoad(req[s], f)
              /\ acked[f] = wrote[f] /\ text[f] = wrote[f]
  BY <1>1, <1>2, CallsOfEditor DEF Confirms
<1>6. SaveOf(q, f) /\ LiveSave(q, f) /\ (q.ok => Done(q))
  BY <1>1 DEF SaveOf, LiveSave, Done
<1> HIDE DEF q, f, marks
<1>7. PageFilled' /\ DrawnInv'
  <2>1. \A g \in loaded' : text'[g] # None
    BY <1>1, <1>2, <1>4 DEF PageFilled, Typed, EditorTyped
  <2>2. CASE Draws(marks)
    BY <1>2, <1>4, <2>1, <2>2, DrawsWhat DEF PageFilled, DrawnInv
  <2>3. CASE q.by # "button" /\ UNCHANGED <<drawn, timer>>
    BY <1>2, <1>4, <2>1, <2>3 DEF PageFilled, DrawnInv
  <2>4. QED BY <1>2, <2>2, <2>3
<1>8. LastInv'
  <2> SUFFICES ASSUME NEW g \in Files, g \notin stale' \cup crossed' PROVE Last(g)'
    BY DEF LastInv
  <2>1. CASE g # f
    <3>1. lastSaved'[g] = lastSaved[g]
      BY <1>2, <1>4, <2>1
    <3>2. QED BY <1>3, <1>4, <1>5, <2>1, <3>1, LastSame
  <2>2. CASE g = f
    <3>1. Last(f)
      BY <1>3, <1>4, <2>2 DEF LastInv
    <3>2. \A s \in Requests : ~LeftSave(req'[s], f)
      BY <1>3, <1>6, <3>1 DEF Last, LeftSave, q
    <3>3. f \notin unsaved' => lastSaved'[f] = acked'[f]
      BY <1>1, <1>2, <1>3, <1>4, <1>5
    <3>4. QED BY <2>2, <3>2, <3>3 DEF Last
  <2>3. QED BY <2>1, <2>2
<1>9. SecureInv'
  <2> SUFFICES ASSUME NEW g \in Files, g \notin unsaved', wrote[g] # None PROVE Secure(g)'
    BY <1>2 DEF SecureInv
  <2>1. CASE g # f
    <3>1. Secure(g) /\ g \in loaded /\ g \notin unsaved
      BY <1>4, <1>5, <2>1 DEF SecureInv, DrawnInv
    <3>2. text'[g] = text[g] /\ lastSaved'[g] = lastSaved[g]
      BY <1>2, <1>4, <2>1
    <3>3. Pending(g) => g \in marks
      BY <2>1 DEF Pending, marks
    <3>4. Pending(g) => Safe(g) \/ Pending(g)'
      <4>1. CASE Draws(marks)
        <5>1. Pending(g) => lastSaved'[g] = text'[g] \/ Pending(g)'
          BY <1>2, <1>4, <3>1, <3>2, <3>3, <4>1, DrawsPending
        <5>2. QED BY <1>4, <3>1, <3>2, <5>1, LastSafe DEF Secure
      <4>2. CASE q.by # "button" /\ dirty' = marks /\ UNCHANGED <<drawn, timer>>
        <5>1. isSaving' = isSaving /\ active' = active /\ loaded' = loaded
          BY <1>2, <1>4, <4>2
        <5>2. active = g => Drawing' = Drawing
          BY <3>2, <5>1 DEF Drawing
        <5>3. QED BY <3>3, <4>2, <5>1, <5>2 DEF Pending
      <4>3. QED BY <1>2, <4>1, <4>2
    <3>5. QED BY <1>2, <1>3, <2>1, <3>1, <3>2, <3>4, SecureSame
  <2>2. CASE g = f
    <3>1. q.ok /\ Marked(q) = acked[f]
      BY <1>5, <2>2
    <3>2. /\ text[f] = wrote[f] /\ acked[f] = wrote[f]
          /\ \A s \in Requests : ~LiveLoad(req[s], f)
          /\ \A s \in Requests :
               s # r /\ SaveOf(req[s], f) => /\ req[s].content = wrote[f]
                                             /\ Done(req[s]) => acked[f] = wrote[f]
          /\ q.by = "run" => q.content = wrote[f]
      <4>1. CASE f \notin unsaved
        BY <1>4, <1>6, <2>2, <3>1, <4>1 DEF SecureInv, Secure, q
      <4>2. CASE f \in unsaved
        BY <1>5, <2>2, <3>1, <4>2 DEF Marked
      <4>3. QED BY <4>1, <4>2
    <3>3. text'[f] = wrote'[f] /\ acked'[f] = wrote'[f] /\ lastSaved'[f] = wrote'[f]
      BY <1>1, <1>2, <1>3, <1>4, <3>1, <3>2
    <3>4. \A s \in Requests : ~LiveLoad(req'[s], f)
      BY <1>3, <3>2 DEF LoadsSame
    <3>5. \A s \in Requests :
            SaveOf(req'[s], f) => /\ req'[s].content = wrote'[f]
                                  /\ Done(req'[s]) => acked'[f] = wrote'[f]
      BY <1>2, <1>3, <3>2, <3>3
    <3>6. QED BY <2>2, <3>3, <3>4, <3>5 DEF Secure, Safe
  <2>3. QED BY <2>1, <2>2
<1>10. QED BY <1>3, <1>7, <1>8, <1>9 DEF Editing

-----------------------------------------------------------------------------
(* The other answers, the server and another page *)

\* A step that leaves the page as it is, and the saves of every file.
LEMMA PageSame ==
  ASSUME Typed, Editing, UNCHANGED <<editorVars, userVars>>, ServerFilled',
         stale \subseteq stale', crossed \subseteq crossed',
         \A f \in Files : LoadsSame(f) /\ SavesSame(f), UNCHANGED acked
  PROVE  Editing'
<1>1. PageFilled' /\ DrawnInv'
  BY DEF Editing, PageFilled, DrawnInv
<1>2. LastInv'
  BY LastSame DEF Editing, LastInv
<1>3. \A f \in Files : Pending(f) => Pending(f)'
  BY DEF Pending, Drawing
<1>4. SecureInv'
  BY <1>3, SecureSame DEF Editing, SecureInv
<1>5. QED BY <1>1, <1>2, <1>4 DEF Editing

LEMMA RanKeeps ==
  ASSUME Typed, Editing, NEW r \in Requests, Ran(r) \/ Gone(r)
  PROVE  Editing'
<1>1. Takes(r) /\ UNCHANGED <<editorVars, userVars>>
        /\ (req[r].op = "run" \/ req[r].by = "gone")
  BY ReceiveForms DEF Receives, Ran, Gone, Answers
<1>2. \A f : ~LiveSave(req[r], f)
  BY <1>1 DEF LiveSave, SaveOf
<1>3. QED BY <1>1, <1>2, TakeEffect, PageSame DEF Editing

LEMMA WorksFilled ==
  ASSUME Typed, ServerFilled, NEW r \in Requests, Works(r) \/ Fails(r)
  PROVE  ServerFilled'
<1> DEFINE q == req[r]
           p == req'[r]
<1>1. /\ \A s \in Requests \ {r} : req'[s] = req[s]
      /\ q \in Calls /\ Sound(q)
  BY OtherCalls
<1>2. /\ q.op = "save" => q.content # None
      /\ q.later \in {"instrument", "restore"} => q.content # None
      /\ q.op = "content" /\ (Done(q) \/ q.at = "keep") => q.content # None
      /\ \A f \in Files : disk[f] # None
      /\ disk \in [Files -> Known]
  BY DEF ServerFilled, Filled, Typed, ServerTyped
<1>3. q.op # "none" => q.file \in Files /\ disk[q.file] # None
  BY <1>1, <1>2 DEF Sound
<1>4. Idle.op = "none" /\ Idle.later = "none"
  BY IdleIsCall DEF Typed
<1>5. ASSUME \A f \in Files : disk'[f] # None, Filled(p) PROVE ServerFilled'
  BY <1>1, <1>5 DEF ServerFilled
<1>6. q.content \in Int /\ q.later \in {"none", "get", "put", "instrument", "restore"}
  BY <1>1, KnownFacts DEF Calls, Typed, Counted
<1> HIDE DEF q, p
<1>7. CASE ReadRecord(r) \/ PutRecord(r) \/ SaveToContainer(r)
  <2>1. q.op = "save" /\ p.content = q.content
    BY <1>7, Outcomes DEF Is, ReadRecord, PutRecord, SaveToContainer, q, p
  <2>2. \A f \in Files : disk'[f] # None
    BY <1>2, <1>3, <1>7, <2>1 DEF ReadRecord, PutRecord, SaveToContainer, Writes, q
  <2>3. QED BY <1>2, <1>5, <2>1, <2>2 DEF Filled
<1>8. CASE ReadFromContainer(r) \/ ReadCopy(r) \/ ReadAgain(r) \/ ReadListed(r)
  <2>1. q.op = "content" /\ disk' = disk /\ p.op = "content" /\ p.later \in {"none", "get"}
    BY <1>8, Outcomes DEF Is, ReadFromContainer, ReadCopy, ReadAgain, ReadListed, q, p
  <2>2. p.content # None
    <3>1. CASE ReadFromContainer(r) \/ ReadCopy(r)
      BY <1>3, <2>1, <3>1, Outcomes DEF Is, ReadFromContainer, ReadCopy, q, p
    <3>2. CASE ReadAgain(r)
      <4>1. \E c \in {disk[q.file], Starter} : Is(p, q, "keep", "get", c, q.ok, q.snap)
        BY <3>2, Outcomes DEF q, p
      <4>2. disk[q.file] # None /\ Starter # None
        BY <1>3, <2>1 DEF Starter, None
      <4>3. QED BY <4>1, <4>2 DEF Is
    <3>3. CASE ReadListed(r)
      <4>1. \E c : c # None /\ Is(p, q, "done", "none", c, TRUE, q.snap)
        BY <3>3, Outcomes DEF q, p
      <4>2. QED BY <4>1 DEF Is
    <3>4. QED BY <1>8, <3>1, <3>2, <3>3
  <2>3. QED BY <1>2, <1>5, <2>1, <2>2 DEF Filled
<1>9. CASE GetToKeep(r) \/ Keep(r)
  <2>1. disk' = disk /\ q.later \in {"get", "put"}
    BY <1>9 DEF GetToKeep, Keep, q
  <2>2. \/ p = Idle
        \/ /\ p.op = q.op /\ p.content = q.content /\ p.later \in {"put", "none"}
           /\ (p.at = q.at /\ p.ok = q.ok) \/ q.at = "keep"
    BY <1>9, Outcomes DEF Is, q, p
  <2>3. Filled(p)
    BY <1>2, <1>4, <2>2 DEF Filled, Done
  <2>4. QED BY <1>2, <1>5, <2>1, <2>3
<1>10. CASE SyncFile(r)
  <2>1. q.op = "run" /\ q.file \in Files
    BY <1>3, <1>10 DEF SyncFile, q
  <2>2. \/ disk' = disk /\ Is(p, q, "done", "none", q.content, FALSE, q.snap)
        \/ /\ Program(q) # None /\ disk' \in {disk, [disk EXCEPT ![q.file] = Program(q)]}
           /\ Is(p, q, "done", "instrument", Program(q), TRUE, q.snap)
    <3>1. \/ Answer(r, FALSE, q.content, "none") /\ disk' = disk
          \/ Program(q) # None /\ Answer(r, TRUE, Program(q), "instrument")
             /\ disk' \in {disk, [disk EXCEPT ![q.file] = Program(q)]}
      BY <1>10 DEF SyncFile, q
    <3>2. q \in Calls /\ req \in [Requests -> Calls]
      BY <1>1 DEF Typed, ServerTyped, Calling
    <3>3. QED BY <3>1, <3>2 DEF Answer, Is, Calls, q, p
  <2>3. Filled(p)
    BY <2>1, <2>2 DEF Filled, Is
  <2>4. QED BY <1>2, <1>5, <2>1, <2>2, <2>3
<1>11. CASE Instrument(r) \/ Restore(r)
  <2>1. q.op = "run" /\ q.later \in {"instrument", "restore"}
    BY <1>1, <1>6, <1>11 DEF Instrument, Restore, Sound, Calls, q
  <2>2. p = Idle \/ (p.op = "run" /\ p.content = q.content)
    BY <1>11, <2>1, Outcomes DEF Is, q, p
  <2>3. -q.content # None /\ q.content # None
    BY <1>2, <1>6, <2>1 DEF None
  <2>4. disk' \in {disk, [disk EXCEPT ![q.file] = q.content],
                   [disk EXCEPT ![q.file] = -q.content]}
    BY <1>11 DEF Instrument, Restore, Writes, q
  <2>5. Filled(p) /\ \A f \in Files : disk'[f] # None
    BY <1>2, <1>4, <2>2, <2>3, <2>4 DEF Filled
  <2>6. QED BY <1>5, <2>5
<1>12. CASE Refuse(r) \/ LoseAnswer(r)
  <2>1. disk' = disk /\ p.op = q.op /\ p.ok = FALSE /\ p.content = q.content
          /\ (p.later = "none" \/ p.later = q.later) /\ (p.at = "done" \/ p.op = "save")
    BY <1>12, Outcomes DEF Is, Refuse, LoseAnswer, q, p
  <2>2. QED BY <1>2, <1>5, <2>1 DEF Filled, Done
<1>13. QED
  BY <1>7, <1>8, <1>9, <1>10, <1>11, <1>12 DEF Works, Fails

LEMMA ServesKeeps ==
  ASSUME Typed, Editing, NEW r \in Requests, Serves(r)
  PROVE  Editing'
<1> DEFINE q == req[r]
           p == req'[r]
<1>1. (Works(r) \/ Fails(r)) /\ UNCHANGED <<editorVars, userVars>>
  BY DEF Serves
<1>2. /\ \A s \in Requests \ {r} : req'[s] = req[s]
      /\ q \in Calls /\ Sound(q) /\ crossed \subseteq crossed' /\ stale \subseteq stale'
  BY <1>1, OtherCalls
<1>3. ServerFilled'
  BY <1>1, WorksFilled DEF Editing
<1>4. \A f : SameSave(req[r], req[r], f)
  BY DEF SameSave
<1>5. Idle.op = "none"
  BY IdleIsCall DEF Typed
<1> HIDE DEF q, p
<1>6. ASSUME NEW f PROVE LiveLoad(p, f) => LiveLoad(q, f)
  <2>1. \/ p = Idle
        \/ p.op = q.op /\ p.file = q.file /\ p.by = q.by /\ (p.at = q.at \/ q.at # "taken")
    BY <1>1, Outcomes DEF Is, Works, Fails, ReadRecord, PutRecord, SaveToContainer,
       ReadFromContainer, SyncFile, Refuse, ReadCopy, ReadAgain, ReadListed, q, p
  <2>2. QED BY <1>5, <2>1 DEF LiveLoad
<1>7. \A f : LoadsSame(f)
  BY <1>2, <1>6 DEF LoadsSame, q, p
<1>8. ASSUME ~SaveToContainer(r), NEW f PROVE SameSave(q, p, f)
  <2>1. CASE ReadRecord(r) \/ PutRecord(r) \/ Refuse(r) \/ LoseAnswer(r)
    BY <2>1, Outcomes DEF Is, SameSave, SaveOf, LiveSave, Done, ReadRecord, PutRecord, Refuse,
       LoseAnswer, q, p
  <2>2. CASE \/ ReadFromContainer(r) \/ ReadCopy(r) \/ ReadAgain(r) \/ ReadListed(r)
             \/ GetToKeep(r) \/ Keep(r) \/ SyncFile(r) \/ Instrument(r) \/ Restore(r)
    <3>1. q.op \in {"content", "run"}
      BY <1>2, <2>2 DEF ReadFromContainer, ReadCopy, ReadAgain, ReadListed, GetToKeep, Keep, SyncFile, Instrument,
         Restore, Sound, Calls, q
    <3>2. p = Idle \/ p.op = q.op
      BY <2>2, Outcomes DEF Is, q, p
    <3>3. QED BY <1>5, <3>1, <3>2 DEF SameSave, SaveOf, LiveSave
  <2>3. QED BY <1>1, <1>8, <2>1, <2>2 DEF Works, Fails
<1>9. CASE ~SaveToContainer(r)
  <2>1. \A f : SavesSame(f)
    BY <1>2, <1>8, <1>9 DEF SavesSame, SameSave, q, p
  <2>2. UNCHANGED acked
    BY <1>1, <1>9 DEF Works, Fails, ReadRecord, PutRecord, ReadFromContainer, GetToKeep, Keep,
       SyncFile, Instrument, Restore, Refuse, ReadCopy, ReadAgain, ReadListed, LoseAnswer
  <2>3. QED BY <1>1, <1>2, <1>3, <1>7, <2>1, <2>2, PageSame
<1>10. CASE SaveToContainer(r)
  <2> DEFINE f == q.file
  <2>1. /\ q.op = "save" /\ q.at = "disk" /\ f \in Files
        /\ Is(p, q, "done", "none", q.content, TRUE, q.snap)
        /\ acked' = [acked EXCEPT ![f] = q.content] /\ acked \in [Files -> Known \ {None}]
    BY <1>2, <1>10, Outcomes DEF SaveToContainer, Sound, Typed, ServerTyped, q, p
  <2>2. \A g : /\ SaveOf(p, g) <=> SaveOf(q, g)
               /\ LiveSave(p, g) <=> LiveSave(q, g)
               /\ ~LeftSave(p, g) /\ (g # f => SameSave(q, p, g))
    BY <2>1 DEF Is, SaveOf, LiveSave, LeftSave, SameSave
  <2>3. SaveOf(q, f) /\ (LiveSave(q, f) \/ LeftSave(q, f)) /\ p.content = q.content
    BY <2>1 DEF SaveOf, LiveSave, LeftSave, Is
  <2> HIDE DEF f
  <2>4. \A g : g # f => SavesSame(g)
    BY <1>2, <2>2 DEF SavesSame, SameSave, q, p
  <2>5. \A g \in Files : g # f => acked'[g] = acked[g]
    BY <2>1
  <2>6. acked'[f] = q.content
    BY <2>1
  <2>7. PageFilled' /\ DrawnInv'
    BY <1>1 DEF Editing, PageFilled, DrawnInv
  <2>8. LastInv'
    <3> SUFFICES ASSUME NEW g \in Files, g \notin stale' \cup crossed' PROVE Last(g)'
      BY DEF LastInv
    <3>1. CASE g # f
      BY <1>1, <1>2, <2>4, <2>5, <3>1, LastSame DEF Editing
    <3>2. CASE g = f
      <4>1. Last(f)
        BY <1>2, <3>2 DEF Editing, LastInv
      <4>2. \A s \in Requests : /\ LeftSave(req'[s], f) => LeftSave(req[s], f)
                                /\ LiveSave(req'[s], f) <=> LiveSave(req[s], f)
        BY <1>2, <2>2 DEF q, p
      <4>3. lastSaved'[f] = None \/ \E s \in Requests : LiveSave(req'[s], f)
        BY <1>1, <2>3, <4>1, <4>2 DEF Last, q
      <4>4. QED BY <1>1, <3>2, <4>1, <4>2, <4>3 DEF Last
    <3>3. QED BY <3>1, <3>2
  <2>9. SecureInv'
    <3> SUFFICES ASSUME NEW g \in Files, g \notin unsaved, wrote[g] # None PROVE Secure(g)'
      BY <1>1 DEF SecureInv
    <3>1. Secure(g) /\ (Pending(g) => Pending(g)')
      BY <1>1 DEF Editing, SecureInv, Pending, Drawing
    <3>2. CASE g # f
      BY <1>1, <1>2, <1>7, <2>4, <2>5, <3>1, <3>2, SecureSame
    <3>3. CASE g = f
      <4>1. q.content = wrote[f]
        BY <2>3, <3>1, <3>3 DEF Secure, q
      <4>2. acked'[f] = wrote'[f] /\ text'[f] = wrote'[f]
            /\ (wrote'[f] = Blank => lastSaved'[f] = Blank)
        BY <1>1, <2>6, <3>1, <3>3, <4>1 DEF Secure
      <4>3. \A s \in Requests : SaveOf(req'[s], f) => req'[s].content = wrote'[f]
        BY <1>1, <1>2, <2>2, <2>3, <3>1, <3>3, <4>1 DEF Secure, q, p
      <4>4. \A s \in Requests : ~LiveLoad(req'[s], f)
        BY <1>7, <3>1, <3>3 DEF Secure, LoadsSame
      <4>5. QED BY <3>3, <4>2, <4>3, <4>4 DEF Secure, Safe
    <3>4. QED BY <3>2, <3>3
  <2>10. QED BY <1>3, <2>7, <2>8, <2>9 DEF Editing
<1>11. QED BY <1>9, <1>10

LEMMA RestartKeeps ==
  ASSUME Typed, Editing, Restart, UNCHANGED <<editorVars, userVars>>
  PROVE  Editing'
<1>1. \A s \in Requests : req'[s] = Killed(req[s]) /\ req[s] \in Calls /\ Sound(req[s])
  BY Restarting DEF Typed, ServerTyped, Calling
<1>2. ASSUME NEW q \in Calls, Sound(q)
      PROVE  /\ \A f : /\ LiveLoad(Killed(q), f) => LiveLoad(q, f)
                       /\ SameSave(q, Killed(q), f)
             /\ Filled(q) => Filled(Killed(q))
  <2> DEFINE u == [q EXCEPT !.later = "none"]
             v == [q EXCEPT !.at = "done", !.ok = FALSE, !.later = "none"]
  <2>1. /\ u.op = q.op /\ u.file = q.file /\ u.content = q.content /\ u.ok = q.ok
        /\ u.later = "none" /\ u.at = q.at /\ u.by = q.by
        /\ v.op = q.op /\ v.file = q.file /\ v.content = q.content /\ v.ok = FALSE
        /\ v.later = "none" /\ v.at = "done" /\ v.by = q.by
    BY DEF Calls
  <2>2. \/ (q.op = "none" \/ q.at = "taken") /\ Killed(q) = Idle
        \/ q.at = "done" /\ Killed(q) = u
        \/ q.op # "none" /\ q.at \notin {"taken", "done"} /\ Killed(q) = v
    BY DEF Killed
  <2>3. Idle.op = "none" /\ Idle.later = "none"
    BY IdleIsCall DEF Typed
  <2> HIDE DEF u, v
  <2> USE DEF LiveLoad, SameSave, SaveOf, LiveSave, Done, Filled
  <2>4. CASE (q.op = "none" \/ q.at = "taken") /\ Killed(q) = Idle
    BY <1>2, <2>3, <2>4 DEF Sound
  <2>5. CASE q.at = "done" /\ Killed(q) = u
    BY <2>1, <2>5
  <2>6. CASE q.op # "none" /\ q.at \notin {"taken", "done"} /\ Killed(q) = v
    BY <2>1, <2>6
  <2>7. QED BY <2>2, <2>4, <2>5, <2>6
<1>3. UNCHANGED <<disk, acked>> /\ crossed \subseteq crossed' /\ stale \subseteq stale'
  BY DEF Restart
<1>4. ServerFilled'
  BY <1>1, <1>2, <1>3 DEF Editing, ServerFilled
<1>5. \A f \in Files : LoadsSame(f) /\ SavesSame(f)
  BY <1>1, <1>2 DEF LoadsSame, SavesSame
<1>6. QED BY <1>3, <1>4, <1>5, PageSame

\* A new page has lost what was not saved, and knows nothing of the saves of
\* the page before.
LEMMA ReloadKeeps ==
  ASSUME Typed, Editing, Reload
  PROVE  Editing'
<1>1. /\ Slot \in Requests /\ req'[Slot] = LoadFirst
      /\ \A s \in Requests \ {Slot} : req'[s] = Left(req[s])
      /\ LoadFirst \in NewCalls /\ LoadFirst.op = "content"
      /\ \A s \in Requests : req[s] \in Calls /\ Sound(req[s])
  BY Reloading, LoadFirstIsNew DEF Typed, ServerTyped, Calling
<1>2. ASSUME NEW q \in Calls, Sound(q)
      PROVE  (\A f : ~LiveSave(Left(q), f)) /\ (Filled(q) => Filled(Left(q)))
  <2> DEFINE u == [q EXCEPT !.at = "taken"]
             v == [q EXCEPT !.by = "gone"]
  <2>1. /\ u.op = q.op /\ u.content = q.content /\ u.later = q.later /\ u.at = "taken"
        /\ v.op = q.op /\ v.content = q.content /\ v.later = q.later /\ v.at = q.at
        /\ v.by = "gone" /\ v.ok = q.ok
    BY DEF Calls
  <2>2. \/ Left(q) = Idle
        \/ q.at = "done" /\ q.later # "none" /\ Left(q) = u
        \/ (q.op = "none" \/ q.at = "taken") /\ Left(q) = q
        \/ Left(q) = v
    BY DEF Left
  <2>3. Idle.op = "none" /\ Idle.later = "none"
    BY IdleIsCall DEF Typed
  <2> HIDE DEF u, v
  <2> USE DEF LiveSave, SaveOf, Done, Filled
  <2>4. q.op = "save" => q.later = "none" /\ q.at # "taken"
    BY <1>2 DEF Sound
  <2>5. QED BY <2>1, <2>2, <2>3, <2>4
<1>3. /\ \A f \in Files : lastSaved'[f] = None /\ wrote'[f] = None
      /\ UNCHANGED disk /\ drawn' = Drawing' /\ timer' = FALSE
      /\ loaded' = {}
  BY DEF Reload
<1>4. ServerFilled'
  <2>1. Filled(LoadFirst)
    BY <1>1 DEF NewCalls, Filled, Done
  <2>2. QED BY <1>1, <1>2, <1>3, <2>1 DEF Editing, ServerFilled
<1>5. PageFilled' /\ DrawnInv'
  BY <1>3 DEF PageFilled, DrawnInv, Drawing
<1>6. LastInv'
  <2>1. \A s \in Requests, f \in Files : ~LiveSave(req'[s], f)
    BY <1>1, <1>2 DEF LiveSave, SaveOf
  <2>2. QED BY <1>3, <2>1 DEF LastInv, Last
<1>7. SecureInv'
  BY <1>3 DEF SecureInv
<1>8. QED BY <1>4, <1>5, <1>6, <1>7 DEF Editing

LEMMA InitEditing ==
  ASSUME Init
  PROVE  Editing
<1>1. Typed
  BY InitTyped
<1>2. LoadFirst \in NewCalls /\ LoadFirst.op = "content"
  BY <1>1, LoadFirstIsNew
<1>3. \A r \in Requests : req[r] = Idle \/ req[r] = LoadFirst
  BY DEF Init
<1>4. \A r \in Requests : Filled(req[r]) /\ \A f \in Files : ~SaveOf(req[r], f)
  BY <1>1, <1>2, <1>3, IdleIsCall DEF Typed, NewCalls, Filled, Done, SaveOf
<1>5. /\ \A f \in Files : disk[f] = Starter /\ lastSaved[f] = None /\ wrote[f] = None
      /\ loaded = {} /\ timer = FALSE /\ drawn = <<active, None, {}, isSaving>>
  BY DEF Init, ServerInit
<1>6. QED
  BY <1>4, <1>5 DEF Editing, ServerFilled, PageFilled, DrawnInv, LastInv, Last, LeftSave,
     SecureInv, Starter, None

LEMMA StepEditing == Typed /\ FreshInv /\ Editing /\ [Next]_vars => Editing'
<1> SUFFICES ASSUME Typed, FreshInv, Editing, [Next]_vars PROVE Editing'
  OBVIOUS
<1>1. CASE UNCHANGED vars
  BY <1>1, PageSame DEF LoadsSame, SavesSame, SameSave, Editing, ServerFilled
<1>2. CASE TypeSomething
  BY <1>2, TypeKeeps
<1>3. CASE ChooseMode \/ TogglePreview
  BY <1>3, ChooseKeeps
<1>4. CASE Reload
  BY <1>4, ReloadKeeps
<1>5. CASE Draw
  BY <1>5, DrawKeeps
<1>6. CASE AutoSave
  BY <1>6, AutoSaveKeeps
<1>7. CASE \E f \in Files : Select(f) \/ PressSave(f) \/ PressRun(f)
  BY <1>7, SelectKeeps, ButtonKeeps
<1>8. CASE Restart /\ UNCHANGED <<editorVars, userVars>>
  BY <1>8, RestartKeeps
<1>9. ASSUME NEW r \in Requests, Serves(r) \/ Receives(r) PROVE Editing'
  BY <1>9, ServesKeeps, LoadedKeeps, SavedKeeps, RanKeeps DEF Receives
<1>10. QED
  BY <1>1, <1>2, <1>3, <1>4, <1>5, <1>6, <1>7, <1>8, <1>9 DEF Next

\* Whatever the student does meanwhile, and in whatever order calls, answers,
\* timers, restarts and reloads come, an editor at rest has had what was typed
\* last acknowledged, except for the edits that TypedIsSaved names.
THEOREM TypedAlwaysSaved == Spec => []TypedIsSaved
<1>1. Typed /\ Editing => TypedIsSaved
  <2> SUFFICES ASSUME Typed, Editing, NEW f \in Files, AtRest(f), wrote[f] # None,
                      f \notin unsaved
               PROVE  wrote[f] = acked[f] \/ (wrote[f] = lastSaved[f] /\ f \in stale \cup crossed)
    BY DEF TypedIsSaved
  <2>1. Secure(f) /\ ~Pending(f)
    BY DEF Editing, SecureInv, AtRest, Pending
  <2>2. \A r \in Requests : ~LiveSave(req[r], f)
    BY CallsOfEditor DEF AtRest
  <2>3. QED BY <2>1, <2>2 DEF Secure, Safe
<1>2. Spec => []Editing
  <2>1. Init => Editing
    BY InitEditing
  <2>2. QED BY <2>1, HeldInvariant, StepEditing, PTL DEF Spec
<1>3. QED BY <1>1, <1>2, TypesInvariant, PTL
=============================================================================
