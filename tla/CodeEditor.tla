----------------------------- MODULE CodeEditor -----------------------------
(***************************************************************************)
(* The editor of a session in one tab (Editor.tsx): it loads the file that *)
(* is selected, marks what is typed as dirty, and saves dirty files on its *)
(* own 1.2 seconds after it has drawn them, when another file is selected, *)
(* on the button and before the run of a test.  Composed with              *)
(* WorkspaceFiles, which answers its calls.                                *)
(*                                                                         *)
(* What is typed goes into the files straight away but is drawn later      *)
(* (`drawn' is what the effect that sets the timer last saw), so typing,   *)
(* timers and answers interleave.  The preview of a test takes the place   *)
(* of the code editor, Monaco, which then says that it holds nothing.      *)
(***************************************************************************)
EXTENDS WorkspaceFiles

NoFile == 0
NoRun == [file |-> NoFile, content |-> None, at |-> "none"]

VARIABLES
  text,       \* files[].content; None while it is not loaded
  loaded, dirty, lastSaved, active, contentLoading, isSaving,
  drawn, timer,
  preview,    \* the preview is shown
  mounted,    \* Monaco has been shown in this page
  running,    \* a run between the click and the call
  typed,      \* number of contents typed
  wrote,      \* history: what was typed last into a file in this page
  unsaved     \* history: files whose edits in this page may be lost

editorVars == <<text, loaded, dirty, lastSaved, active, contentLoading, isSaving,
                drawn, timer, preview, mounted, running>>
userVars == <<typed, wrote, unsaved>>
vars == <<serverVars, editorVars, userVars>>

\* The page selects the first file, or the one with a starter's name, and
\* loads it whether or not the list came with its content.
First == CHOOSE f \in Files : \A g \in Files : f <= g
Free == {r \in Requests : req[r].op = "none"}
Slot == CHOOSE r \in Free : TRUE
LoadFirst == Call("content", First, None, "load")

Init ==
  /\ ServerInit /\ req = [[r \in Requests |-> Idle] EXCEPT ![CHOOSE r \in Requests : TRUE] = LoadFirst]
  /\ text = [f \in Files |-> None] /\ loaded = {} /\ dirty = {}
  /\ lastSaved = [f \in Files |-> None] /\ active = First
  /\ contentLoading = First /\ isSaving = FALSE
  /\ drawn = <<First, None, {}, FALSE>> /\ timer = FALSE
  /\ preview = FALSE /\ mounted = FALSE /\ running = NoRun
  /\ typed = 0 /\ wrote = [f \in Files |-> None] /\ unsaved = {}

Saves(f) == {r \in Of(f, {"save"}) : req[r].at # "taken" /\ req[r].by # "gone"}
Loads(f) == {r \in Of(f, {"content"}) : req[r].at # "taken" /\ req[r].by # "gone"}

Send(c) == Free # {} /\ req' = [req EXCEPT ![Slot] = c] /\ Meets(c)

\* Two calls at once, on two files.
SendBoth(c, d) ==
  LET s == CHOOSE s \in Free \ {Slot} : TRUE
  IN  /\ Cardinality(Free) > 1
      /\ req' = [req EXCEPT ![Slot] = c, ![s] = d]
      /\ crossed' = crossed \cup {f \in Files : c.file = f /\ Writing(f) # {}}
      /\ stale' = stale \cup {f \in Files : \/ c.file = f /\ Writing(f) \cup Reading(f) # {}
                                            \/ d.file = f /\ Writing(f) # {}}

Sends == UNCHANGED <<copies, acked, spent>>

\* The file has its content.  Monaco is shown, also for a file that has none,
\* when neither the preview nor the spinner is.
Ready(f) == active = f /\ (f \in loaded \/ text[f] # None)
Shown == ~preview /\ (Ready(active) \/ contentLoading # active)
Mounts == mounted' = (mounted \/ Shown')

\* getValue of Monaco, "" once it has been taken away; the file's content as
\* long as there has been none.
Value(f) == IF preview /\ mounted THEN Blank ELSE text[f]
\* An empty value takes the place of an edit, or hides that there is one.
Blanks(f) == IF Value(f) = text[f] THEN unsaved ELSE unsaved \cup {f}

-----------------------------------------------------------------------------
(* The autosave effect runs when what it depends on is drawn anew.         *)

Drawing == <<active, text[active], loaded, isSaving>>

Edited == lastSaved[active] # text[active]

Watched == active \in loaded /\ ~isSaving

\* The timer of a dirty file starts again, or its mark goes when the file
\* holds what was saved last.
Draws(marks) ==
  LET effect == drawn' # drawn /\ Watched' /\ active' \in marks
  IN  /\ drawn' = Drawing'
      /\ timer' = IF drawn' = drawn THEN timer ELSE effect /\ Edited'
      /\ dirty' = IF effect /\ ~Edited' THEN marks \ {active'} ELSE marks

-----------------------------------------------------------------------------
(* The student. *)

\* Typing, or undoing all of it; the mark is set in any case.
Type(f, c) ==
  /\ Ready(f) /\ ~preview /\ c # text[f]
  /\ text' = [text EXCEPT ![f] = c]
  /\ loaded' = loaded \cup {f} /\ dirty' = dirty \cup {f}
  /\ wrote' = [wrote EXCEPT ![f] = c] /\ typed' = typed + 1 /\ Spend
  /\ unsaved' = IF Of(f, {"save"}) \cup Loads(f) = {} /\ running.file # f THEN unsaved
                ELSE unsaved \cup {f}
  /\ UNCHANGED <<copies, req, acked, crossed, stale, lastSaved, active, contentLoading,
                 isSaving, drawn, timer, preview, mounted, running>>

TypeSomething ==
  \E f \in Files : \/ Type(f, Starter + typed + 1)
                   \/ lastSaved[f] # None /\ Type(f, lastSaved[f])

\* Mutant: a file whose timer is running is not saved when it is left.
LeavesDirtyToTimer(f) == f \in dirty /\ text[f] # None /\ ~timer
LeavesDirty(f) == f \in dirty /\ text[f] # None

\* selectFile, and the effect that loads a file which has no content yet.  The
\* file in view is selected, too, when the preview hides it.
Select(f) ==
  LET save == Call("save", active, text[active], "switch")
      load == Call("content", f, None, "load")
      loads == ~(f \in loaded /\ text[f] # None) /\ Loads(f) = {}
  IN  /\ active # f \/ preview
      /\ active' = f /\ preview' = FALSE
      /\ loaded' = loaded \cup {g \in {f} : text[g] # None}
      /\ CASE LeavesDirty(active) /\ loads -> SendBoth(save, load)
           [] LeavesDirty(active) /\ ~loads -> Send(save)
           [] ~LeavesDirty(active) /\ loads -> Send(load)
           [] OTHER -> UNCHANGED <<req, crossed, stale>>
      /\ contentLoading' = IF loads THEN f ELSE contentLoading
      /\ Sends /\ UNCHANGED <<text, lastSaved, isSaving, running, userVars>>
      /\ Draws(dirty) /\ Mounts

\* handleToggleBrowserPreview.
TogglePreview ==
  /\ preview' = ~preview /\ IF preview THEN UNCHANGED spent ELSE Spend
  /\ UNCHANGED <<copies, req, acked, crossed, stale, text, loaded, dirty, lastSaved, active,
                 contentLoading, isSaving, drawn, timer, running, userVars>>
  /\ Mounts

\* handleSave(true), the button: also while the preview is shown.
PressSave(f) ==
  /\ Ready(f) /\ ~isSaving /\ Value(f) # None
  /\ Send(Call("save", f, Value(f), "button")) /\ isSaving' = TRUE /\ Spend
  /\ unsaved' = Blanks(f)
  /\ UNCHANGED <<copies, acked, text, loaded, lastSaved, active, contentLoading, preview,
                 mounted, running, typed, wrote>>
  /\ Draws(dirty)

\* executeCode of a test: the program, as the editor or the file holds it or,
\* when that is empty, as it was saved last, is saved first when it is dirty
\* or empty.  A program that is still loading is "".
PressRun(f) ==
  LET code == CASE text[f] \notin {None, Blank} -> text[f]
                [] text[f] \in {None, Blank} /\ lastSaved[f] # None -> lastSaved[f]
                [] OTHER -> Blank
  IN  /\ active = f /\ running = NoRun /\ Spend
      /\ IF f \in dirty \/ text[f] \in {None, Blank}
         THEN /\ Send(Call("save", f, code, "run"))
              /\ running' = [file |-> f, content |-> code, at |-> "saving"]
         ELSE /\ running' = [file |-> f, content |-> code, at |-> "mode"]
              /\ UNCHANGED <<req, crossed, stale>>
      /\ UNCHANGED <<copies, acked, text, loaded, dirty, lastSaved, active, contentLoading,
                     isSaving, drawn, timer, preview, mounted, userVars>>

\* The dialog for the mode of a test run, which may be closed; the run is
\* watched in the preview.
ChooseMode ==
  /\ running.at = "mode" /\ running' = NoRun
  /\ \/ Send(Call("run", running.file, running.content, "run")) /\ preview' = TRUE
     \/ UNCHANGED <<req, crossed, stale, preview>>
  /\ Sends /\ UNCHANGED <<text, loaded, dirty, lastSaved, active, contentLoading, isSaving,
                          drawn, timer, mounted, userVars>>

\* The page is loaded again: refreshFiles(true, true) in a new tab.  The list
\* that the browser gets has no contents.
Reload ==
  /\ Spend /\ ListFiles /\ Free # {}
  /\ text' = [f \in Files |-> None] /\ loaded' = {} /\ dirty' = {}
  /\ lastSaved' = [f \in Files |-> None] /\ active' = First
  /\ contentLoading' = First /\ isSaving' = FALSE
  /\ drawn' = Drawing' /\ timer' = FALSE
  /\ preview' = FALSE /\ mounted' = FALSE /\ running' = NoRun
  /\ wrote' = [f \in Files |-> None] /\ unsaved' = {}
  /\ req' = [r \in Requests |->
               IF r = Slot THEN LoadFirst
               ELSE IF req[r].at = "done" /\ req[r].later = "none" THEN Idle
               ELSE IF req[r].at = "done" THEN [req[r] EXCEPT !.at = "taken"]
               ELSE IF req[r].op = "none" \/ req[r].at = "taken" THEN req[r]
               ELSE [req[r] EXCEPT !.by = "gone"]]
  /\ Meets(LoadFirst) /\ UNCHANGED <<disk, record, acked, typed>>

-----------------------------------------------------------------------------
(* The editor. *)

Draw ==
  /\ drawn # Drawing
  /\ UNCHANGED <<serverVars, text, loaded, lastSaved, active, contentLoading, isSaving,
                 preview, mounted, running, userVars>>
  /\ Draws(dirty)

\* Mutant: one save at a time, as with the button.
AutoSaveAlone ==
  /\ timer /\ timer' = FALSE
  /\ IF Value(active) \in {None, lastSaved[active]} \/ \E f \in Files : Saves(f) # {}
     THEN UNCHANGED <<req, crossed, stale>>
     ELSE Send(Call("save", active, Value(active), "timer"))
  /\ unsaved' = Blanks(active)
  /\ Sends /\ UNCHANGED <<text, loaded, dirty, lastSaved, active, contentLoading, isSaving,
                          drawn, preview, mounted, running, typed, wrote>>

\* handleSave(false).
AutoSave ==
  /\ timer /\ timer' = FALSE
  /\ IF Value(active) \in {None, lastSaved[active]} THEN UNCHANGED <<req, crossed, stale>>
     ELSE Send(Call("save", active, Value(active), "timer"))
  /\ unsaved' = Blanks(active)
  /\ Sends /\ UNCHANGED <<text, loaded, dirty, lastSaved, active, contentLoading, isSaving,
                          drawn, preview, mounted, running, typed, wrote>>

-----------------------------------------------------------------------------
(* Answers. *)

Take(r) ==
  req' = [req EXCEPT ![r] = IF @.later = "none" THEN Idle ELSE [@ EXCEPT !.at = "taken"]]
Answers(r, op) == req[r].op = op /\ req[r].at = "done"
Taken == UNCHANGED <<copies, acked, crossed, stale, spent>>

Loaded(r) ==
  LET f == req[r].file
      ok == req[r].ok
  IN  /\ Answers(r, "content") /\ req[r].by # "gone" /\ Take(r)
      /\ contentLoading' = NoFile
      /\ text' = IF ok THEN [text EXCEPT ![f] = req[r].content] ELSE text
      /\ loaded' = IF ok THEN loaded \cup {f} ELSE loaded
      /\ lastSaved' = IF ok THEN [lastSaved EXCEPT ![f] = req[r].content] ELSE lastSaved
      /\ Taken /\ UNCHANGED <<active, isSaving, preview, running, userVars>>
      /\ Draws(dirty) /\ Mounts

\* What counts as saved: what was sent or, on leaving a file, what the file
\* holds by then.
Marked(q) == IF q.by = "switch" THEN text[q.file] ELSE q.content

\* A save settles the edits that it sent when the file still holds them and
\* no other call is about to change that.  When it fails, or its answer comes
\* after that of a later save, the editor does not know what the server has.
Confirms(r) ==
  LET f == req[r].file
      knows == req[r].ok /\ Marked(req[r]) = acked[f]
      alone == Of(f, {"save"}) = {r} /\ Loads(f) = {}
  IN  CASE ~knows -> unsaved \cup {f}
        [] knows /\ alone /\ {acked[f], text[f]} = {wrote[f]} -> unsaved \ {f}
        [] OTHER -> unsaved

Saved(r) ==
  LET q == req[r]
      f == q.file
      marks == IF q.ok THEN dirty \ {f} ELSE dirty
      presave == q.by = "run" /\ running.at = "saving" /\ running.file = f
  IN  /\ Answers(r, "save") /\ q.by # "gone" /\ Take(r)
      /\ lastSaved' = IF q.ok THEN [lastSaved EXCEPT ![f] = Marked(q)] ELSE lastSaved
      /\ isSaving' = (isSaving /\ q.by # "button")
      /\ text' = IF q.ok /\ q.by = "run" THEN [text EXCEPT ![f] = q.content] ELSE text
      /\ running' = IF presave THEN [running EXCEPT !.at = "mode"] ELSE running
      /\ unsaved' = Confirms(r)
      /\ Taken /\ UNCHANGED <<loaded, active, contentLoading, preview, typed, wrote>>
      /\ Mounts
      /\ IF q.by \in {"button", "run"} THEN Draws(marks)
         ELSE dirty' = marks /\ UNCHANGED <<drawn, timer>>

Ran(r) ==
  /\ Answers(r, "run") /\ req[r].by # "gone" /\ Take(r)
  /\ Taken /\ UNCHANGED <<editorVars, userVars>>

\* Nobody waits for it any more.
Gone(r) ==
  /\ req[r].at = "done" /\ req[r].by = "gone" /\ Take(r)
  /\ Taken /\ UNCHANGED <<editorVars, userVars>>

-----------------------------------------------------------------------------
Serves(r) == (Works(r) \/ Fails(r)) /\ UNCHANGED <<editorVars, userVars>>
Receives(r) == Loaded(r) \/ Saved(r) \/ Ran(r) \/ Gone(r)

Next ==
  \/ TypeSomething \/ TogglePreview \/ ChooseMode \/ Reload \/ Draw \/ AutoSave
  \/ \E f \in Files : Select(f) \/ PressSave(f) \/ PressRun(f)
  \/ Restart /\ UNCHANGED <<editorVars, userVars>>
  \/ \E r \in Requests : Serves(r) \/ Receives(r)

Spec == Init /\ [][Next]_vars

\* The component is drawn again every second, with the session's clock; the
\* timer runs out; a handler ends; an answer, or its loss, is noticed.
FairSpec ==
  /\ Spec /\ WF_vars(Draw) /\ WF_vars(AutoSave)
  /\ \A r \in Requests : /\ WF_vars(Works(r) /\ UNCHANGED <<editorVars, userVars>>)
                         /\ WF_vars(Receives(r))

-----------------------------------------------------------------------------
(* Properties. *)

Contents == -(Starter + MaxSpent)..(Starter + MaxSpent)

TypeOK ==
  /\ {disk, record, cache, acked, text, lastSaved, wrote} \subseteq [Files -> Contents]
  /\ index \in [Files -> Contents] \cup {NoIndex}
  /\ \A r \in Requests : /\ req[r].file \in Files \cup {NoFile}
                         /\ req[r].content \in Contents
                         /\ req[r].snap \in [Files -> Contents] \cup {<<>>}
  /\ {crossed, stale, loaded, dirty, unsaved} \subseteq SUBSET Files
  /\ {active, contentLoading, running.file} \subseteq Files \cup {NoFile}
  /\ {timer, isSaving, preview, mounted} \subseteq BOOLEAN
  /\ spent \in 0..MaxSpent /\ typed \in 0..MaxSpent

AtRest(f) == Saves(f) = {} /\ ~isSaving /\ ~timer /\ drawn = Drawing

\* Once the editor is at rest, what was typed last into a file is what the
\* server acknowledged last for it, whether the timer, the button, a switch
\* to another file or a run has saved it.  Edits are lost only where they
\* were made while the file was being loaded, saved or run, by this page or
\* the one before, where a save failed or two were answered out of order,
\* where the timer or the button saved the nothing that the editor holds once
\* the preview has taken its place (Editor.tsx:1647, 2952-2964), or where they
\* went back to what was loaded while the file was written or after writes of
\* it had overlapped or failed.
TypedIsSaved ==
  \A f \in Files :
    AtRest(f) => \/ wrote[f] \in {None, acked[f]} \/ f \in unsaved
                 \/ wrote[f] = lastSaved[f] /\ f \in stale \cup crossed

\* The container holds the last save that was acknowledged, after any number
\* of saves, loads and test runs, unless two writers of the file overlapped
\* or a write to the container failed: a save's, which is acknowledged all the
\* same (fileRepository.js:617-622), or a run's, also the one that puts the
\* student's program back (FileSync.js:10-16, ExecuteCommand.js:243-248).
AcknowledgedIsKept ==
  \A f \in Files : Writing(f) = {} => disk[f] = acked[f] \/ f \in crossed

\* A load is answered with the last acknowledged save, from whichever of the
\* three copies, or from S3, it is served and after a restart of the server too,
\* unless the file was read while it was written, two lists of files
\* overlapped or could not be stored, writers of the file overlapped or a write
\* to the container failed, or there is no copy of it at all
\* (fileRepository.js:550).
ServedIsSaved ==
  \A r \in Requests :
    LET q == req[r]
    IN  (q.op = "content" /\ q.at = "done" /\ q.ok)
          => q.content = acked[q.file] \/ q.file \in stale \cup crossed

\* An edit of the file in view is saved in the end.
EditsSettle ==
  \A f \in Files : (f \in dirty /\ active = f)
                     ~> (wrote[f] \in {None, acked[f]} \/ f \in unsaved \cup stale)

\* A file that is still loading is never written over with an empty one
\* (Editor.tsx:1351).
NeverBlanked == \A r \in Requests : req[r].op = "save" => req[r].content # Blank
=============================================================================
