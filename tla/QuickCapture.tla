---------------------------- MODULE QuickCapture ----------------------------
(***************************************************************************)
(* The quick capture window: a note is typed with #tags and a @project,    *)
(* saved to today's journal, and can be undone or opened for a moment      *)
(* (quick-capture/QuickCapture.tsx, useQuickCapture.ts, parser.ts,         *)
(* QuickEditor.tsx; journal.Service.AppendEntry; quickcapture/window.go).  *)
(*                                                                         *)
(*   draft       the words of the note; typing: the caret is right after   *)
(*               the last of them                                          *)
(*   window      what the window holds besides                             *)
(*   suggest     the list of projects under the caret                      *)
(*   saves       AppendEntry calls; undos: DeleteEntry calls               *)
(*   captured    the entries in the journal files, by file date            *)
(*   today       the day of the clock, read separately by every step       *)
(*   lastProject what localStorage keeps; heard: the main window           *)
(***************************************************************************)
EXTENDS Integers, Sequences, FiniteSets

CONSTANTS CaptureProjects,   \* the active projects, in order
          CaptureWords,      \* words: [is |-> "text" | "tag" | "project", v |-> ...]
          NoCapture,         \* no entry
          MaxDraft,          \* words of a draft
          MaxCaptureSteps

VARIABLES draft, window, suggest, saves, undos, captured, today, lastProject, heard,
          captureSteps

captureVars == <<draft, window, suggest, saves, undos, captured, today, lastProject,
                 heard, captureSteps>>
outside == <<undos, captured, today, lastProject, heard>>

Aliases == {CaptureProjects[i] : i \in DOMAIN CaptureProjects}

CaptureStep == captureSteps < MaxCaptureSteps /\ captureSteps' = captureSteps + 1

----------------------------------------------------------------------------
(* The parser.  A lone @ is text.                                          *)

IsProject(w) == w.is = "project" /\ w.v # ""

ParseTags(d) == {d[i].v : i \in {j \in DOMAIN d : d[j].is = "tag"}}

\* The last one named, or the one there was.
ParseProject(d, old) ==
    LET named == SelectSeq(d, IsProject)
    IN  IF named = <<>> THEN old ELSE named[Len(named)].v

ParseContent(d) == SelectSeq(d, LAMBDA w : w.is # "tag" /\ ~IsProject(w))

----------------------------------------------------------------------------
(* The editor.                                                             *)

\* getProjectTrigger: a project is being typed at the caret.
Trigger(d, typing) == typing /\ d # <<>> /\ d[Len(d)].is = "project"

Filtered(d) == SelectSeq(CaptureProjects, LAMBDA p : d[Len(d)].v \in {"", p})

ShowProjectList ==
    /\ Trigger(draft, suggest.typing) /\ ~suggest.dismissed
    /\ window.projects /\ Filtered(draft) # <<>>

\* setContent with the effects that reset the list.  A key typed takes back
\* "press Esc again to discard".
SetContent(d, typing, hint) ==
    /\ draft' = d
    /\ window' = [window EXCEPT !.selected = ParseProject(d, @), !.hint = hint]
    /\ suggest' = [typing |-> typing, at |-> 1, dismissed |-> FALSE]
    /\ UNCHANGED <<saves, outside>>

Editing == CaptureStep /\ window.open /\ ~window.loading

TypeWord(w) == /\ Editing /\ Len(draft) < MaxDraft
               /\ SetContent(Append(draft, w), TRUE, FALSE)

TypeSpace == Editing /\ suggest.typing /\ SetContent(draft, FALSE, FALSE)

EraseWord == Editing /\ draft # <<>> /\ SetContent(SubSeq(draft, 1, Len(draft) - 1), FALSE, FALSE)

\* insertProject, then a space.
InsertProject(i) ==
    /\ Editing /\ ShowProjectList /\ i \in DOMAIN Filtered(draft)
    /\ SetContent(Append(SubSeq(draft, 1, Len(draft) - 1), [is |-> "project", v |-> Filtered(draft)[i]]), FALSE,
                  window.hint)

\* Enter or Tab takes the highlighted project, a click any.
TakeHighlighted == InsertProject(suggest.at)

MoveHighlight(by) ==
    LET len == Len(Filtered(draft))
        next == suggest.at + by
    IN  /\ Editing /\ ShowProjectList
        /\ suggest' = [suggest EXCEPT !.at = IF next < 1 THEN len
                                             ELSE IF next > len THEN 1 ELSE next]
        /\ UNCHANGED <<draft, window, saves, outside>>

RemoveTag(t) ==
    /\ Editing /\ t \in ParseTags(draft)
    /\ SetContent(SelectSeq(draft, LAMBDA w : ~(w.is = "tag" /\ w.v = t)), FALSE, window.hint)

----------------------------------------------------------------------------
(* The window.                                                             *)

NewWindow == [open |-> TRUE, loading |-> TRUE, projects |-> FALSE, selected |-> lastProject,
              error |-> FALSE, hint |-> FALSE, flash |-> FALSE, saving |-> FALSE,
              saved |-> NoCapture, closing |-> FALSE]

Resting == [typing |-> FALSE, at |-> 1, dismissed |-> FALSE]

\* The state of the window is gone with it; answers on their way are not heard.
Closed == [NewWindow EXCEPT !.open = FALSE, !.loading = FALSE, !.selected = "none"]

CloseWindow ==
    /\ window' = Closed
    /\ draft' = <<>> /\ suggest' = Resting
    /\ saves' = {[s EXCEPT !.heard = FALSE] : s \in saves}
    /\ undos' = {[u EXCEPT !.heard = FALSE] : u \in undos}

\* The global hotkey: one that is open is only brought to the front.
ShowWindow ==
    /\ CaptureStep /\ ~window.open
    /\ window' = NewWindow
    /\ UNCHANGED <<draft, suggest, saves, outside>>

ListActiveProjects(answered) ==
    /\ window.open /\ window.loading
    /\ window' = [window EXCEPT !.loading = FALSE, !.projects = answered]
    /\ UNCHANGED <<draft, suggest, saves, outside, captureSteps>>

\* Escape with the list open closes the list only.
DismissList ==
    /\ Editing /\ ShowProjectList
    /\ suggest' = [suggest EXCEPT !.dismissed = TRUE, !.at = 1]
    /\ UNCHANGED <<draft, window, saves, outside>>

\* Escape, or Cancel: with text it takes two.
HandleCancel ==
    /\ CaptureStep /\ window.open /\ ~ShowProjectList
    /\ IF draft = <<>> \/ window.hint
       THEN CloseWindow /\ UNCHANGED <<captured, today, lastProject, heard>>
       ELSE /\ window' = [window EXCEPT !.hint = TRUE]
            /\ UNCHANGED <<draft, suggest, saves, outside>>

----------------------------------------------------------------------------
(* Saving.                                                                 *)

NotSaving == ~window.saving

\* handleSave and save: the hotkey works whatever the buttons say.
PressSave(keepOpen) ==
    /\ CaptureStep /\ window.open /\ NotSaving
    /\ IF window.selected = "none" \/ ParseContent(draft) = <<>>
       THEN window' = [window EXCEPT !.error = TRUE] /\ UNCHANGED saves
       ELSE /\ window' = [window EXCEPT !.saving = TRUE, !.error = FALSE]
            /\ saves' = saves \cup
                  {[id |-> captureSteps + 1, project |-> window.selected,
                    keepOpen |-> keepOpen, state |-> "sent", date |-> 0, created |-> 0,
                    heard |-> TRUE]}
    /\ UNCHANGED <<draft, suggest, outside>>

Becomes(s, t) == saves' = (saves \ {s}) \cup {t}

\* AppendEntry takes the date of the file first ...
AppendEntryDate(s) ==
    /\ s.state = "sent"
    /\ Becomes(s, [s EXCEPT !.state = "dated", !.date = today])
    /\ UNCHANGED <<draft, window, suggest, outside, captureSteps>>

\* ... and stamps the entry with a second reading of the clock.
AppendEntryWrites(s) ==
    /\ s.state = "dated"
    /\ Becomes(s, [s EXCEPT !.state = "written", !.created = today])
    /\ captured' = captured \cup
           {[id |-> s.id, project |-> s.project, date |-> s.date]}
    /\ UNCHANGED <<draft, window, suggest, undos, today, lastProject, heard,
                   captureSteps>>

AppendEntryFails(s) ==
    /\ s.state \in {"sent", "dated"}
    /\ Becomes(s, [s EXCEPT !.state = "failed"])
    /\ UNCHANGED <<draft, window, suggest, outside, captureSteps>>

\* Mutant: the date is that of the window's clock when the answer comes.
DateOfAnswer(s) == today

EntryDate(s) == s.created

\* The answer empties the editor, also of what was typed since.
SaveAnswers(s) ==
    LET entry == [id |-> s.id, project |-> s.project, date |-> EntryDate(s),
                  split |-> s.date # s.created]
        done == [window EXCEPT !.saving = FALSE]
    IN  /\ s.state \in {"written", "failed"}
        /\ saves' = saves \ {s}
        /\ IF ~s.heard THEN UNCHANGED <<draft, window, suggest, lastProject>>
           ELSE IF s.state = "failed"
           THEN window' = [done EXCEPT !.error = TRUE]
                /\ UNCHANGED <<draft, suggest, lastProject>>
           ELSE /\ draft' = <<>> /\ suggest' = Resting
                /\ lastProject' = s.project
                /\ window' = IF s.keepOpen THEN [done EXCEPT !.flash = TRUE]
                             ELSE [done EXCEPT !.saved = entry, !.closing = TRUE]
        /\ UNCHANGED <<undos, captured, today, heard, captureSteps>>

FlashTimer ==
    /\ window.flash /\ window' = [window EXCEPT !.flash = FALSE]
    /\ UNCHANGED <<draft, suggest, saves, outside, captureSteps>>

\* What has been typed since is closed away with the window.
CloseTimer ==
    /\ window.closing /\ CloseWindow
    /\ UNCHANGED <<captured, today, lastProject, heard, captureSteps>>

HandleUndo ==
    /\ CaptureStep /\ window.saved # NoCapture
    /\ window' = [window EXCEPT !.saved = NoCapture, !.closing = FALSE]
    /\ undos' = undos \cup {[entry |-> window.saved, state |-> "sent", heard |-> TRUE]}
    /\ UNCHANGED <<draft, suggest, saves, captured, today, lastProject, heard>>

\* DeleteEntry looks in the file of that project and date.
DeleteEntry(u) ==
    /\ u.state = "sent"
    /\ undos' = undos \ {u}
    /\ captured' = {e \in captured : ~(/\ e.id = u.entry.id
                                       /\ e.project = u.entry.project
                                       /\ e.date = u.entry.date)}
    /\ UNCHANGED <<draft, window, suggest, saves, today, lastProject, heard,
                   captureSteps>>

DeleteEntryFails(u) ==
    /\ undos' = undos \ {u}
    /\ UNCHANGED <<draft, window, suggest, saves, captured, today, lastProject, heard,
                   captureSteps>>

\* The main window goes to the journal; it selects a project it knows.
HandleOpen ==
    /\ CaptureStep /\ window.saved # NoCapture
    /\ CloseWindow
    /\ heard' = [project |-> IF window.saved.project \in Aliases THEN window.saved.project
                             ELSE heard.project,
                 date |-> window.saved.date]
    /\ UNCHANGED <<captured, today, lastProject>>

Midnight ==
    /\ CaptureStep /\ today' = today + 1
    /\ UNCHANGED <<draft, window, suggest, saves, undos, captured, lastProject, heard>>

----------------------------------------------------------------------------
CaptureInit ==
    /\ lastProject \in {"none"} \cup Aliases
    /\ window = NewWindow
    /\ draft = <<>> /\ suggest = Resting
    /\ saves = {} /\ undos = {} /\ captured = {}
    /\ today = 1
    /\ heard = [project |-> "none", date |-> 0]
    /\ captureSteps = 0

CaptureNext ==
    \/ \E w \in CaptureWords : TypeWord(w)
    \/ TypeSpace \/ EraseWord \/ TakeHighlighted \/ DismissList
    \/ \E i \in DOMAIN CaptureProjects : InsertProject(i)
    \/ \E by \in {1, -1} : MoveHighlight(by)
    \/ \E t \in ParseTags(draft) : RemoveTag(t)
    \/ ShowWindow \/ HandleCancel \/ FlashTimer \/ CloseTimer \/ HandleUndo \/ HandleOpen
    \/ \E answered, keepOpen \in BOOLEAN : ListActiveProjects(answered) \/ PressSave(keepOpen)
    \/ \E s \in saves : \/ AppendEntryDate(s) \/ AppendEntryWrites(s)
                        \/ AppendEntryFails(s) \/ SaveAnswers(s)
    \/ \E u \in undos : DeleteEntry(u) \/ DeleteEntryFails(u)
    \/ Midnight

CaptureSpec == CaptureInit /\ [][CaptureNext]_captureVars

----------------------------------------------------------------------------
(* Undo finds the entry: while the success bar offers it, and when the     *)
(* call is made, the entry is in the file of the project and date that are *)
(* sent, also when midnight passes while the save is under way.  Excepted  *)
(* is an entry AppendEntry dated before midnight and stamped after it.     *)
UndoFindsCapture ==
    \A s \in ({window.saved} \cup {u.entry : u \in undos}) \ {NoCapture} :
        \/ s.split
        \/ \E e \in captured : /\ e.id = s.id /\ e.project = s.project
                               /\ e.date = s.date

=============================================================================
