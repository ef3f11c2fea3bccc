----------------------------- MODULE NoteProofs -----------------------------
(***************************************************************************)
(* Proofs about the quick capture window and the journal page (what an     *)
(* undo asks for is there), about the text editor (what it shows has       *)
(* reached the form, and no stand-in for a block) and about the canvas (the*)
(* newest scene reaches the form with its images), for any number of steps.*)
(***************************************************************************)
EXTENDS Journal, QuickCapture, RichText, CanvasScene, TLAPS

----------------------------------------------------------------------------
(* Quick capture.                                                          *)

(* A save, an undo and an entry on offer have the fields the proofs use.   *)
SaveShape(s) ==
    /\ {"id", "project", "keepOpen", "state", "date", "created", "heard"} \subseteq DOMAIN s
    /\ s.id \in Int /\ s.id <= captureSteps
EntryShape(e) == {"id", "project", "date", "split"} \subseteq DOMAIN e
UndoShape(u) == {"entry", "state", "heard"} \subseteq DOMAIN u

Written(e) == \E f \in captured : f.id = e.id /\ f.project = e.project /\ f.date = e.date

(* A capture is in one place only: a save under way, the success bar, or   *)
(* an undo; in the last two it is in the journal file.                     *)
CaptureInvariant ==
    /\ captureSteps \in Int
    /\ {"saved", "open"} \subseteq DOMAIN window
    /\ \A s \in saves : SaveShape(s)
    /\ \A s, t \in saves : s.id = t.id => s = t
    /\ \A u \in undos : /\ UndoShape(u) /\ EntryShape(u.entry)
                        /\ u.entry.id \in Int /\ u.entry.id <= captureSteps
    /\ \A u, v \in undos : u.entry.id = v.entry.id => u = v
    /\ \A u \in undos, s \in saves : u.entry.id # s.id
    /\ window.saved # NoCapture =>
          /\ EntryShape(window.saved)
          /\ window.saved.id \in Int /\ window.saved.id <= captureSteps
          /\ \A s \in saves : s.id # window.saved.id
          /\ \A u \in undos : u.entry.id # window.saved.id
    /\ \A s \in saves : s.state = "written" => Written(s)
    /\ UndoFindsCapture

\* A step that leaves calls and files alone, and offers nothing new for undo.
Quiet ==
    /\ UNCHANGED <<saves, undos, captured>>
    /\ captureSteps' \in {captureSteps, captureSteps + 1}
    /\ {"saved", "open"} \subseteq DOMAIN window'
    /\ window'.saved \in {window.saved, NoCapture}

\* Such a step keeps every offered capture where undo will look for it.
LEMMA QuietKeeps ==
    ASSUME CaptureInvariant, Quiet
    PROVE  CaptureInvariant'
<1>1. /\ captureSteps \in Int /\ captureSteps' \in Int /\ captureSteps <= captureSteps'
  BY DEF CaptureInvariant, Quiet
<1>2. \A s \in saves : SaveShape(s)'
  BY <1>1 DEF CaptureInvariant, SaveShape
<1>3. UndoFindsCapture'
  BY Zenon DEF CaptureInvariant, Quiet, UndoFindsCapture
<1>4. \A s \in saves : s.state = "written" => Written(s)'
  BY Zenon DEF CaptureInvariant, Quiet, Written
<1> QED
  BY <1>1, <1>2, <1>3, <1>4 DEF CaptureInvariant, Quiet

\* Closing the window: the calls go on, unheard.
LEMMA CloseKeeps ==
    ASSUME CaptureInvariant, CloseWindow, UNCHANGED captured,
           captureSteps' \in {captureSteps, captureSteps + 1}
    PROVE  CaptureInvariant'
<1> DEFINE Deaf(r) == [r EXCEPT !.heard = FALSE]
<1>1. /\ saves' = {Deaf(s) : s \in saves} /\ undos' = {Deaf(u) : u \in undos}
      /\ window' = Closed
  BY Zenon DEF CloseWindow
<1>2. \A r : /\ DOMAIN Deaf(r) = DOMAIN r
             /\ {"id", "project", "state", "date"} \subseteq DOMAIN r =>
                   /\ Deaf(r).id = r.id /\ Deaf(r).project = r.project
                   /\ Deaf(r).state = r.state /\ Deaf(r).date = r.date
             /\ {"entry"} \subseteq DOMAIN r => Deaf(r).entry = r.entry
  BY Zenon
<1> HIDE DEF Deaf
<1>3. {"saved", "open"} \subseteq DOMAIN window' /\ window'.saved = NoCapture
  BY <1>1, Zenon DEF Closed, NewWindow
<1>4. /\ captureSteps \in Int /\ captureSteps' \in Int /\ captureSteps <= captureSteps'
  BY DEF CaptureInvariant
<1>5. \A s \in saves : /\ SaveShape(Deaf(s))' /\ Deaf(s).id = s.id
                       /\ Deaf(s).state = "written" => Written(Deaf(s))'
  BY <1>2, <1>4 DEF CaptureInvariant, SaveShape, Written
<1>6. \A u \in undos : /\ UndoShape(Deaf(u)) /\ Deaf(u).entry = u.entry
  BY <1>2 DEF CaptureInvariant, UndoShape
<1>7. UndoFindsCapture'
  BY <1>1, <1>3, <1>6, SMTT(30) DEF CaptureInvariant, UndoFindsCapture
<1> QED
  BY <1>1, <1>3, <1>4, <1>5, <1>6, <1>7, SMTT(30) DEF CaptureInvariant, EntryShape

\* A new save has a number no other capture has.
LEMMA PressKeeps ==
    ASSUME CaptureInvariant, NEW keepOpen \in BOOLEAN, PressSave(keepOpen)
    PROVE  CaptureInvariant'
<1>1. /\ captureSteps' = captureSteps + 1 /\ UNCHANGED <<undos, captured>>
      /\ captureSteps \in Int
  BY Zenon DEF PressSave, CaptureStep, outside, CaptureInvariant
<1>2. CASE window' = [window EXCEPT !.error = TRUE] /\ UNCHANGED saves
  <2>1. Quiet
    BY <1>1, <1>2, Zenon DEF CaptureInvariant, Quiet
  <2> QED
    BY <2>1, QuietKeeps, Zenon
<1>3. ASSUME window' = [window EXCEPT !.saving = TRUE, !.error = FALSE],
             NEW s, s = [id |-> captureSteps + 1, project |-> window.selected,
                         keepOpen |-> keepOpen, state |-> "sent", date |-> 0, created |-> 0,
                         heard |-> TRUE],
             saves' = saves \cup {s}
      PROVE  CaptureInvariant'
  <2>1. /\ {"saved", "open"} \subseteq DOMAIN window' /\ window'.saved = window.saved
    BY <1>3, Zenon DEF CaptureInvariant
  <2>2. SaveShape(s)' /\ s.id = captureSteps + 1 /\ s.state = "sent"
    BY <1>1, <1>3 DEF SaveShape
  <2>3. \A t \in saves : SaveShape(t)' /\ t.id # s.id
    BY <1>1, <2>2 DEF CaptureInvariant, SaveShape
  <2>4. \A u \in undos : u.entry.id # s.id
    BY <1>1, <2>2 DEF CaptureInvariant
  <2>5. UndoFindsCapture'
    BY <1>1, <2>1, Zenon DEF CaptureInvariant, UndoFindsCapture
  <2>6. \A t \in saves : t.state = "written" => Written(t)'
    BY <1>1, Zenon DEF CaptureInvariant, Written
  <2> QED
    <3>1. \A q, r \in saves' : q.id = r.id => q = r
      BY <1>3, <2>3, ZenonT(30) DEF CaptureInvariant
    <3>2. \A u \in undos : /\ UndoShape(u) /\ EntryShape(u.entry)
                          /\ u.entry.id \in Int /\ u.entry.id <= captureSteps'
      BY <1>1 DEF CaptureInvariant
    <3>3. \A u \in undos, r \in saves' : u.entry.id # r.id
      BY <1>1, <1>3, <2>2, <2>4, Zenon DEF CaptureInvariant
    <3>4. window.saved # NoCapture =>
            /\ EntryShape(window.saved)
            /\ window.saved.id \in Int /\ window.saved.id <= captureSteps'
            /\ \A r \in saves' : r.id # window.saved.id
            /\ \A u \in undos : u.entry.id # window.saved.id
      BY <1>1, <1>3, <2>2, SMTT(30) DEF CaptureInvariant
    <3>5. \A r \in saves' : SaveShape(r)' /\ (r.state = "written" => Written(r)')
      BY <1>3, <2>2, <2>3, <2>6, ZenonT(30)
    <3>6. captureSteps' \in Int
      BY <1>1
    <3> QED
      BY <1>1, <2>1, <2>5, <3>1, <3>2, <3>3, <3>4, <3>5, <3>6, Zenon DEF CaptureInvariant, EntryShape, UndoShape
<1> QED
  BY <1>2, <1>3, ZenonT(30) DEF PressSave

\* The backend dates, writes or gives up an entry.
LEMMA AppendKeeps ==
    ASSUME CaptureInvariant, NEW s \in saves,
           AppendEntryDate(s) \/ AppendEntryWrites(s) \/ AppendEntryFails(s)
    PROVE  CaptureInvariant'
<1> DEFINE New == [id |-> s.id, project |-> s.project, date |-> s.date]
<1>1. SaveShape(s) /\ captureSteps \in Int
  BY Zenon DEF CaptureInvariant
<1>2. PICK t : /\ saves' = (saves \ {s}) \cup {t} /\ SaveShape(t) /\ t.id = s.id
               /\ t.state = "written" => /\ t.project = s.project /\ t.date = s.date
                                         /\ captured' = captured \cup {New}
               /\ captured' \in {captured, captured \cup {New}}
  <2> DEFINE Dated == [s EXCEPT !.state = "dated", !.date = today]
             Stamped == [s EXCEPT !.state = "written", !.created = today]
             Failed == [s EXCEPT !.state = "failed"]
  <2>1. /\ SaveShape(Dated) /\ Dated.id = s.id /\ Dated.state = "dated"
        /\ SaveShape(Failed) /\ Failed.id = s.id /\ Failed.state = "failed"
    BY <1>1, Zenon DEF SaveShape
  <2>2. /\ SaveShape(Stamped) /\ Stamped.id = s.id /\ Stamped.project = s.project
        /\ Stamped.date = s.date
    BY <1>1, Zenon DEF SaveShape
  <2>3. \/ saves' = (saves \ {s}) \cup {Dated} /\ captured' = captured
        \/ saves' = (saves \ {s}) \cup {Failed} /\ captured' = captured
        \/ saves' = (saves \ {s}) \cup {Stamped} /\ captured' = captured \cup {New}
    BY Zenon DEF AppendEntryDate, AppendEntryWrites, AppendEntryFails, Becomes, outside
  <2> HIDE DEF Dated, Stamped, Failed, New
  <2> QED
    BY <2>1, <2>2, <2>3, Zenon
<1>3. UNCHANGED <<window, undos, captureSteps>>
  BY Zenon DEF AppendEntryDate, AppendEntryWrites, AppendEntryFails, outside
<1>4. captured \subseteq captured' /\ New.id = s.id /\ New.project = s.project /\ New.date = s.date
  BY <1>2, Zenon
<1> HIDE DEF New
<1>5. UndoFindsCapture'
  BY <1>3, <1>4, Zenon DEF CaptureInvariant, UndoFindsCapture
<1>6. \A r \in saves' : r.state = "written" => Written(r)'
  <2>1. ASSUME NEW r \in saves, r.state = "written"
        PROVE  Written(r)'
    BY <1>4, <2>1, Zenon DEF CaptureInvariant, Written
  <2>2. t.state = "written" => Written(t)'
    BY <1>2, <1>4, Zenon DEF Written
  <2> QED
    BY <1>2, <2>1, <2>2, Zenon
<1>7. \A r \in saves' : SaveShape(r)' /\ \E q \in saves : q.id = r.id
  BY <1>2, <1>3, Zenon DEF CaptureInvariant, SaveShape
<1>8. \A q, r \in saves' : q.id = r.id => q = r
  BY <1>2, SMTT(30) DEF CaptureInvariant
<1> QED
  BY <1>3, <1>5, <1>6, <1>7, <1>8, SMTT(30) DEF CaptureInvariant, EntryShape, UndoShape

\* The answer hands a capture over from the save to the success bar.
LEMMA AnswersKeep ==
    ASSUME CaptureInvariant, NEW s \in saves, SaveAnswers(s)
    PROVE  CaptureInvariant'
<1> DEFINE entry == [id |-> s.id, project |-> s.project, date |-> EntryDate(s),
                     split |-> s.date # s.created]
<1>1. /\ saves' = saves \ {s} /\ UNCHANGED <<undos, captured, captureSteps>>
      /\ s.state \in {"written", "failed"}
  BY Zenon DEF SaveAnswers
<1>2. \/ window' = window
      \/ /\ {"saved", "open"} \subseteq DOMAIN window' /\ window'.saved = window.saved
      \/ /\ {"saved", "open"} \subseteq DOMAIN window' /\ window'.saved = entry
         /\ s.state = "written"
  <2> DEFINE done == [window EXCEPT !.saving = FALSE]
  <2>1. \/ window' = window \/ window' = [done EXCEPT !.error = TRUE]
        \/ window' = [done EXCEPT !.flash = TRUE]
        \/ window' = [done EXCEPT !.saved = entry, !.closing = TRUE] /\ s.state = "written"
    BY <1>1, ZenonT(30) DEF SaveAnswers
  <2>2. {"saved", "open"} \subseteq DOMAIN window
    BY Zenon DEF CaptureInvariant
  <2> HIDE DEF entry
  <2> QED
    BY <2>1, <2>2, ZenonT(30)
<1>3. /\ EntryShape(entry) /\ entry.id = s.id
      /\ s.state = "written" => entry.split \/ Written(entry)
  <2>1. /\ entry.id = s.id /\ entry.project = s.project /\ entry.date = s.created
        /\ EntryShape(entry)
    BY Zenon DEF EntryDate, EntryShape
  <2>2. s.date # s.created => entry.split
    BY Zenon
  <2>3. s.state = "written" => Written(s)
    BY Zenon DEF CaptureInvariant
  <2> HIDE DEF entry
  <2>4. s.date = s.created /\ Written(s) => Written(entry)
    BY <2>1, Zenon DEF Written
  <2> QED
    BY <2>1, <2>2, <2>3, <2>4, ZenonT(30)
<1> HIDE DEF entry
<1>4. CASE {"saved", "open"} \subseteq DOMAIN window' /\ window'.saved = window.saved
  <2>1. UndoFindsCapture'
    BY <1>1, <1>4, Zenon DEF CaptureInvariant, UndoFindsCapture
  <2> QED
    BY <1>1, <1>4, <2>1, SMTT(30) DEF CaptureInvariant, SaveShape, Written
<1>5. CASE /\ {"saved", "open"} \subseteq DOMAIN window' /\ window'.saved = entry
           /\ s.state = "written"
  <2>1. UndoFindsCapture'
    BY <1>1, <1>3, <1>5, SMTT(30) DEF CaptureInvariant, UndoFindsCapture, Written
  <2>2. SaveShape(s) /\ \A t \in saves' : t.id # s.id
    BY <1>1, Zenon DEF CaptureInvariant
  <2>3. \A u \in undos : u.entry.id # s.id
    BY Zenon DEF CaptureInvariant
  <2> QED
    BY <1>1, <1>3, <1>5, <2>1, <2>2, <2>3, SMTT(30) DEF CaptureInvariant, SaveShape, Written
<1> QED
  BY <1>2, <1>4, <1>5, Zenon DEF CaptureInvariant

\* "Undo" hands it over to a call, and takes the offer back.
LEMMA UndoKeeps ==
    ASSUME CaptureInvariant, HandleUndo
    PROVE  CaptureInvariant'
<1>1. PICK u : /\ u = [entry |-> window.saved, state |-> "sent", heard |-> TRUE]
               /\ undos' = undos \cup {u} /\ window.saved # NoCapture
               /\ window' = [window EXCEPT !.saved = NoCapture, !.closing = FALSE]
               /\ captureSteps' = captureSteps + 1 /\ UNCHANGED <<saves, captured>>
  BY Zenon DEF HandleUndo, CaptureStep
<1>2. UndoShape(u) /\ u.entry = window.saved
  BY <1>1, Zenon DEF UndoShape
<1>3. {"saved", "open"} \subseteq DOMAIN window' /\ window'.saved = NoCapture
  BY <1>1, Zenon DEF CaptureInvariant
<1>4. /\ captureSteps \in Int /\ captureSteps' \in Int /\ captureSteps <= captureSteps'
  BY <1>1 DEF CaptureInvariant
<1>5. UndoFindsCapture'
  BY <1>1, <1>2, <1>3 DEF CaptureInvariant, UndoFindsCapture
<1>6. \A s \in saves : SaveShape(s)' /\ (s.state = "written" => Written(s)')
  BY <1>1, <1>4, SMTT(30) DEF CaptureInvariant, SaveShape, Written
<1> QED
  <2>1. \A v \in undos' : /\ UndoShape(v) /\ EntryShape(v.entry)
                         /\ v.entry.id \in Int /\ v.entry.id <= captureSteps'
    <3>1. \A v \in undos' : v \in undos \/ v = u
      BY <1>1, Zenon
    <3>2. /\ EntryShape(u.entry) /\ u.entry.id \in Int /\ u.entry.id <= captureSteps
          /\ \A v \in undos : /\ UndoShape(v) /\ EntryShape(v.entry)
                             /\ v.entry.id \in Int /\ v.entry.id <= captureSteps
      BY <1>1, <1>2, ZenonT(30) DEF CaptureInvariant
    <3> QED
      BY <1>2, <1>4, <3>1, <3>2, SMTT(30)
  <2>2. /\ \A v, w \in undos : v.entry.id = w.entry.id => v = w
        /\ \A v \in undos, s \in saves : v.entry.id # s.id
        /\ \A v \in undos : v.entry.id # u.entry.id
        /\ \A s \in saves : s.id # u.entry.id
    BY <1>1, <1>2, ZenonT(30) DEF CaptureInvariant
  <2>3. /\ \A v, w \in undos' : v.entry.id = w.entry.id => v = w
        /\ \A v \in undos', s \in saves : v.entry.id # s.id
    <3>1. \A v \in undos' : v \in undos \/ v = u
      BY <1>1, Zenon
    <3>2. ASSUME NEW v \in undos', NEW w \in undos', v.entry.id = w.entry.id PROVE v = w
      BY <2>2, <3>1, <3>2, Zenon
    <3>3. ASSUME NEW v \in undos', NEW s \in saves PROVE v.entry.id # s.id
      BY <2>2, <3>1, <3>3, Zenon
    <3> QED
      BY <3>2, <3>3, Zenon
  <2>4. \A s, t \in saves : s.id = t.id => s = t
    BY Zenon DEF CaptureInvariant
  <2> QED
    BY <1>1, <1>3, <1>4, <1>5, <1>6, <2>1, <2>3, <2>4, Zenon DEF CaptureInvariant, EntryShape, UndoShape

\* A deletion takes its own entry away, which nothing else offers.
LEMMA DeletionKeeps ==
    ASSUME CaptureInvariant, NEW u \in undos, DeleteEntry(u) \/ DeleteEntryFails(u)
    PROVE  CaptureInvariant'
<1>1. /\ undos' = undos \ {u} /\ UNCHANGED <<window, saves, captureSteps>>
      /\ \A e \in captured : e.id # u.entry.id => e \in captured'
  BY Zenon DEF DeleteEntry, DeleteEntryFails
<1>2. \A v \in undos' : v.entry.id # u.entry.id
  BY <1>1, Zenon DEF CaptureInvariant
<1>3. UndoFindsCapture'
  BY <1>1, <1>2, SMTT(30) DEF CaptureInvariant, UndoFindsCapture
<1>4. \A s \in saves : SaveShape(s)' /\ (s.state = "written" => Written(s)')
  BY <1>1 DEF CaptureInvariant, SaveShape, Written
<1> QED
  BY <1>1, <1>3, <1>4, Zenon DEF CaptureInvariant

\* At first nothing is saved and nothing is offered.
LEMMA CaptureStarts ==
    ASSUME CaptureInit
    PROVE  CaptureInvariant
<1>1. /\ saves = {} /\ undos = {} /\ captureSteps = 0 /\ window.saved = NoCapture
      /\ {"saved", "open"} \subseteq DOMAIN window
  BY Zenon DEF CaptureInit, NewWindow
<1> QED
  BY <1>1 DEF CaptureInvariant, UndoFindsCapture

\* Every step keeps the invariant.
LEMMA CaptureStepKeeps ==
    ASSUME CaptureInvariant, [CaptureNext]_captureVars
    PROVE  CaptureInvariant'
<1> DEFINE Goal == CaptureInvariant'
<1>1. ASSUME NEW d, NEW typing, NEW flag, Editing, SetContent(d, typing, flag)
      PROVE  Goal
  <2>1. Quiet
    BY <1>1, Zenon DEF Quiet, Editing, CaptureStep, SetContent, outside, CaptureInvariant
  <2> QED
    BY <2>1, QuietKeeps, Zenon
<1>2. ASSUME NEW by, MoveHighlight(by) \/ DismissList \/ Midnight \/ UNCHANGED captureVars
      PROVE  Goal
  <2>1. /\ UNCHANGED <<window, saves, undos, captured>>
        /\ captureSteps' \in {captureSteps, captureSteps + 1}
    BY <1>2, Zenon DEF MoveHighlight, DismissList, Midnight, Editing, CaptureStep, outside, captureVars
  <2>2. Quiet
    BY <2>1, Zenon DEF Quiet, CaptureInvariant
  <2> QED
    BY <2>2, QuietKeeps, Zenon
<1>3. ASSUME NEW answered, ListActiveProjects(answered) \/ FlashTimer
      PROVE  Goal
  <2>1. Quiet
    BY <1>3, ZenonT(30) DEF Quiet, ListActiveProjects, FlashTimer, outside, CaptureInvariant
  <2> QED
    BY <2>1, QuietKeeps, Zenon
<1>4. ASSUME ShowWindow
      PROVE  Goal
  <2>1. Quiet
    BY <1>4, Zenon DEF Quiet, ShowWindow, CaptureStep, NewWindow, outside
  <2> QED
    BY <2>1, QuietKeeps, Zenon
<1>5. ASSUME HandleCancel
      PROVE  Goal
  <2>1. captureSteps' \in {captureSteps, captureSteps + 1} /\ UNCHANGED captured
    BY <1>5, Zenon DEF HandleCancel, CaptureStep, outside
  <2>2. CASE CloseWindow
    BY <2>1, <2>2, CloseKeeps, Zenon
  <2>3. CASE ~CloseWindow
    <3>1. Quiet
      BY <1>5, <2>1, <2>3, Zenon DEF Quiet, HandleCancel, outside, CaptureInvariant
    <3> QED
      BY <3>1, QuietKeeps, Zenon
  <2> QED
    BY <2>2, <2>3, Zenon
<1>6. ASSUME CloseTimer \/ HandleOpen
      PROVE  Goal
  <2>1. /\ captureSteps' \in {captureSteps, captureSteps + 1} /\ UNCHANGED captured
        /\ CloseWindow
    BY <1>6, Zenon DEF CloseTimer, HandleOpen, CaptureStep
  <2> QED
    BY <2>1, CloseKeeps, Zenon
<1>7. ASSUME NEW w, TypeWord(w) \/ TypeSpace \/ EraseWord \/ RemoveTag(w) \/ InsertProject(w)
      PROVE  Goal
  BY <1>1, <1>7, ZenonT(30) DEF TypeWord, TypeSpace, EraseWord, RemoveTag, InsertProject
<1> HIDE DEF Goal
<1>8. ASSUME NEW s \in saves, \/ AppendEntryDate(s) \/ AppendEntryWrites(s)
                              \/ AppendEntryFails(s) \/ SaveAnswers(s)
      PROVE  Goal
  BY <1>8, AppendKeeps, AnswersKeep, ZenonT(30) DEF Goal
<1>9. ASSUME NEW u \in undos, DeleteEntry(u) \/ DeleteEntryFails(u)
      PROVE  Goal
  BY <1>9, DeletionKeeps, ZenonT(30) DEF Goal
<1>10. Goal
  BY <1>2, <1>3, <1>4, <1>5, <1>6, <1>7, <1>8, <1>9, PressKeeps, UndoKeeps, ZenonT(30)
     DEF CaptureNext, TakeHighlighted, Goal
<1> QED
  BY <1>10, Zenon DEF Goal

\* While "Undo" is offered, and when it is asked for, the captured entry is in
\* the file of the project and the date that are sent (QuickCapture.tsx,
\* useQuickCapture.ts, journal.Service.AppendEntry and DeleteEntry), whatever
\* the number of captures, undos and midnights.
THEOREM UndoneCapturesAreFound == CaptureSpec => []UndoFindsCapture
<1>1. CaptureInvariant => UndoFindsCapture
  BY Zenon DEF CaptureInvariant
<1> QED
  BY <1>1, CaptureStarts, CaptureStepKeeps, PTL DEF CaptureSpec

----------------------------------------------------------------------------
(* The journal.                                                            *)

IsSequence(s) == s \in Seq({s[i] : i \in DOMAIN s})

\* Every entry of S is on disk for the place, deleted or not.
AllFound(S, p) == \A e \in S : e \in Entries /\ Found(e, p)

\* What a loop under way, and a toast, know to be there: a delete loop the
\* entries it has been through, a restore loop and a toast all of theirs.
LoopFinds(c) ==
    /\ {"kind", "live"} \subseteq DOMAIN c
    /\ c.kind \in {"delete", "restore"} => {"all", "todo", "place", "restored"} \subseteq DOMAIN c
    /\ c.kind = "delete" => AllFound(c.all \ c.todo, c.place)
    /\ c.kind = "restore" => AllFound(c.all, c.place)
ToastFinds(t) == {"ids", "place", "live"} \subseteq DOMAIN t /\ AllFound(t.ids, t.place)

JournalInvariant ==
    /\ DOMAIN journal = Entries
    /\ \A e \in Entries : {"state", "text"} \subseteq DOMAIN journal[e]
    /\ IsSequence(calls) /\ \A i \in DOMAIN calls : LoopFinds(calls[i])
    /\ IsSequence(undoable) /\ \A i \in DOMAIN undoable : ToastFinds(undoable[i])

\* An entry is never taken out of its file: deleting only marks it.
JournalKept ==
    /\ DOMAIN journal' = Entries
    /\ \A e \in Entries : /\ {"state", "text"} \subseteq DOMAIN journal'[e]
                          /\ journal[e].state # "absent" => journal'[e].state # "absent"

\* What the operators on sequences put into their result.
LEMMA SequenceOf ==
    ASSUME NEW S, NEW s \in Seq(S)
    PROVE  IsSequence(s)
BY DEF IsSequence

\* An appended sequence holds the old members and the new one.
LEMMA AppendMembers ==
    ASSUME NEW s, NEW x, IsSequence(s)
    PROVE  /\ IsSequence(Append(s, x))
           /\ \A i \in DOMAIN Append(s, x) :
                 Append(s, x)[i] = x \/ (i \in DOMAIN s /\ Append(s, x)[i] = s[i])
<1> DEFINE T == {s[i] : i \in DOMAIN s} \cup {x}
<1>1. s \in Seq(T)
  <2>1. s \in Seq({s[i] : i \in DOMAIN s})
    BY Zenon DEF IsSequence
  <2> QED
    BY <2>1
<1>2. x \in T
  BY Zenon
<1> HIDE DEF T
<1>3. Append(s, x) \in Seq(T)
  BY <1>1, <1>2
<1>4. IsSequence(Append(s, x))
  BY <1>3, SequenceOf, ZenonT(30)
<1> QED
  BY <1>1, <1>2, <1>4, SMTT(30)

\* What is left after RemoveAt was there before.
LEMMA RemoveMembers ==
    ASSUME NEW s, NEW k \in DOMAIN s, IsSequence(s)
    PROVE  /\ IsSequence(RemoveAt(s, k))
           /\ \A i \in DOMAIN RemoveAt(s, k) : \E j \in DOMAIN s : RemoveAt(s, k)[i] = s[j]
<1>1. PICK T : s \in Seq(T)
  BY Zenon DEF IsSequence
<1>2. k \in 1..Len(s)
  BY <1>1
<1>3. RemoveAt(s, k) = SubSeq(s, 1, k - 1) \o SubSeq(s, k + 1, Len(s))
  BY Zenon DEF RemoveAt
<1> DEFINE a == SubSeq(s, 1, k - 1)
           b == SubSeq(s, k + 1, Len(s))
<1>4. /\ a \in Seq(T) /\ Len(a) = k - 1
      /\ \A i \in 1..(k - 1) : a[i] = s[i]
  BY <1>1, <1>2
<1>5. /\ b \in Seq(T) /\ Len(b) = Len(s) - k
      /\ \A i \in 1..(Len(s) - k) : b[i] = s[i + k]
  BY <1>1, <1>2, SMTT(30)
<1> HIDE DEF a, b
<1>6. /\ a \o b \in Seq(T) /\ Len(a \o b) = Len(s) - 1
      /\ \A i \in 1..(k - 1) : (a \o b)[i] = a[i]
      /\ \A i \in k..(Len(s) - 1) : (a \o b)[i] = b[i - k + 1]
  BY <1>1, <1>2, <1>4, <1>5, SMTT(30)
<1>7. RemoveAt(s, k) = a \o b
  BY <1>3, Zenon DEF a, b
<1>8. ASSUME NEW i \in 1..(Len(s) - 1)
      PROVE  \E j \in DOMAIN s : (a \o b)[i] = s[j]
  <2>1. CASE i \in 1..(k - 1)
    <3>1. (a \o b)[i] = s[i] /\ i \in DOMAIN s
      BY <1>1, <1>2, <1>4, <1>6, <1>8, <2>1, SMTT(30)
    <3> QED
      BY <3>1, Zenon
  <2>2. CASE i \in k..(Len(s) - 1)
    <3>1. i - k + 1 \in 1..(Len(s) - k) /\ i + 1 \in DOMAIN s
      BY <1>1, <1>2, <1>8, <2>2, SMTT(30)
    <3>2. (a \o b)[i] = b[i - k + 1] /\ b[i - k + 1] = s[(i - k + 1) + k]
      BY <1>5, <1>6, <2>2, <3>1, Zenon
    <3>3. (i - k + 1) + k = i + 1
      BY <1>2, <1>8
    <3> QED
      BY <3>1, <3>2, <3>3, Zenon
  <2>3. Len(s) \in Nat
    BY <1>1
  <2>4. i \in 1..(k - 1) \/ i \in k..(Len(s) - 1)
    BY <1>2, <1>8, <2>3, SMTT(30)
  <2> QED
    BY <2>1, <2>2, <2>4, ZenonT(30)
<1>9. DOMAIN (a \o b) = 1..(Len(s) - 1)
  <2>1. DOMAIN (a \o b) = 1..Len(a \o b)
    BY <1>6
  <2> QED
    BY <1>6, <2>1, ZenonT(30)
<1>10. IsSequence(a \o b)
  BY <1>6, SequenceOf, ZenonT(30)
<1> QED
  BY <1>7, <1>8, <1>9, <1>10, ZenonT(30)

\* A replaced member changes no other.
LEMMA ReplaceMembers ==
    ASSUME NEW s, NEW k \in DOMAIN s, NEW x, IsSequence(s)
    PROVE  /\ IsSequence([s EXCEPT ![k] = x])
           /\ DOMAIN [s EXCEPT ![k] = x] = DOMAIN s
           /\ \A i \in DOMAIN s : [s EXCEPT ![k] = x][i] = IF i = k THEN x ELSE s[i]
<1> DEFINE T == {s[i] : i \in DOMAIN s} \cup {x}
<1>1. s \in Seq(T)
  <2>1. s \in Seq({s[i] : i \in DOMAIN s})
    BY Zenon DEF IsSequence
  <2> QED
    BY <2>1
<1>2. x \in T
  BY Zenon
<1> HIDE DEF T
<1>3. [s EXCEPT ![k] = x] \in Seq(T)
  BY <1>1, <1>2, SMTT(30)
<1> QED
  BY <1>3, SequenceOf, ZenonT(30)

\* What is found stays found.
LEMMA FoundStays ==
    ASSUME JournalInvariant, JournalKept
    PROVE  /\ \A S, p : AllFound(S, p) => AllFound(S, p)'
           /\ \A c : LoopFinds(c) => LoopFinds(c)'
           /\ \A t : ToastFinds(t) => ToastFinds(t)'
<1>1. \A e \in Entries : \A p : Found(e, p) => Found(e, p)'
  BY Zenon DEF JournalKept, Found
<1>2. \A S, p : AllFound(S, p) => AllFound(S, p)'
  BY <1>1, Zenon DEF AllFound
<1> QED
  BY <1>2, Zenon DEF LoopFinds, ToastFinds

\* Leaving the page changes only whether an answer is heard.
LEMMA OrphanedMembers ==
    ASSUME NEW s, IsSequence(s)
    PROVE  /\ IsSequence(Orphaned(s)) /\ DOMAIN Orphaned(s) = DOMAIN s
           /\ \A i \in DOMAIN s : Orphaned(s)[i] = [s[i] EXCEPT !.live = FALSE]
<1>1. s \in Seq({s[i] : i \in DOMAIN s})
  BY Zenon DEF IsSequence
<1>2. DOMAIN s = 1..Len(s) /\ Len(s) \in Nat
  BY <1>1
<1> DEFINE T == {[s[i] EXCEPT !.live = FALSE] : i \in DOMAIN s}
<1>3. \A n \in Nat : \A f \in [1..n -> T] : f \in Seq(T)
  OBVIOUS
<1>a. [i \in 1..Len(s) |-> [s[i] EXCEPT !.live = FALSE]] \in [1..Len(s) -> T]
  BY <1>2, ZenonT(30)
<1>4. Orphaned(s) = [i \in 1..Len(s) |-> [s[i] EXCEPT !.live = FALSE]]
  BY <1>2, Zenon DEF Orphaned
<1> QED
  BY <1>2, <1>3, <1>4, <1>a, SequenceOf, ZenonT(30)

\* The steps of the page itself.
LEMMA StillFound ==
    ASSUME JournalInvariant, UNCHANGED <<journal, calls, undoable>>
    PROVE  JournalInvariant'
BY SMTT(30) DEF JournalInvariant, IsSequence, LoopFinds, ToastFinds, AllFound, Found

\* One more call that finds what it claims.
LEMMA CallAdded ==
    ASSUME JournalInvariant, NEW c, LoopFinds(c), calls' = Append(calls, c),
           UNCHANGED <<journal, undoable>>
    PROVE  JournalInvariant'
<1>1. JournalKept
  BY Zenon DEF JournalKept, JournalInvariant
<1>2. /\ \A d : LoopFinds(d) => LoopFinds(d)'
      /\ \A t : ToastFinds(t) => ToastFinds(t)'
  BY <1>1, FoundStays, Zenon
<1>3. IsSequence(calls') /\ \A i \in DOMAIN calls' : LoopFinds(calls'[i])
  BY AppendMembers, Zenon DEF JournalInvariant
<1> QED
  BY <1>2, <1>3, ZenonT(30) DEF JournalInvariant, IsSequence

\* One call less, whatever it did to the entries.
LEMMA CallGone ==
    ASSUME JournalInvariant, JournalKept, NEW k \in DOMAIN calls, calls' = RemoveAt(calls, k),
           UNCHANGED undoable
    PROVE  JournalInvariant'
<1>2. /\ \A d : LoopFinds(d) => LoopFinds(d)'
      /\ \A t : ToastFinds(t) => ToastFinds(t)'
  BY FoundStays, Zenon
<1>3. IsSequence(calls') /\ \A i \in DOMAIN calls' : LoopFinds(calls'[i])
  BY RemoveMembers DEF JournalInvariant
<1> QED
  BY <1>2, <1>3, Zenon DEF JournalInvariant, IsSequence, JournalKept

\* A loop goes one entry on.
LEMMA CallGoesOn ==
    ASSUME JournalInvariant, JournalKept, NEW k \in DOMAIN calls, NEW c, LoopFinds(c)',
           calls' = [calls EXCEPT ![k] = c], UNCHANGED undoable
    PROVE  JournalInvariant'
<1>2. /\ \A d : LoopFinds(d) => LoopFinds(d)'
      /\ \A t : ToastFinds(t) => ToastFinds(t)'
  BY FoundStays, Zenon
<1>3. IsSequence(calls') /\ \A i \in DOMAIN calls' : i \in DOMAIN calls /\ calls'[i] \in {c, calls[i]}
  BY ReplaceMembers, ZenonT(30) DEF JournalInvariant
<1> QED
  BY <1>2, <1>3, ZenonT(30) DEF JournalInvariant, IsSequence, JournalKept

\* The page goes, with one call or without.
LEMMA PageGone ==
    ASSUME JournalInvariant, JournalKept, NEW cs, IsSequence(cs),
           \A i \in DOMAIN cs : LoopFinds(cs[i]),
           calls' = Orphaned(cs), undoable' = Orphaned(undoable)
    PROVE  JournalInvariant'
<1> DEFINE Deaf(c) == [c EXCEPT !.live = FALSE]
<1>1. \A c : LoopFinds(c) => LoopFinds(Deaf(c))
  BY Zenon DEF LoopFinds
<1>2. \A t : ToastFinds(t) => ToastFinds(Deaf(t))
  BY Zenon DEF ToastFinds
<1>3. /\ \A d : LoopFinds(d) => LoopFinds(d)'
      /\ \A t : ToastFinds(t) => ToastFinds(t)'
  BY FoundStays, Zenon
<1>4. IsSequence(undoable) /\ \A i \in DOMAIN undoable : ToastFinds(undoable[i])
  BY Zenon DEF JournalInvariant
<1>5. /\ IsSequence(calls') /\ DOMAIN calls' = DOMAIN cs
      /\ \A i \in DOMAIN cs : calls'[i] = Deaf(cs[i])
  BY OrphanedMembers, ZenonT(30)
<1>6. /\ IsSequence(undoable') /\ DOMAIN undoable' = DOMAIN undoable
      /\ \A i \in DOMAIN undoable : undoable'[i] = Deaf(undoable[i])
  BY <1>4, OrphanedMembers, ZenonT(30)
<1> HIDE DEF Deaf
<1>7. \A i \in DOMAIN calls' : LoopFinds(calls'[i])
  BY <1>1, <1>5, ZenonT(30)
<1>8. \A i \in DOMAIN undoable' : ToastFinds(undoable'[i])
  BY <1>2, <1>4, <1>6, ZenonT(30)
<1> QED
  BY <1>3, <1>5, <1>6, <1>7, <1>8, Zenon DEF JournalInvariant, JournalKept, IsSequence

\* Marking an entry, or writing its text, keeps it in its file.
LEMMA KeptIfUnchanged ==
    ASSUME JournalInvariant, UNCHANGED journal
    PROVE  JournalKept
BY Zenon DEF JournalKept, JournalInvariant

\* Marking an entry deleted or active moves none to another day or project.
LEMMA KeptIfMarked ==
    ASSUME JournalInvariant, NEW e \in Entries, NEW v \in {"active", "deleted"},
           journal' = [journal EXCEPT ![e].state = v]
    PROVE  JournalKept
BY Zenon DEF JournalKept, JournalInvariant

\* The delete loop: an entry it has been through is found, and so is all of it
\* when the toast offers to undo.
LEMMA DeleteStepKeeps ==
    ASSUME JournalInvariant, NEW k \in DOMAIN calls, NEW e \in Entries, NEW ok \in BOOLEAN,
           DeleteStep(k, e, ok)
    PROVE  JournalInvariant'
<1> DEFINE c == calls[k]
           rest == [c EXCEPT !.todo = @ \ {e}]
           done == ok /\ Found(e, c.place)
           last == done /\ rest.todo = {}
           toast == [ids |-> c.all, place |-> c.place, live |-> c.live]
<1>1. /\ c.kind = "delete" /\ e \in c.todo
      /\ journal' = IF done THEN [journal EXCEPT ![e].state = "deleted"] ELSE journal
      /\ calls' = IF done /\ ~last THEN [calls EXCEPT ![k] = rest] ELSE RemoveAt(calls, k)
      /\ undoable' = IF last THEN Append(undoable, toast) ELSE undoable
  BY ZenonT(30) DEF DeleteStep, IsNext
<1>2. LoopFinds(c)
  BY Zenon DEF JournalInvariant
<1>3. JournalKept
  BY <1>1, KeptIfUnchanged, KeptIfMarked, ZenonT(30)
<1>4. CASE ~done
  <2>1. calls' = RemoveAt(calls, k) /\ undoable' = undoable
    BY <1>1, <1>4, ZenonT(30)
  <2> QED
    BY <1>3, <2>1, CallGone, ZenonT(30)
<1>5. CASE done /\ ~last
  <2>1. calls' = [calls EXCEPT ![k] = rest] /\ undoable' = undoable
    BY <1>1, <1>5, ZenonT(30)
  <2>2. LoopFinds(rest)
    BY <1>1, <1>2, <1>5, Zenon DEF LoopFinds, AllFound
  <2> HIDE DEF rest
  <2>3. PICK r : r = rest
    BY Zenon
  <2>4. LoopFinds(r)'
    BY <1>3, <2>2, <2>3, FoundStays, ZenonT(30)
  <2> QED
    BY <1>3, <2>1, <2>3, <2>4, CallGoesOn, ZenonT(30)
<1>6. CASE last
  <2>1. calls' = RemoveAt(calls, k) /\ undoable' = Append(undoable, toast)
    BY <1>1, <1>6, ZenonT(30)
  <2>2. ToastFinds(toast)
    <3>1. c.todo \ {e} = {}
      BY <1>1, <1>2, <1>6, Zenon DEF LoopFinds
    <3>2. AllFound(c.all, c.place)
      BY <1>1, <1>2, <1>6, <3>1, Zenon DEF LoopFinds, AllFound
    <3> QED
      BY <3>2, Zenon DEF ToastFinds
  <2> HIDE DEF c, rest, done, toast
  <2>3. /\ \A d : LoopFinds(d) => LoopFinds(d)'
        /\ \A t : ToastFinds(t) => ToastFinds(t)'
    BY <1>3, FoundStays, ZenonT(30)
  <2>4. IsSequence(calls') /\ \A i \in DOMAIN calls' : LoopFinds(calls'[i])
    BY <2>1, RemoveMembers, SMTT(30) DEF JournalInvariant
  <2>5. IsSequence(undoable') /\ \A i \in DOMAIN undoable' : ToastFinds(undoable'[i])
    BY <2>1, <2>2, AppendMembers, Zenon DEF JournalInvariant
  <2> QED
    BY <1>3, <2>3, <2>4, <2>5, Zenon DEF JournalInvariant, IsSequence, JournalKept
<1> QED
  BY <1>4, <1>5, <1>6, Zenon

\* The restore loop only goes on through the entries of its own place.
LEMMA RestoreStepKeeps ==
    ASSUME JournalInvariant, NEW k \in DOMAIN calls, NEW e \in Entries, NEW ok \in BOOLEAN,
           RestoreStep(k, e, ok)
    PROVE  JournalInvariant'
<1> DEFINE c == calls[k]
           done == ok /\ Found(e, c.place)
           rest == [c EXCEPT !.todo = @ \ {e}, !.restored = @ \/ done]
<1>1. /\ c.kind = "restore"
      /\ journal' = IF done THEN [journal EXCEPT ![e].state = "active"] ELSE journal
      /\ calls' = [calls EXCEPT ![k] = rest] \/ calls' = RemoveAt(calls, k)
      /\ undoable' = undoable
  BY Zenon DEF RestoreStep
<1>2. LoopFinds(c)
  BY Zenon DEF JournalInvariant
<1>3. JournalKept
  BY <1>1, KeptIfUnchanged, KeptIfMarked, ZenonT(30)
<1>4. LoopFinds(rest)
  BY <1>1, <1>2, ZenonT(30) DEF LoopFinds
<1> HIDE DEF rest
<1>5. PICK r : r = rest
  BY Zenon
<1>6. LoopFinds(r)'
  BY <1>3, <1>4, <1>5, FoundStays, Zenon
<1> QED
  BY <1>1, <1>3, <1>5, <1>6, CallGone, CallGoesOn, ZenonT(30)

\* "Undo" asks for what its toast names.
LEMMA UndoToastKeeps ==
    ASSUME JournalInvariant, NEW k \in DOMAIN undoable, ClickUndo(k)
    PROVE  JournalInvariant'
<1> DEFINE t == undoable[k]
           c == [Loop("restore", t.ids, t.place) EXCEPT !.live = t.live]
<1>1. /\ undoable' = RemoveAt(undoable, k) /\ calls' = Append(calls, c) /\ UNCHANGED journal
  BY ZenonT(30) DEF ClickUndo, WhereDeleted
<1>2. ToastFinds(t)
  BY Zenon DEF JournalInvariant
<1>3. LoopFinds(c)
  BY <1>2, Zenon DEF LoopFinds, ToastFinds, Loop
<1> HIDE DEF t, c
<1>4. JournalKept
  BY <1>1, KeptIfUnchanged, Zenon
<1>5. /\ \A d : LoopFinds(d) => LoopFinds(d)'
      /\ \A u : ToastFinds(u) => ToastFinds(u)'
  BY <1>4, FoundStays, Zenon
<1>6. IsSequence(calls') /\ \A i \in DOMAIN calls' : LoopFinds(calls'[i])
  BY <1>1, <1>3, AppendMembers, Zenon DEF JournalInvariant
<1>7. IsSequence(undoable') /\ \A i \in DOMAIN undoable' : ToastFinds(undoable'[i])
  BY <1>1, RemoveMembers DEF JournalInvariant
<1> QED
  BY <1>4, <1>5, <1>6, <1>7, Zenon DEF JournalInvariant, IsSequence, JournalKept

\* A promotion marks its entries, or does nothing to them.
LEMMA PromoteKeeps ==
    ASSUME JournalInvariant, NEW k \in DOMAIN calls, NEW ok \in BOOLEAN, PromoteEnds(k, ok)
    PROVE  JournalInvariant'
<1> DEFINE all == calls[k].all
           Marked == [e \in Entries |-> IF e \in all THEN [journal[e] EXCEPT !.state = "deleted"]
                                        ELSE journal[e]]
<1>1. /\ journal' = Marked \/ journal' = journal
      /\ \/ calls' = Orphaned(RemoveAt(calls, k)) /\ undoable' = Orphaned(undoable)
         \/ calls' = RemoveAt(calls, k) /\ undoable' = undoable
  BY Zenon DEF PromoteEnds
<1>2. JournalKept
  <2>1. CASE journal' = Marked
    <3>1. /\ DOMAIN Marked = Entries
          /\ \A e \in Entries : Marked[e] \in {journal[e], [journal[e] EXCEPT !.state = "deleted"]}
      BY Zenon
    <3> HIDE DEF Marked
    <3> QED
      BY <2>1, <3>1, Zenon DEF JournalKept, JournalInvariant
  <2> QED
    BY <1>1, <2>1, KeptIfUnchanged, Zenon
<1>3. IsSequence(RemoveAt(calls, k)) /\ \A i \in DOMAIN RemoveAt(calls, k) : LoopFinds(RemoveAt(calls, k)[i])
  BY RemoveMembers DEF JournalInvariant
<1> QED
  BY <1>1, <1>2, <1>3, PageGone, CallGone, ZenonT(30)

\* An edit that is answered changes a text.
LEMMA UpdateKeeps ==
    ASSUME JournalInvariant, NEW k \in DOMAIN calls, NEW ok \in BOOLEAN, UpdateEnds(k, ok)
    PROVE  JournalInvariant'
<1>1. /\ calls' = RemoveAt(calls, k) /\ undoable' = undoable
      /\ \/ journal' = [journal EXCEPT ![calls[k].id].text = calls[k].text]
         \/ journal' = journal
  BY Zenon DEF UpdateEnds
<1>2. JournalKept
  BY <1>1 DEF JournalKept, JournalInvariant
<1> QED
  BY <1>1, <1>2, CallGone, ZenonT(30)

\* An entry that is appended displaces none.
LEMMA AppendEndKeeps ==
    ASSUME JournalInvariant, NEW k \in DOMAIN calls, NEW e \in Entries, NEW ok \in BOOLEAN,
           AppendEnds(k, e, ok)
    PROVE  JournalInvariant'
<1>1. /\ calls' = RemoveAt(calls, k) /\ undoable' = undoable
      /\ \/ journal' = [journal EXCEPT ![e] = [state |-> "active", text |-> calls[k].text]]
         \/ journal' = journal
  BY ZenonT(30) DEF AppendEnds
<1>2. JournalKept
  BY <1>1 DEF JournalKept, JournalInvariant
<1> QED
  BY <1>1, <1>2, CallGone, ZenonT(30)

\* The calls a user starts claim nothing yet.
LEMMA StartKeeps ==
    ASSUME JournalInvariant,
           \/ ConfirmEntryDelete \/ HandleConfirmPromote \/ SubmitComposer
           \/ \E e \in Entries : SaveEditing(e)
    PROVE  JournalInvariant'
<1>1. ASSUME ConfirmEntryDelete
      PROVE  JournalInvariant'
  <2>1. LoopFinds(Loop("delete", doomed.ids, doomed.place))
    BY Zenon DEF LoopFinds, Loop, AllFound
  <2> QED
    BY <1>1, <2>1, CallAdded, ZenonT(30) DEF ConfirmEntryDelete
<1>2. ASSUME HandleConfirmPromote
      PROVE  JournalInvariant'
  <2> DEFINE c == [kind |-> "promote", all |-> marked, place |-> place,
                   keep |-> promotion.keep, live |-> TRUE]
  <2>1. LoopFinds(c)
    BY Zenon DEF LoopFinds
  <2>2. calls' = Append(calls, c) /\ UNCHANGED <<journal, undoable>>
    BY <1>2, ZenonT(30) DEF HandleConfirmPromote
  <2> QED
    BY <2>1, <2>2, CallAdded, ZenonT(30)
<1>3. ASSUME SubmitComposer
      PROVE  JournalInvariant'
  <2> DEFINE c == [kind |-> "append", text |-> composer.text, place |-> place, live |-> TRUE]
  <2>1. LoopFinds(c)
    BY Zenon DEF LoopFinds
  <2>2. calls' = Append(calls, c) /\ UNCHANGED <<journal, undoable>>
    BY <1>3, ZenonT(30) DEF SubmitComposer, WritingUnchanged
  <2> QED
    BY <2>1, <2>2, CallAdded, ZenonT(30)
<1>4. ASSUME NEW e \in Entries, SaveEditing(e)
      PROVE  JournalInvariant'
  <2> DEFINE c == [kind |-> "update", id |-> e, text |-> drafts[e].text, place |-> place,
                   live |-> TRUE]
  <2>1. LoopFinds(c)
    BY Zenon DEF LoopFinds
  <2>2. (calls' = Append(calls, c) \/ UNCHANGED calls) /\ UNCHANGED <<journal, undoable>>
    BY <1>4, ZenonT(30) DEF SaveEditing, WritingUnchanged
  <2> QED
    BY <2>1, <2>2, CallAdded, StillFound, ZenonT(30)
<1> QED
  BY <1>1, <1>2, <1>3, <1>4, Zenon

\* Leaving the page orphans the calls and keeps what they name.
LEMMA LeaveKeeps ==
    ASSUME JournalInvariant, LeaveJournal
    PROVE  JournalInvariant'
<1>1. /\ calls' = Orphaned(calls) /\ undoable' = Orphaned(undoable) /\ UNCHANGED journal
  BY ZenonT(30) DEF LeaveJournal
<1>2. JournalKept
  BY <1>1, KeptIfUnchanged, Zenon
<1>3. IsSequence(calls) /\ \A i \in DOMAIN calls : LoopFinds(calls[i])
  BY ZenonT(30) DEF JournalInvariant
<1> QED
  BY <1>1, <1>2, <1>3, PageGone, ZenonT(30)

\* The page opens without calls.
LEMMA JournalStarts ==
    ASSUME JournalInit
    PROVE  JournalInvariant
<1>1. calls = <<>> /\ undoable = <<>>
  BY Zenon DEF JournalInit
<1>2. IsSequence(<<>>) /\ DOMAIN <<>> = {}
  BY DEF IsSequence
<1>3. DOMAIN journal = Entries /\ \A e \in Entries : {"state", "text"} \subseteq DOMAIN journal[e]
  BY Zenon DEF JournalInit
<1> QED
  BY <1>1, <1>2, <1>3, Zenon DEF JournalInvariant

\* The rest of the page touches neither entries, nor calls, nor toasts.
LEMMA PageKeeps ==
    ASSUME NEW i, NEW ok \in BOOLEAN, NEW p, NEW e, NEW text, NEW keep,
           \/ JournalService \/ ReadEnds(i, ok) \/ EntryHeard(i) \/ OpenJournal(p)
           \/ SwitchJournalProject(p) \/ GoToDay(i) \/ ShowMonth(i) \/ HandleToday(p)
           \/ OpenCalendar(p) \/ HandleGridKeyDown(i) \/ HandleCalendarSelect \/ CloseCalendar
           \/ Highlight(i) \/ ToggleMark(i) \/ JournalEscape \/ HandleDeleteSelected
           \/ HandlePromoteSelected \/ ChangePromotion(ok, keep) \/ EditRow(e, text)
           \/ CancelEditing(e) \/ ComposeText(text) \/ UNCHANGED journalVars
    PROVE  UNCHANGED <<journal, calls, undoable>>
BY Zenon DEF JournalService, ReadEnds, EntryHeard, OpenJournal, SwitchJournalProject, GoToDay,
   SetDate, ShowMonth, HandleToday, OpenCalendar, CalendarUnchanged, HandleGridKeyDown,
   HandleCalendarSelect, CloseCalendar, Highlight, ToggleMark, SelectionUnchanged, JournalEscape,
   HandleDeleteSelected, HandlePromoteSelected, ChangePromotion, EditRow, CancelEditing,
   WritingUnchanged, ComposeText, journalVars

\* Every step of the page keeps deleted entries where their undo looks.
LEMMA JournalStepKeeps ==
    ASSUME JournalInvariant, [JournalNext]_journalVars
    PROVE  JournalInvariant'
<1>1. \/ UNCHANGED <<journal, calls, undoable>>
      \/ LeaveJournal
      \/ ConfirmEntryDelete \/ HandleConfirmPromote \/ SubmitComposer
      \/ \E e \in Entries : SaveEditing(e)
      \/ \E i \in DOMAIN calls, ok \in BOOLEAN : PromoteEnds(i, ok) \/ UpdateEnds(i, ok)
      \/ \E i \in DOMAIN undoable : ClickUndo(i)
      \/ \E i \in DOMAIN calls, e \in Entries, ok \in BOOLEAN :
            DeleteStep(i, e, ok) \/ RestoreStep(i, e, ok) \/ AppendEnds(i, e, ok)
  BY PageKeeps, ZenonT(30) DEF JournalNext
<1> QED
  BY <1>1, StillFound, LeaveKeeps, StartKeeps, PromoteKeeps, UpdateKeeps, UndoToastKeeps,
     DeleteStepKeeps, RestoreStepKeeps, AppendEndKeeps, ZenonT(30), ZenonT(30)

\* Undo asks for every entry back where it was deleted, wherever the user has
\* gone since (useJournal.ts and useJournalController.ts), whatever the number
\* of entries, days, projects and steps.
THEOREM UndoneEntriesAreFound == JournalSpec => []UndoFindsEntries
<1>1. JournalInvariant => UndoFindsEntries
  BY Zenon DEF JournalInvariant, UndoFindsEntries, LoopFinds, AllFound
<1> QED
  BY <1>1, JournalStarts, JournalStepKeeps, PTL DEF JournalSpec

(***************************************************************************)
(* The text editor: what the form was given.                               *)
(***************************************************************************)

\* From the first frame on the baseline is the document itself, so a change that
\* gives the baseline again is no change; and already before that frame the form
\* is what was loaded, or a change went unreported.
FormInvariant ==
    /\ life \in {"mounting", "live", "gone"}
    /\ life = "live" => baseline = blocks
    /\ life # "gone" /\ ~unreported =>
           formBlocks = RestoreUnknown(blocks) \/ blocks = Parsed(formBlocks)

\* A change of the document, whatever it was (useRichEditorInner's onChange).
LEMMA ChangeKeepsForm ==
    ASSUME FormInvariant, life' = life, NEW bs, NEW touched, Changed(bs, touched)
    PROVE  FormInvariant'
<1>1. PICK now : now = Normalised(WithDirs(bs, IF scanned THEN touched ELSE DOMAIN bs))
  BY Zenon
<1>2. /\ blocks' = now
      /\ \/ life = "mounting" /\ unreported' = TRUE
         \/ life # "mounting" /\ now = baseline /\ UNCHANGED <<baseline, formBlocks, unreported>>
         \/ /\ life # "mounting" /\ baseline' = now
            /\ formBlocks' = RestoreUnknown(now) \/ unreported' = TRUE
  BY <1>1, ZenonT(30) DEF Changed
<1>3. CASE life = "mounting" /\ unreported' = TRUE
  BY <1>3, Zenon DEF FormInvariant
<1>4. CASE /\ life # "mounting" /\ now = baseline
           /\ UNCHANGED <<baseline, formBlocks, unreported>>
  BY <1>2, <1>4, Zenon DEF FormInvariant
<1>5. CASE /\ life # "mounting" /\ baseline' = now
           /\ formBlocks' = RestoreUnknown(now) \/ unreported' = TRUE
  BY <1>2, <1>5, Zenon DEF FormInvariant
<1> QED
  BY <1>2, <1>3, <1>4, <1>5, Zenon

\* Every step keeps it.
LEMMA FormStep ==
    ASSUME FormInvariant, [RichNext]_richVars
    PROVE  FormInvariant'
<1>1. ASSUME life' = life, NEW bs, NEW touched, Changed(bs, touched)
      PROVE  FormInvariant'
  BY <1>1, ChangeKeepsForm, ZenonT(30)
<1>2. CASE \E b \in DOMAIN blocks, c \in Letters : TypeLetter(b, c)
  BY <1>1, <1>2, ZenonT(30) DEF TypeLetter
<1>3. CASE \E b \in DOMAIN blocks : DeleteLetter(b) \/ FenceOnEnter(b) \/ RemoveBlock(b)
  BY <1>1, <1>3, ZenonT(30) DEF DeleteLetter, FenceOnEnter, RemoveBlock
<1>4. CASE \E new \in Replacements : ReplaceCurrent(new) \/ ReplaceEvery(new)
  BY <1>1, <1>4, ZenonT(30) DEF ReplaceCurrent, ReplaceEvery
<1>5. CASE \E b \in DOMAIN blocks : FinishUpload(b)
  BY <1>1, <1>5, ZenonT(30) DEF FinishUpload
<1>6. CASE EstablishBaseline
  BY <1>6, Zenon DEF EstablishBaseline, FormInvariant
<1>7. CASE DestroyEditor
  BY <1>7, Zenon DEF DestroyEditor, FormInvariant
<1>8. ASSUME UNCHANGED <<life, blocks, baseline, formBlocks, unreported>>
      PROVE  FormInvariant'
  BY <1>8, Zenon DEF FormInvariant
<1>9. CASE \/ Restore \/ OpenFind \/ ToggleCaseSensitive \/ CloseFind
           \/ \E q \in Queries \cup {<<>>} : SetFindQuery(q)
           \/ \E delta \in {-1, 1} : StepMatch(delta)
           \/ PasteImage \/ StartUpload \/ UploadChunk \/ UploadFails
  BY <1>8, <1>9, ZenonT(30) DEF Restore, OpenFind, ToggleCaseSensitive, CloseFind, SetFindQuery,
     StepMatch, PasteImage, StartUpload, UploadChunk, UploadFails, contentVars
<1>10. CASE UNCHANGED richVars
  BY <1>8, <1>10, ZenonT(30) DEF richVars
<1> QED
  BY <1>2, <1>3, <1>4, <1>5, <1>6, <1>7, <1>9, <1>10, ZenonT(30) DEF RichNext

\* A block as a record, and the blocks of the editor: a stand-in wraps a block
\* that is none itself.
BlockParts == {"kind", "text", "dir", "converted", "wraps"}
IsBlock(b) == b = [x \in BlockParts |-> b[x]]

EditorBlock(b) == IsBlock(b) /\ (b.kind = "unknown" => b.wraps # "unknown")

EditorBlocks(bs) ==
    /\ \E S : bs \in Seq(S)
    /\ \A i \in DOMAIN bs : EditorBlock(bs[i])

\* What the form was given has no stand-ins, and what the editor shows can be
\* given to it.
KindsInvariant ==
    /\ EditorBlocks(blocks)
    /\ \A i \in DOMAIN formBlocks : formBlocks[i].kind # "unknown"

\* A block with another text, or another direction.
WithText(b, v) == [b EXCEPT !.text = v]
WithDir(b, v) == [b EXCEPT !.dir = v]

\* Its kind and what it wraps stay.
LEMMA TextKept ==
    ASSUME NEW b, EditorBlock(b), NEW v
    PROVE  EditorBlock(WithText(b, v))
<1>1. PICK e : e = [x \in BlockParts |-> IF x = "text" THEN v ELSE b[x]]
  BY Zenon
<1>2. WithText(b, v) = e
  BY <1>1, Zenon DEF EditorBlock, IsBlock, WithText
<1>3. IsBlock(e)
  BY <1>1, Zenon DEF IsBlock
<1>4. e.kind = b.kind /\ e.wraps = b.wraps
  BY <1>1, Zenon DEF BlockParts
<1> QED
  BY <1>2, <1>3, <1>4, Zenon DEF EditorBlock

\* So it is when the direction plugin marks it.
LEMMA DirKept ==
    ASSUME NEW b, EditorBlock(b), NEW v
    PROVE  EditorBlock(WithDir(b, v))
<1>1. PICK e : e = [x \in BlockParts |-> IF x = "dir" THEN v ELSE b[x]]
  BY Zenon
<1>2. WithDir(b, v) = e
  BY <1>1, Zenon DEF EditorBlock, IsBlock, WithDir
<1>3. IsBlock(e)
  BY <1>1, Zenon DEF IsBlock
<1>4. e.kind = b.kind /\ e.wraps = b.wraps
  BY <1>1, Zenon DEF BlockParts
<1> QED
  BY <1>2, <1>3, <1>4, Zenon DEF EditorBlock

\* A new block is of the kind it was made.
LEMMA NewBlock ==
    ASSUME NEW kind, NEW text, kind # "unknown"
    PROVE  EditorBlock(Block(kind, text))
<1>1. IsBlock(Block(kind, text))
  BY Zenon DEF IsBlock, BlockParts, Block
<1>2. Block(kind, text).kind = kind
  BY Zenon DEF Block
<1> QED
  BY <1>1, <1>2, Zenon DEF EditorBlock

\* Blocks changed one by one.
LEMMA EachKept ==
    ASSUME NEW bs, EditorBlocks(bs), NEW cs, cs = [i \in DOMAIN bs |-> cs[i]],
           \A i \in DOMAIN bs : EditorBlock(cs[i])
    PROVE  EditorBlocks(cs)
<1>1. PICK S : bs \in Seq(S)
  BY Zenon DEF EditorBlocks
<1>2. PICK n \in Nat : DOMAIN bs = 1..n
  BY <1>1, SMT
<1>3. PICK T : T = {cs[i] : i \in 1..n}
  BY Zenon
<1>4. cs \in [1..n -> T]
  BY <1>2, <1>3, Zenon
<1>5. cs \in Seq(T)
  BY <1>4, SMT
<1>6. DOMAIN cs = DOMAIN bs
  BY Zenon
<1> QED
  BY <1>5, <1>6, Zenon DEF EditorBlocks

\* A block put in front, between or taken out.
LEMMA FrontKept ==
    ASSUME NEW bs, EditorBlocks(bs), NEW e, EditorBlock(e)
    PROVE  EditorBlocks(<<e>> \o bs)
<1>1. PICK S : bs \in Seq(S)
  BY Zenon DEF EditorBlocks
<1>2. PICK T : T = S \cup {e}
  BY Zenon
<1>3. bs \in Seq(T) /\ <<e>> \in Seq(T)
  BY <1>1, <1>2, SMT
<1>4. PICK cs : cs = <<e>> \o bs
  BY Zenon
<1>5. cs \in Seq(T) /\ \A i \in DOMAIN cs : cs[i] = e \/ \E j \in DOMAIN bs : cs[i] = bs[j]
  <2>1. cs \in Seq(T)
    BY <1>3, <1>4, SMT
  <2>2. Len(cs) = Len(bs) + 1 /\ cs[1] = e /\ \A i \in 2..(Len(bs) + 1) : cs[i] = bs[i - 1]
    BY <1>3, <1>4, SMT
  <2>3. ASSUME NEW i \in DOMAIN cs PROVE cs[i] = e \/ \E j \in DOMAIN bs : cs[i] = bs[j]
    <3>1. i \in 1..Len(cs) /\ Len(cs) \in Nat /\ Len(bs) \in Nat /\ DOMAIN bs = 1..Len(bs)
      BY <1>3, <2>1, SMT
    <3>2. CASE i = 1
      BY <2>2, <3>2, Zenon
    <3>3. CASE i # 1
      <4>1. i \in 2..(Len(bs) + 1) /\ i - 1 \in DOMAIN bs
        BY <2>2, <3>1, <3>3, SMT
      <4> QED
        BY <2>2, <4>1, Zenon
    <3> QED
      BY <3>2, <3>3, Zenon
  <2> QED
    BY <2>1, <2>3, Zenon
<1>6. \A j \in DOMAIN bs : EditorBlock(bs[j])
  BY Zenon DEF EditorBlocks
<1> QED
  BY <1>4, <1>5, <1>6, Zenon DEF EditorBlocks

\* An uploaded image goes in behind a block.
LEMMA InsertKept ==
    ASSUME NEW bs, EditorBlocks(bs), NEW b \in DOMAIN bs, NEW e, EditorBlock(e)
    PROVE  EditorBlocks(InsertAt(bs, b + 1, e))
<1>1. PICK S : bs \in Seq(S)
  BY Zenon DEF EditorBlocks
<1>2. PICK T : T = S \cup {e}
  BY Zenon
<1>3. /\ bs \in Seq(T) /\ e \in T /\ Len(bs) \in Nat /\ DOMAIN bs = 1..Len(bs) /\ b \in 1..Len(bs)
  BY <1>1, <1>2, SMT
<1>4. PICK front : front = SubSeq(bs, 1, b)
  BY Zenon
<1>5. PICK back : back = SubSeq(bs, b + 1, Len(bs))
  BY Zenon
<1>6. /\ front \in Seq(T) /\ Len(front) = b /\ \A i \in 1..b : front[i] = bs[i]
  BY <1>3, <1>4, SMT
<1>7. /\ back \in Seq(T) /\ Len(back) = Len(bs) - b
      /\ \A i \in 1..(Len(bs) - b) : back[i] = bs[b + i]
  BY <1>3, <1>5, SMTT(30)
<1>8. PICK cs : cs = front \o <<e>> \o back
  BY Zenon
<1>9. InsertAt(bs, b + 1, e) = cs
  <2>1. (b + 1) - 1 = b
    BY <1>3, SMT
  <2> QED
    BY <1>4, <1>5, <1>8, <2>1, Zenon DEF InsertAt
<1>10. PICK mid : mid = front \o <<e>>
  BY Zenon
<1>11. mid \in Seq(T) /\ Len(mid) = b + 1 /\ mid[b + 1] = e /\ \A i \in 1..b : mid[i] = front[i]
  BY <1>3, <1>6, <1>10, SMTT(30)
<1>12. /\ cs \in Seq(T) /\ Len(cs) = Len(bs) + 1
       /\ \A i \in 1..(b + 1) : cs[i] = mid[i]
       /\ \A i \in (b + 2)..(Len(bs) + 1) : cs[i] = back[i - (b + 1)]
  <2>1. cs = mid \o back
    BY <1>8, <1>10, Zenon
  <2> QED
    BY <1>3, <1>7, <1>11, <2>1, SMTT(30)
<1>13. \A j \in DOMAIN bs : EditorBlock(bs[j])
  BY Zenon DEF EditorBlocks
<1>14. ASSUME NEW i \in DOMAIN cs PROVE EditorBlock(cs[i])
  <2>1. i \in 1..(Len(bs) + 1)
    BY <1>12, SMT
  <2>2. CASE i \in 1..b
    <3>1. i \in 1..(b + 1) /\ i \in DOMAIN bs
      BY <1>3, <2>2, SMT
    <3>2. cs[i] = bs[i]
      BY <1>6, <1>11, <1>12, <2>2, <3>1, Zenon
    <3> QED
      BY <1>13, <3>1, <3>2, Zenon
  <2>3. CASE i = b + 1
    <3>1. i \in 1..(b + 1)
      BY <1>3, <2>3, SMT
    <3> QED
      BY <1>11, <1>12, <2>3, <3>1, Zenon
  <2>4. CASE i \in (b + 2)..(Len(bs) + 1)
    <3>1. PICK k : k = i - (b + 1)
      BY Zenon
    <3>2. k \in 1..(Len(bs) - b) /\ b + k \in DOMAIN bs
      BY <1>3, <2>4, <3>1, SMTT(30)
    <3>3. cs[i] = bs[b + k]
      BY <1>7, <1>12, <2>4, <3>1, <3>2, Zenon
    <3> QED
      BY <1>13, <3>2, <3>3, Zenon
  <2> QED
    BY <1>3, <2>1, <2>2, <2>3, <2>4, SMT
<1> QED
  BY <1>9, <1>12, <1>14, Zenon DEF EditorBlocks

\* A block that is taken out leaves the others.
LEMMA RemoveKept ==
    ASSUME NEW bs, EditorBlocks(bs), NEW b \in DOMAIN bs
    PROVE  EditorBlocks(RemoveAt(bs, b))
<1>1. PICK S : bs \in Seq(S)
  BY Zenon DEF EditorBlocks
<1>3. /\ Len(bs) \in Nat /\ DOMAIN bs = 1..Len(bs) /\ b \in 1..Len(bs)
  BY <1>1, SMT
<1>4. PICK front : front = SubSeq(bs, 1, b - 1)
  BY Zenon
<1>5. PICK back : back = SubSeq(bs, b + 1, Len(bs))
  BY Zenon
<1>6. /\ front \in Seq(S) /\ Len(front) = b - 1 /\ \A i \in 1..(b - 1) : front[i] = bs[i]
  BY <1>1, <1>3, <1>4, SMT
<1>7. /\ back \in Seq(S) /\ Len(back) = Len(bs) - b
      /\ \A i \in 1..(Len(bs) - b) : back[i] = bs[b + i]
  BY <1>1, <1>3, <1>5, SMTT(30)
<1>8. PICK cs : cs = front \o back
  BY Zenon
<1>9. RemoveAt(bs, b) = cs
  BY <1>4, <1>5, <1>8, Zenon DEF RemoveAt
<1>12. /\ cs \in Seq(S) /\ Len(cs) = Len(bs) - 1
       /\ \A i \in 1..(b - 1) : cs[i] = front[i]
       /\ \A i \in b..(Len(bs) - 1) : cs[i] = back[i - (b - 1)]
  <2>1. PICK m \in Nat : m = b - 1
    BY <1>3, SMT
  <2>2. PICK n \in Nat : n = Len(bs) - b
    BY <1>3, SMT
  <2>3. Len(front) = m /\ Len(back) = n /\ m + n = Len(bs) - 1 /\ m + 1 = b
    BY <1>3, <1>6, <1>7, <2>1, <2>2, SMTT(30)
  <2>4. /\ cs \in Seq(S) /\ Len(cs) = m + n /\ \A i \in 1..m : cs[i] = front[i]
        /\ \A i \in (m + 1)..(m + n) : cs[i] = back[i - m]
    <3>1. front \in Seq(S) /\ back \in Seq(S)
      BY <1>6, <1>7, Zenon
    <3> QED
      BY <1>8, <2>3, <3>1, SMT
  <2> QED
    BY <2>1, <2>3, <2>4, ZenonT(30)
<1>13. \A j \in DOMAIN bs : EditorBlock(bs[j])
  BY Zenon DEF EditorBlocks
<1>14. ASSUME NEW i \in DOMAIN cs PROVE EditorBlock(cs[i])
  <2>1. i \in 1..(Len(bs) - 1)
    BY <1>12, SMT
  <2>2. CASE i \in 1..(b - 1)
    <3>1. i \in DOMAIN bs
      BY <1>3, <2>2, SMT
    <3>2. cs[i] = bs[i]
      BY <1>6, <1>12, <2>2, Zenon
    <3> QED
      BY <1>13, <3>1, <3>2, Zenon
  <2>4. CASE i \in b..(Len(bs) - 1)
    <3>1. PICK k : k = i - (b - 1)
      BY Zenon
    <3>2. k \in 1..(Len(bs) - b) /\ b + k \in DOMAIN bs
      BY <1>3, <2>4, <3>1, SMT
    <3>3. cs[i] = bs[b + k]
      BY <1>7, <1>12, <2>4, <3>1, <3>2, Zenon
    <3> QED
      BY <1>13, <3>2, <3>3, Zenon
  <2> QED
    BY <1>3, <2>1, <2>2, <2>4, SMTT(30)
<1> QED
  BY <1>9, <1>12, <1>14, Zenon DEF EditorBlocks

\* The direction plugin.
LEMMA DirsKept ==
    ASSUME NEW bs, EditorBlocks(bs), NEW touched
    PROVE  EditorBlocks(WithDirs(bs, touched))
<1>1. PICK cs : cs = [i \in DOMAIN bs |-> IF i \in touched THEN WithDir(bs[i], ResolveDir(bs[i].text, bs[i].dir))
                                        ELSE bs[i]]
  BY Zenon
<1>2. WithDirs(bs, touched) = cs
  BY <1>1, Zenon DEF WithDirs, WithDir
<1>3. cs = [i \in DOMAIN bs |-> cs[i]]
  BY <1>1, Zenon
<1>4. \A i \in DOMAIN bs : EditorBlock(cs[i])
  BY <1>1, DirKept, Zenon DEF EditorBlocks
<1> QED
  BY <1>2, <1>3, <1>4, EachKept, Zenon

\* The pictures and the title.
LEMMA FilesKept ==
    ASSUME NEW bs, EditorBlocks(bs)
    PROVE  EditorBlocks(ConvertFiles(bs))
<1>1. PICK cs : cs = ConvertFiles(bs)
  BY Zenon
<1>2. cs = [i \in DOMAIN bs |-> IF bs[i].kind = "file" /\ ~bs[i].converted
                                THEN [bs[i] EXCEPT !.kind = "image", !.converted = TRUE] ELSE bs[i]]
  BY <1>1, Zenon DEF ConvertFiles
<1>3. cs = [i \in DOMAIN bs |-> cs[i]]
  BY <1>2, ZenonT(30)
<1>4. ASSUME NEW i \in DOMAIN bs PROVE EditorBlock(cs[i])
  <2>1. EditorBlock(bs[i])
    BY Zenon DEF EditorBlocks
  <2>2. CASE cs[i] = bs[i]
    BY <2>1, <2>2, Zenon
  <2>3. CASE cs[i] # bs[i]
    <3>1. cs[i] = [bs[i] EXCEPT !.kind = "image", !.converted = TRUE]
      BY <1>2, <2>3, Zenon
    <3>2. PICK b : b = bs[i]
      BY Zenon
    <3>3. PICK e : e = [x \in BlockParts |-> IF x = "converted" THEN TRUE ELSE IF x = "kind" THEN "image"
                                             ELSE b[x]]
      BY Zenon
    <3>4. [b EXCEPT !.kind = "image", !.converted = TRUE] = e
      BY <2>1, <3>2, <3>3, ZenonT(30) DEF EditorBlock, IsBlock
    <3>5. IsBlock(e)
      BY <3>3, Zenon DEF IsBlock
    <3>6. e.kind = "image"
      BY <3>3, Zenon DEF BlockParts
    <3>7. EditorBlock(e)
      BY <3>5, <3>6, Zenon DEF EditorBlock
    <3> QED
      BY <3>1, <3>2, <3>4, <3>7, Zenon
  <2> QED
    BY <2>2, <2>3, Zenon
<1> QED
  BY <1>1, <1>3, <1>4, EachKept, Zenon

\* The title that useRichEditorInner puts back is no stand-in.
LEMMA TitleKept ==
    ASSUME NEW bs, EditorBlocks(bs)
    PROVE  EditorBlocks(Normalised(bs))
<1>1. PICK cs : cs = ConvertFiles(bs)
  BY Zenon
<1>2. EditorBlocks(cs)
  BY <1>1, FilesKept, Zenon
<1>3. EditorBlock(H1)
  BY NewBlock, Zenon DEF H1
<1>4. Normalised(bs) = cs \/ Normalised(bs) = <<H1>> \o cs
  BY <1>1, Zenon DEF Normalised
<1> QED
  BY <1>2, <1>3, <1>4, FrontKept, Zenon

\* What is read from the store: a stand-in wraps the kind of a stored block.
LEMMA ParsedKept ==
    ASSUME NEW stored \in Documents
    PROVE  EditorBlocks(Parsed(stored)) /\ \A i \in DOMAIN stored : stored[i].kind # "unknown"
<1>1. stored \in Seq(StoredBlocks)
  BY DocumentsStored, Zenon
<1>2. ASSUME NEW b \in StoredBlocks PROVE IsBlock(b) /\ b.kind # "unknown"
  <2>1. b.kind # "unknown"
    BY <1>2, Zenon DEF StoredBlocks
  <2>2. b = [x \in BlockParts |-> b[x]]
    BY <1>2, Zenon DEF StoredBlocks, BlockParts
  <2> QED
    BY <2>1, <2>2, Zenon DEF IsBlock
<1>3. \A i \in DOMAIN stored : stored[i] \in StoredBlocks
  BY <1>1, SMT
<1>4. EditorBlocks(stored)
  BY <1>1, <1>2, <1>3, Zenon DEF EditorBlocks, EditorBlock
<1>5. EditorBlock(H1) /\ H1.kind # "unknown"
  BY NewBlock, Zenon DEF H1, Block
<1>6. PICK bs : bs = IF NeedsLeadingH1(stored) THEN <<H1>> \o stored ELSE stored
  BY Zenon
<1>7. EditorBlocks(bs)
  BY <1>4, <1>5, <1>6, FrontKept, Zenon
<1>8. \A i \in DOMAIN bs : bs[i].kind # "unknown"
  <2>1. CASE bs = stored
    BY <1>2, <1>3, <2>1, Zenon
  <2>2. CASE bs = <<H1>> \o stored
    <3>1. PICK T : T = StoredBlocks \cup {H1}
      BY Zenon
    <3>2. \A b \in T : b.kind # "unknown"
      BY <1>2, <1>5, <3>1, Zenon
    <3>3. stored \in Seq(T) /\ <<H1>> \in Seq(T)
      BY <1>1, <3>1, SMT
    <3>4. bs \in Seq(T)
      BY <2>2, <3>3, SMT
    <3>5. \A i \in DOMAIN bs : bs[i] \in T
      BY <3>4, SMT
    <3> QED
      BY <3>2, <3>5, Zenon
  <2> QED
    BY <1>6, <2>1, <2>2, Zenon
<1>9. PICK cs : cs = SanitizeUnknown(bs)
  BY Zenon
<1>10. cs = [i \in DOMAIN bs |-> IF bs[i].kind \in KnownKinds THEN bs[i]
                                 ELSE [bs[i] EXCEPT !.kind = "unknown", !.wraps = bs[i].kind]]
  BY <1>9, Zenon DEF SanitizeUnknown
<1>11. cs = [i \in DOMAIN bs |-> cs[i]]
  BY <1>10, ZenonT(30)
<1>12. ASSUME NEW i \in DOMAIN bs PROVE EditorBlock(cs[i])
  <2>1. EditorBlock(bs[i]) /\ bs[i].kind # "unknown"
    BY <1>7, <1>8, Zenon DEF EditorBlocks
  <2>2. CASE cs[i] = bs[i]
    BY <2>1, <2>2, Zenon
  <2>3. CASE cs[i] # bs[i]
    <3>1. PICK b : b = bs[i]
      BY Zenon
    <3>2. cs[i] = [b EXCEPT !.kind = "unknown", !.wraps = b.kind]
      BY <1>10, <2>3, <3>1, Zenon
    <3>3. PICK e : e = [x \in BlockParts |-> IF x = "wraps" THEN b.kind ELSE IF x = "kind" THEN "unknown"
                                             ELSE b[x]]
      BY Zenon
    <3>4. [b EXCEPT !.kind = "unknown", !.wraps = b.kind] = e
      BY <2>1, <3>1, <3>3, ZenonT(30) DEF EditorBlock, IsBlock
    <3>5. IsBlock(e)
      BY <3>3, Zenon DEF IsBlock
    <3>6. e.wraps = b.kind
      BY <3>3, Zenon DEF BlockParts
    <3>7. EditorBlock(e)
      BY <2>1, <3>1, <3>5, <3>6, Zenon DEF EditorBlock
    <3> QED
      BY <3>2, <3>4, <3>7, Zenon
  <2> QED
    BY <2>2, <2>3, Zenon
<1>13. EditorBlocks(cs)
  BY <1>7, <1>11, <1>12, EachKept, Zenon
<1> QED
  BY <1>2, <1>3, <1>6, <1>9, <1>13, Zenon DEF Parsed

\* What is handed to the form has no stand-ins.
LEMMA RestoredKinds ==
    ASSUME NEW bs, EditorBlocks(bs)
    PROVE  \A i \in DOMAIN RestoreUnknown(bs) : RestoreUnknown(bs)[i].kind # "unknown"
<1>1. PICK cs : cs = RestoreUnknown(bs)
  BY Zenon
<1>2. cs = [i \in DOMAIN bs |-> IF bs[i].kind # "unknown" THEN bs[i]
                                ELSE [bs[i] EXCEPT !.kind = bs[i].wraps, !.wraps = ""]]
  BY <1>1, Zenon DEF RestoreUnknown
<1>3. DOMAIN cs = DOMAIN bs
  BY <1>2, Zenon
<1>4. ASSUME NEW i \in DOMAIN bs PROVE cs[i].kind # "unknown"
  <2>1. EditorBlock(bs[i])
    BY Zenon DEF EditorBlocks
  <2>2. CASE bs[i].kind # "unknown"
    BY <1>2, <2>2, Zenon
  <2>3. CASE bs[i].kind = "unknown"
    <3>1. PICK b : b = bs[i]
      BY Zenon
    <3>2. cs[i] = [b EXCEPT !.kind = b.wraps, !.wraps = ""]
      BY <1>2, <2>3, <3>1, Zenon
    <3>3. PICK e : e = [x \in BlockParts |-> IF x = "wraps" THEN "" ELSE IF x = "kind" THEN b.wraps
                                             ELSE b[x]]
      BY Zenon
    <3>4. [b EXCEPT !.kind = b.wraps, !.wraps = ""] = e
      BY <2>1, <3>1, <3>3, Zenon DEF EditorBlock, IsBlock
    <3>5. e.kind = b.wraps
      BY <3>3, Zenon DEF BlockParts
    <3>6. b.wraps # "unknown"
      BY <2>1, <2>3, <3>1, Zenon DEF EditorBlock
    <3> QED
      BY <3>2, <3>4, <3>5, <3>6, Zenon
  <2> QED
    BY <2>2, <2>3, Zenon
<1> QED
  BY <1>1, <1>3, <1>4, Zenon

\* A change of the document, whatever it was.
LEMMA ChangeKeepsKinds ==
    ASSUME KindsInvariant, NEW bs, EditorBlocks(bs), NEW touched, Changed(bs, touched)
    PROVE  KindsInvariant'
<1>1. PICK now : now = Normalised(WithDirs(bs, IF scanned THEN touched ELSE DOMAIN bs))
  BY Zenon
<1>2. blocks' = now /\ (formBlocks' = formBlocks \/ formBlocks' = RestoreUnknown(now))
  BY <1>1, ZenonT(30) DEF Changed
<1>3. EditorBlocks(now)
  BY <1>1, DirsKept, TitleKept, Zenon
<1>4. EditorBlocks(blocks')
  BY <1>2, <1>3, Zenon
<1>5. \A i \in DOMAIN formBlocks' : formBlocks'[i].kind # "unknown"
  BY <1>2, <1>3, RestoredKinds, Zenon DEF KindsInvariant
<1> QED
  BY <1>4, <1>5, Zenon DEF KindsInvariant

\* A block of the document with another text, or replaced.
LEMMA OneChanged ==
    ASSUME NEW bs, EditorBlocks(bs), NEW b, NEW e, b \in DOMAIN bs => EditorBlock(e)
    PROVE  EditorBlocks([bs EXCEPT ![b] = e])
<1>1. bs = [i \in DOMAIN bs |-> bs[i]]
  <2>1. PICK S : bs \in Seq(S)
    BY Zenon DEF EditorBlocks
  <2> QED
    BY <2>1, SMT
<1>2. PICK cs : cs = [i \in DOMAIN bs |-> IF i = b THEN e ELSE bs[i]]
  BY Zenon
<1>3. [bs EXCEPT ![b] = e] = cs
  BY <1>2, Zenon
<1>4. cs = [i \in DOMAIN bs |-> cs[i]]
  BY <1>2, Zenon
<1>5. \A i \in DOMAIN bs : EditorBlock(cs[i])
  BY <1>2, Zenon DEF EditorBlocks
<1> QED
  BY <1>3, <1>4, <1>5, EachKept, Zenon

\* Typing, deleting and replacing one match give a block another text.
LEMMA OneText ==
    ASSUME NEW bs, EditorBlocks(bs), NEW b, NEW v
    PROVE  EditorBlocks([bs EXCEPT ![b] = WithText(bs[b], v)])
<1>1. b \in DOMAIN bs => EditorBlock(WithText(bs[b], v))
  BY TextKept, Zenon DEF EditorBlocks
<1> QED
  BY <1>1, OneChanged, Zenon

\* Every step keeps it.
LEMMA KindsStep ==
    ASSUME KindsInvariant, [RichNext]_richVars
    PROVE  KindsInvariant'
<1>0. EditorBlocks(blocks)
  BY Zenon DEF KindsInvariant
<1>1. ASSUME NEW bs, EditorBlocks(bs), NEW touched, Changed(bs, touched)
      PROVE  KindsInvariant'
  BY <1>1, ChangeKeepsKinds, Zenon
<1>2. CASE \E b \in DOMAIN blocks, c \in Letters : TypeLetter(b, c)
  <2>1. PICK b \in DOMAIN blocks, c \in Letters : TypeLetter(b, c)
    BY <1>2, Zenon
  <2>2. PICK bs : bs = [blocks EXCEPT ![b] = WithText(blocks[b], Append(blocks[b].text, c))]
    BY Zenon
  <2>3. Changed(bs, {b})
    BY <2>1, <2>2, Zenon DEF TypeLetter, WithText
  <2>4. EditorBlocks(bs)
    BY <1>0, <2>2, OneText, Zenon
  <2> QED
    BY <1>1, <2>3, <2>4, Zenon
<1>3. CASE \E b \in DOMAIN blocks : DeleteLetter(b)
  <2>1. PICK b \in DOMAIN blocks : DeleteLetter(b)
    BY <1>3, Zenon
  <2>2. PICK bs : bs = [blocks EXCEPT ![b] = WithText(blocks[b], Tail(blocks[b].text))]
    BY Zenon
  <2>3. Changed(bs, {b})
    BY <2>1, <2>2, Zenon DEF DeleteLetter, WithText
  <2>4. EditorBlocks(bs)
    BY <1>0, <2>2, OneText, Zenon
  <2> QED
    BY <1>1, <2>3, <2>4, Zenon
<1>4. CASE \E b \in DOMAIN blocks : FenceOnEnter(b)
  <2>1. PICK b \in DOMAIN blocks : FenceOnEnter(b)
    BY <1>4, Zenon
  <2>2. EditorBlock(Block("code", <<>>))
    BY NewBlock, Zenon
  <2>3. PICK bs : bs = [blocks EXCEPT ![b] = Block("code", <<>>)]
    BY Zenon
  <2>4. Changed(bs, {b})
    BY <2>1, <2>3, Zenon DEF FenceOnEnter
  <2>5. EditorBlocks(bs)
    BY <1>0, <2>2, <2>3, OneChanged, Zenon
  <2> QED
    BY <1>1, <2>4, <2>5, Zenon
<1>5. CASE \E b \in DOMAIN blocks : RemoveBlock(b)
  <2>1. PICK b \in DOMAIN blocks : RemoveBlock(b)
    BY <1>5, Zenon
  <2>2. Changed(RemoveAt(blocks, b), {1})
    BY <2>1, Zenon DEF RemoveBlock
  <2>3. EditorBlocks(RemoveAt(blocks, b))
    BY <1>0, RemoveKept, Zenon
  <2> QED
    BY <1>1, <2>2, <2>3, Zenon
<1>6. CASE \E new \in Replacements : ReplaceCurrent(new)
  <2>1. PICK new \in Replacements : ReplaceCurrent(new)
    BY <1>6, Zenon
  <2>2. PICK m : m = find.matches[find.active]
    BY Zenon
  <2>3. PICK bs : bs = [blocks EXCEPT ![m.block] = WithText(blocks[m.block], ReplaceRange(blocks[m.block].text, m, new))]
    BY Zenon
  <2>4. Changed(bs, {m.block})
    BY <2>1, <2>2, <2>3, Zenon DEF ReplaceCurrent, WithText
  <2>5. EditorBlocks(bs)
    BY <1>0, <2>3, OneText, Zenon
  <2> QED
    BY <1>1, <2>4, <2>5, Zenon
<1>7. CASE \E new \in Replacements : ReplaceEvery(new)
  <2>1. PICK new \in Replacements : ReplaceEvery(new)
    BY <1>7, Zenon
  <2> DEFINE within(b) == SelectSeq(LastToFirst(find.matches), LAMBDA m : m.block = b)
             replaced(b) == FoldLeft(LAMBDA text, m : ReplaceRange(text, m, new), blocks[b].text, within(b))
  <2>2. PICK bs : bs = [b \in DOMAIN blocks |-> [blocks[b] EXCEPT !.text = replaced(b)]]
    BY Zenon
  <2>3. Changed(bs, {m.block : m \in Range(find.matches)})
    BY <2>1, <2>2, Zenon DEF ReplaceEvery
  <2> HIDE DEF within, replaced
  <2>4. bs = [b \in DOMAIN blocks |-> WithText(blocks[b], replaced(b))]
    BY <2>2, Zenon DEF WithText
  <2>5. bs = [b \in DOMAIN blocks |-> bs[b]]
    BY <2>4, Zenon
  <2>6. \A b \in DOMAIN blocks : EditorBlock(bs[b])
    BY <1>0, <2>4, TextKept, Zenon DEF EditorBlocks
  <2>7. EditorBlocks(bs)
    BY <1>0, <2>5, <2>6, EachKept, Zenon
  <2> QED
    BY <1>1, <2>3, <2>7, Zenon
<1>8. CASE \E b \in DOMAIN blocks : FinishUpload(b)
  <2>1. PICK b \in DOMAIN blocks : FinishUpload(b)
    BY <1>8, Zenon
  <2>2. EditorBlock(Block("file", <<>>))
    BY NewBlock, Zenon
  <2>3. Changed(InsertAt(blocks, b + 1, Block("file", <<>>)), {b + 1})
    BY <2>1, Zenon DEF FinishUpload
  <2>4. EditorBlocks(InsertAt(blocks, b + 1, Block("file", <<>>)))
    BY <1>0, <2>2, InsertKept, Zenon
  <2> QED
    BY <1>1, <2>3, <2>4, Zenon
<1>9. ASSUME UNCHANGED <<blocks, formBlocks>>
      PROVE  KindsInvariant'
  BY <1>9, Zenon DEF KindsInvariant
<1>10. CASE \/ EstablishBaseline \/ Restore \/ DestroyEditor \/ OpenFind \/ ToggleCaseSensitive
            \/ CloseFind \/ \E q \in Queries \cup {<<>>} : SetFindQuery(q)
            \/ \E delta \in {-1, 1} : StepMatch(delta)
            \/ PasteImage \/ StartUpload \/ UploadChunk \/ UploadFails
  BY <1>9, <1>10, ZenonT(30) DEF EstablishBaseline, Restore, DestroyEditor, OpenFind,
     ToggleCaseSensitive, CloseFind, SetFindQuery, StepMatch, PasteImage, StartUpload, UploadChunk,
     UploadFails, contentVars
<1>11. CASE UNCHANGED richVars
  BY <1>9, <1>11, ZenonT(30) DEF richVars
<1> QED
  BY <1>2, <1>3, <1>4, <1>5, <1>6, <1>7, <1>8, <1>10, <1>11, ZenonT(30) DEF RichNext

\* useRichEditorInner's onChange: what the editor shows has reached the form, with
\* the blocks of missing plugins restored, or is what was loaded from it; and no
\* stand-in for such a block is ever handed over, for any stored documents,
\* replacements and sequence of changes.
THEOREM FormIsCurrent == RichSpec => []FormFollowsEditor
<1>1. RichInit => FormInvariant /\ KindsInvariant
  <2> SUFFICES ASSUME RichInit PROVE FormInvariant /\ KindsInvariant
    BY Zenon
  <2>1. FormInvariant
    BY Zenon DEF RichInit, FormInvariant
  <2>2. PICK stored \in Documents : blocks = Parsed(stored) /\ formBlocks = stored
    BY Zenon DEF RichInit
  <2>3. KindsInvariant
    BY <2>2, ParsedKept, Zenon DEF KindsInvariant
  <2> QED
    BY <2>1, <2>3, Zenon
<1>2. FormInvariant /\ KindsInvariant /\ [RichNext]_richVars => FormInvariant' /\ KindsInvariant'
  BY FormStep, KindsStep, Zenon
<1>3. FormInvariant /\ KindsInvariant => FormFollowsEditor
  BY Zenon DEF FormInvariant, KindsInvariant, FormFollowsEditor, FormShowsEditor
<1> QED
  BY <1>1, <1>2, <1>3, PTL DEF RichSpec

----------------------------------------------------------------------------
(* The canvas.                                                             *)

Flushes == [gen : Nat, version : Nat, images : SUBSET Images, assets : SUBSET Images,
            todo : SUBSET Images, files : SUBSET Images, new : SUBSET Images]

SceneTypes ==
    /\ shown \in [version : Nat, images : SUBSET Images]
    /\ form \in [version : Nat, images : SUBSET Images, files : SUBSET Images]
    /\ generation \in Nat /\ requested \in Nat /\ flushes \subseteq Flushes
    /\ resolving \subseteq Images /\ fileMap \subseteq Images /\ assetsRef \subseteq Images
    /\ unresolved \subseteq Images /\ dropped \subseteq Images

\* Versions only grow, and a change not yet reported is newer than the last one
\* handed over; of the flushes under way at most one is current, it carries the
\* change handed over last, and without it the form holds that change.
SceneOrder ==
    /\ form.version <= requested /\ requested <= shown.version
    /\ ~notified => requested < shown.version
    /\ \A fl \in flushes : fl.gen <= generation
    /\ \A f1, f2 \in flushes : f1.gen = f2.gen => f1 = f2
    /\ \A fl \in flushes : IsCurrent(fl) => fl.version = requested /\ form.version < requested
    /\ (\A fl \in flushes : ~IsCurrent(fl)) => form.version = requested

\* An image on the canvas, or in a flush under way, is in Excalidraw's files,
\* is an unresolved reference, or is one that was dropped while unresolved.
SceneImages ==
    /\ canvas = "ready" => resolving = {}
    /\ shown.images \subseteq fileMap \cup unresolved \cup dropped \cup resolving
    /\ \A fl \in flushes : fl.images \subseteq fl.files \cup unresolved \cup dropped
    /\ ImagesKept

\* The drawing opens with nothing handed over.
LEMMA SceneInitially == SceneInit => SceneTypes /\ SceneOrder /\ SceneImages
BY SceneAssumption
   DEF SceneInit, SceneTypes, SceneOrder, SceneImages, ImagesKept

\* What flushSave finds when it starts.
Begun ==
    [gen |-> generation + 1, version |-> shown.version, images |-> shown.images,
     assets |-> assetsRef, todo |-> (fileMap \cap shown.images) \ assetsRef,
     files |-> fileMap \cap shown.images, new |-> {}]

\* The end of a flush that is not stale.
Delivered(fl) ==
    /\ form' = [version |-> fl.version, images |-> fl.images,
                files |-> fl.files \cup (unresolved \cap fl.images)]
    /\ unresolved' = unresolved \cap fl.images
    /\ dropped' = dropped \cup (unresolved \ fl.images)
    /\ assetsRef' \subseteq Images

\* Emit hands the flush to the form with the references it gathered.
LEMMA EmitDelivers ==
    ASSUME SceneTypes, NEW fl \in Flushes, Emit(fl)
    PROVE  Delivered(fl)
BY Zenon DEF Emit, ReInjected, Delivered, SceneTypes, Flushes

\* handleChange of a change that is handed on.
LEMMA Handed ==
    ASSUME SceneTypes, HandleChange, ~repainting
    PROVE  /\ canvas = "ready" /\ ~notified /\ notified' = TRUE /\ Begun \in Flushes
           /\ generation' = generation + 1 /\ requested' = shown.version
           /\ UNCHANGED <<canvas, resolving, shown, fileMap>>
           /\ \/ flushes' = flushes /\ Delivered(Begun)
              \/ /\ flushes' = flushes \cup {Begun}
                 /\ UNCHANGED <<assetsRef, unresolved, dropped, form>>
<1>1. Begun \in Flushes
  BY DEF Begun, Flushes, SceneTypes
<1>2. FlushSave(generation + 1)
  BY ZenonT(30) DEF HandleChange
<1>3. \/ flushes' = flushes /\ Emit(Begun)
      \/ /\ flushes' = flushes \cup {Begun}
         /\ UNCHANGED <<assetsRef, unresolved, dropped, form>>
  BY <1>2, ZenonT(30) DEF FlushSave, Begun
<1> QED
  BY <1>1, <1>3, EmitDelivers, ZenonT(30) DEF HandleChange

\* An answer of the vault: the flush goes on, ends stale, or ends and is
\* handed to the form.
LEMMA ChangeStored ==
    ASSUME SceneTypes, NEW fl \in flushes, NEW f \in Images, NEW ok \in BOOLEAN,
           StoreAnswers(fl, f, ok)
    PROVE  \E next \in Flushes :
             /\ next.gen = fl.gen /\ next.version = fl.version
             /\ next.images = fl.images /\ next.files = fl.files
             /\ \/ /\ flushes' = (flushes \ {fl}) \cup {next}
                   /\ UNCHANGED <<assetsRef, unresolved, dropped, form>>
                \/ /\ flushes' = flushes \ {fl} /\ ~IsCurrent(fl) /\ assetsRef' \subseteq Images
                   /\ UNCHANGED <<unresolved, dropped, form>>
                \/ flushes' = flushes \ {fl} /\ IsCurrent(fl) /\ Delivered(next)
<1> DEFINE next == [fl EXCEPT !.todo = @ \ {f}, !.new = IF ok THEN @ \cup {f} ELSE @]
<1>1. fl \in Flushes
  BY Zenon DEF SceneTypes
<1>2. /\ next \in Flushes /\ next.gen = fl.gen /\ next.version = fl.version
      /\ next.images = fl.images /\ next.files = fl.files
  BY <1>1, Zenon DEF Flushes
<1>3. \/ FinishFlush(next, flushes \ {fl})
      \/ /\ flushes' = (flushes \ {fl}) \cup {next}
         /\ UNCHANGED <<assetsRef, unresolved, dropped, form>>
  BY Zenon DEF StoreAnswers
<1> HIDE DEF next
<1>4. ASSUME FinishFlush(next, flushes \ {fl}), IsCurrent(next)
      PROVE  flushes' = flushes \ {fl} /\ IsCurrent(fl) /\ Delivered(next)
  BY <1>2, <1>4, EmitDelivers, ZenonT(30) DEF FinishFlush, IsCurrent
<1>5. ASSUME FinishFlush(next, flushes \ {fl}), ~IsCurrent(next)
      PROVE  /\ flushes' = flushes \ {fl} /\ ~IsCurrent(fl) /\ assetsRef' \subseteq Images
             /\ UNCHANGED <<unresolved, dropped, form>>
  BY <1>2, <1>5, ZenonT(30) DEF FinishFlush, IsCurrent, SceneTypes, Flushes
<1> next \in Flushes
  BY <1>2, ZenonT(30)
<1> WITNESS next \in Flushes
<1> QED
  BY <1>2, <1>3, <1>4, <1>5, Zenon

\* The steps that concern neither the form nor the flushes.
LEMMA AwayFromFlushes ==
    ASSUME SceneTypes, [SceneNext]_sceneVars,
           ~HandleChange,
           ~\E fl \in flushes, f \in Images, ok \in BOOLEAN : StoreAnswers(fl, f, ok)
    PROVE  /\ UNCHANGED <<generation, flushes, form, requested, dropped>>
           /\ \/ \E f \in Images, ok \in BOOLEAN : ResolveAnswers(f, ok)
              \/ UNCHANGED <<resolving, assetsRef, unresolved>>
           /\ \/ UNCHANGED <<shown, notified>>
              \/ \E images \in SUBSET Images : Change(images)
<1>1. ASSUME Hydrated \/ RepaintTimeout \/ PasteIntent \/ PasteGuardElapses \/ PasteFails
             \/ CloseCanvas \/ UNCHANGED sceneVars
      PROVE  UNCHANGED <<generation, flushes, form, requested, dropped, resolving, assetsRef,
                         unresolved, shown, notified>>
  BY <1>1, Zenon DEF Hydrated, RepaintTimeout, PasteIntent, PasteGuardElapses, PasteFails,
     CloseCanvas, sceneVars
<1>2. ASSUME NEW images \in SUBSET Images, UserChanges(images)
      PROVE  /\ UNCHANGED <<generation, flushes, form, requested, dropped, resolving, assetsRef,
                            unresolved>>
             /\ Change(images)
  BY <1>2, Zenon DEF UserChanges
<1>3. ASSUME RepaintText
      PROVE  /\ UNCHANGED <<generation, flushes, form, requested, dropped, resolving, assetsRef,
                            unresolved>>
             /\ Change(shown.images) /\ shown.images \in SUBSET Images
  BY <1>3, Zenon DEF RepaintText, SceneTypes
<1>4. ASSUME NEW f \in Images, InsertImage(f)
      PROVE  /\ UNCHANGED <<generation, flushes, form, requested, dropped, resolving, assetsRef,
                            unresolved>>
             /\ Change(shown.images \cup {f}) /\ shown.images \cup {f} \in SUBSET Images
  BY <1>4, Zenon DEF InsertImage, SceneTypes
<1>5. ASSUME NEW f \in Images, NEW ok \in BOOLEAN, ResolveAnswers(f, ok)
      PROVE  UNCHANGED <<generation, flushes, form, requested, dropped, shown, notified>>
  BY <1>5, Zenon DEF ResolveAnswers
<1> QED
  BY <1>1, <1>2, <1>3, <1>4, <1>5, Zenon DEF SceneNext

\* The order of versions and generations is kept.
LEMMA SceneOrderStep ==
    ASSUME SceneTypes, SceneOrder, [SceneNext]_sceneVars
    PROVE  SceneOrder'
<1>1. CASE HandleChange /\ repainting
  <2>1. UNCHANGED <<generation, flushes, form, requested, shown>> /\ notified' = TRUE
    BY <1>1, Zenon DEF HandleChange
  <2> QED
    BY <2>1, Zenon DEF SceneOrder, IsCurrent
<1>2. CASE HandleChange /\ ~repainting
  <2>1. /\ generation' = generation + 1 /\ requested' = shown.version /\ notified' = TRUE
        /\ shown' = shown /\ requested < shown.version
        /\ Begun.gen = generation + 1 /\ Begun.version = shown.version
    BY <1>2, Handed, ZenonT(30) DEF SceneOrder, Begun
  <2>2. \A fl \in flushes : fl.gen < generation + 1
    BY SMTT(30) DEF SceneOrder, SceneTypes, Flushes
  <2>3. CASE flushes' = flushes /\ Delivered(Begun)
    <3>1. form'.version = shown.version
      BY <2>1, <2>3, ZenonT(30) DEF Delivered
    <3> QED
      BY <2>1, <2>2, <2>3, <3>1, SMTT(30) DEF SceneOrder, SceneTypes, Flushes, IsCurrent
  <2>4. CASE flushes' = flushes \cup {Begun} /\ form' = form
    <3>1. \A fl \in flushes' : IsCurrent(fl)' <=> fl = Begun
      BY <2>1, <2>2, <2>4, SMTT(30) DEF IsCurrent, SceneTypes, Flushes
    <3>2. form'.version < requested' /\ requested' = shown'.version
      BY <2>1, <2>4, SMTT(30) DEF SceneOrder, SceneTypes
    <3>3. \A fl \in flushes' : fl.gen <= generation'
      BY <2>1, <2>2, <2>4, SMTT(30) DEF SceneTypes, Flushes
    <3>4. \A f1, f2 \in flushes' : f1.gen = f2.gen => f1 = f2
      BY <2>1, <2>2, <2>4 DEF SceneOrder, SceneTypes, Flushes
    <3> QED
      BY <2>1, <2>4, <3>1, <3>2, <3>3, <3>4, SMTT(30) DEF SceneOrder, SceneTypes
  <2> QED
    BY <1>2, <2>3, <2>4, Handed, ZenonT(30)
<1>3. ASSUME NEW fl \in flushes, NEW f \in Images, NEW ok \in BOOLEAN, StoreAnswers(fl, f, ok)
      PROVE  SceneOrder'
  <2>1. UNCHANGED <<generation, requested, shown, notified>>
    BY <1>3, Zenon DEF StoreAnswers
  <2>2. PICK next \in Flushes :
             /\ next.gen = fl.gen /\ next.version = fl.version
             /\ next.images = fl.images /\ next.files = fl.files
             /\ \/ /\ flushes' = (flushes \ {fl}) \cup {next}
                   /\ UNCHANGED <<assetsRef, unresolved, dropped, form>>
                \/ /\ flushes' = flushes \ {fl} /\ ~IsCurrent(fl) /\ assetsRef' \subseteq Images
                   /\ UNCHANGED <<unresolved, dropped, form>>
                \/ flushes' = flushes \ {fl} /\ IsCurrent(fl) /\ Delivered(next)
    BY <1>3, ChangeStored, ZenonT(30)
  <2>3. CASE flushes' = (flushes \ {fl}) \cup {next} /\ form' = form
    BY <2>1, <2>2, <2>3, SMTT(30) DEF SceneOrder, IsCurrent
  <2>4. CASE flushes' = flushes \ {fl} /\ ~IsCurrent(fl) /\ form' = form
    BY <2>1, <2>4, SMTT(30) DEF SceneOrder, IsCurrent
  <2>5. CASE flushes' = flushes \ {fl} /\ IsCurrent(fl) /\ Delivered(next)
    <3>1. form'.version = requested
      BY <2>2, <2>5, ZenonT(30) DEF Delivered, SceneOrder
    <3>2. \A other \in flushes' : ~IsCurrent(other)
      BY <2>5, ZenonT(30) DEF SceneOrder, IsCurrent
    <3> QED
      BY <2>1, <2>5, <3>1, <3>2, SMTT(30) DEF SceneOrder, IsCurrent, SceneTypes
  <2> QED
    BY <2>2, <2>3, <2>4, <2>5, Zenon
<1>4. CASE /\ ~HandleChange
           /\ ~\E fl \in flushes, f \in Images, ok \in BOOLEAN : StoreAnswers(fl, f, ok)
  <2>1. UNCHANGED <<generation, flushes, form, requested>>
    BY <1>4, AwayFromFlushes, Zenon
  <2>2. ASSUME NEW images \in SUBSET Images, Change(images)
        PROVE  shown'.version = shown.version + 1
    BY <2>2, Zenon DEF Change
  <2>3. \/ UNCHANGED <<shown, notified>>
        \/ shown'.version = shown.version + 1
    BY <1>4, <2>2, AwayFromFlushes, Zenon
  <2> QED
    BY <2>1, <2>3 DEF SceneOrder, IsCurrent, SceneTypes
<1> QED
  BY <1>1, <1>2, <1>3, <1>4, Zenon

\* The file map of Excalidraw only grows.
LEMMA FileMapGrows ==
    ASSUME SceneTypes, [SceneNext]_sceneVars
    PROVE  /\ fileMap \subseteq fileMap' /\ fileMap' \subseteq Images
           /\ resolving' \subseteq resolving
<1>1. ASSUME NEW f \in Images, NEW ok \in BOOLEAN, ResolveAnswers(f, ok) \/ InsertImage(f)
      PROVE  /\ fileMap' = fileMap \/ fileMap' = fileMap \cup {f}
             /\ resolving' = resolving \/ resolving' = resolving \ {f}
  BY <1>1, Zenon DEF ResolveAnswers, InsertImage
<1>2. ASSUME ~\E f \in Images, ok \in BOOLEAN : ResolveAnswers(f, ok) \/ InsertImage(f)
      PROVE  fileMap' = fileMap /\ resolving' = resolving
  BY <1>2, Zenon DEF SceneNext, Hydrated, RepaintTimeout, PasteIntent, PasteGuardElapses,
     PasteFails, CloseCanvas, sceneVars, UserChanges, RepaintText, HandleChange, StoreAnswers
<1> QED
  BY <1>1, <1>2, Zenon DEF SceneTypes

\* Every step of the drawing editor keeps its types.
LEMMA SceneTypesStep ==
    ASSUME SceneTypes, [SceneNext]_sceneVars
    PROVE  SceneTypes'
<1>1. CASE HandleChange /\ repainting
  <2>1. UNCHANGED <<generation, flushes, form, requested, shown, assetsRef, unresolved, dropped>>
    BY <1>1, Zenon DEF HandleChange
  <2> QED
    BY <2>1, FileMapGrows, Zenon DEF SceneTypes
<1>2. CASE HandleChange /\ ~repainting
  <2>1. /\ generation' \in Nat /\ requested' \in Nat /\ flushes' \subseteq Flushes
        /\ shown' \in [version : Nat, images : SUBSET Images]
    <3>1. /\ generation' = generation + 1 /\ requested' = shown.version /\ shown' = shown
          /\ flushes' \subseteq flushes \cup {Begun} /\ Begun \in Flushes
      BY <1>2, Handed, Zenon
    <3> QED
      BY <3>1 DEF SceneTypes
  <2>2. /\ form' \in [version : Nat, images : SUBSET Images, files : SUBSET Images]
        /\ assetsRef' \subseteq Images /\ unresolved' \subseteq Images /\ dropped' \subseteq Images
    <3>1. CASE Delivered(Begun)
      BY <1>2, <3>1, Handed, Zenon DEF Delivered, Flushes, SceneTypes
    <3>2. CASE UNCHANGED <<assetsRef, unresolved, dropped, form>>
      BY <3>2, Zenon DEF SceneTypes
    <3> QED
      BY <1>2, <3>1, <3>2, Handed, Zenon
  <2> QED
    BY <2>1, <2>2, FileMapGrows, Zenon DEF SceneTypes
<1>3. ASSUME NEW fl \in flushes, NEW f \in Images, NEW ok \in BOOLEAN, StoreAnswers(fl, f, ok)
      PROVE  SceneTypes'
  <2>1. UNCHANGED <<generation, requested, shown>>
    BY <1>3, ZenonT(30) DEF StoreAnswers
  <2>2. PICK next \in Flushes :
             \/ /\ flushes' = (flushes \ {fl}) \cup {next}
                /\ UNCHANGED <<assetsRef, unresolved, dropped, form>>
             \/ /\ flushes' = flushes \ {fl} /\ assetsRef' \subseteq Images
                /\ UNCHANGED <<unresolved, dropped, form>>
             \/ flushes' = flushes \ {fl} /\ Delivered(next)
    BY <1>3, ChangeStored
  <2>3. flushes' \subseteq Flushes
    BY <2>2, ZenonT(30) DEF SceneTypes
  <2>4. /\ form' \in [version : Nat, images : SUBSET Images, files : SUBSET Images]
        /\ assetsRef' \subseteq Images /\ unresolved' \subseteq Images /\ dropped' \subseteq Images
    BY <2>2 DEF Delivered, Flushes, SceneTypes
  <2> QED
    BY <2>1, <2>3, <2>4, FileMapGrows, Zenon DEF SceneTypes
<1>4. CASE /\ ~HandleChange
           /\ ~\E fl \in flushes, f \in Images, ok \in BOOLEAN : StoreAnswers(fl, f, ok)
  <2>1. UNCHANGED <<generation, flushes, form, requested, dropped>>
    BY <1>4, AwayFromFlushes, Zenon
  <2>2. ASSUME NEW images \in SUBSET Images, Change(images)
        PROVE  shown' \in [version : Nat, images : SUBSET Images]
    BY <2>2 DEF Change, SceneTypes
  <2>3. shown' \in [version : Nat, images : SUBSET Images]
    BY <1>4, <2>2, AwayFromFlushes, Zenon DEF SceneTypes
  <2>4. ASSUME NEW f \in Images, NEW ok \in BOOLEAN, ResolveAnswers(f, ok)
        PROVE  assetsRef' \subseteq Images /\ unresolved' \subseteq Images
    BY <2>4, Zenon DEF ResolveAnswers, SceneTypes
  <2>5. assetsRef' \subseteq Images /\ unresolved' \subseteq Images
    BY <1>4, <2>4, AwayFromFlushes, Zenon DEF SceneTypes
  <2> QED
    BY <2>1, <2>3, <2>5, FileMapGrows, Zenon DEF SceneTypes
<1> QED
  BY <1>1, <1>2, <1>3, <1>4, ZenonT(30)

\* A flush handed to the form loses no image.
LEMMA DeliveredKeeps ==
    ASSUME SceneTypes, NEW fl \in Flushes, Delivered(fl),
           fl.images \subseteq fl.files \cup unresolved \cup dropped
    PROVE  ImagesKept' /\ unresolved' \cup dropped' = unresolved \cup dropped
BY Zenon DEF Delivered, ImagesKept, SceneTypes, Flushes

\* No step loses an image.
LEMMA SceneImagesStep ==
    ASSUME SceneTypes, SceneImages, [SceneNext]_sceneVars
    PROVE  SceneImages'
<1> DEFINE Known == unresolved \cup dropped
<1>1. CASE HandleChange /\ repainting
  <2>1. UNCHANGED <<canvas, resolving, fileMap, flushes, form, shown, unresolved, dropped>>
    BY <1>1, Zenon DEF HandleChange
  <2> QED
    BY <2>1, Zenon DEF SceneImages, ImagesKept
<1>2. CASE HandleChange /\ ~repainting
  <2>1. /\ canvas = "ready" /\ UNCHANGED <<canvas, resolving, shown, fileMap>>
        /\ Begun \in Flushes
    BY <1>2, Handed, ZenonT(30)
  <2>2. Begun.images \subseteq Begun.files \cup Known /\ resolving = {}
    BY <2>1, ZenonT(30) DEF SceneImages, Begun
  <2>3. CASE flushes' = flushes /\ Delivered(Begun)
    <3>1. ImagesKept' /\ Known' = Known
      BY <2>1, <2>2, <2>3, DeliveredKeeps, Zenon
    <3> QED
      BY <2>1, <2>3, <3>1, ZenonT(30) DEF SceneImages
  <2>4. CASE flushes' = flushes \cup {Begun} /\ UNCHANGED <<unresolved, dropped, form>>
    BY <2>1, <2>2, <2>4, Zenon DEF SceneImages, ImagesKept
  <2> QED
    BY <1>2, <2>3, <2>4, Handed, Zenon
<1>3. ASSUME NEW fl \in flushes, NEW f \in Images, NEW ok \in BOOLEAN, StoreAnswers(fl, f, ok)
      PROVE  SceneImages'
  <2>1. UNCHANGED <<canvas, resolving, shown, fileMap>>
    BY <1>3, Zenon DEF StoreAnswers
  <2>2. PICK next \in Flushes :
             /\ next.images = fl.images /\ next.files = fl.files
             /\ \/ /\ flushes' = (flushes \ {fl}) \cup {next}
                   /\ UNCHANGED <<assetsRef, unresolved, dropped, form>>
                \/ /\ flushes' = flushes \ {fl} /\ assetsRef' \subseteq Images
                   /\ UNCHANGED <<unresolved, dropped, form>>
                \/ flushes' = flushes \ {fl} /\ Delivered(next)
    BY <1>3, ChangeStored
  <2>3. next.images \subseteq next.files \cup Known
    BY <2>2, ZenonT(30) DEF SceneImages
  <2>4. CASE flushes' \subseteq flushes \cup {next} /\ UNCHANGED <<unresolved, dropped, form>>
    BY <2>1, <2>3, <2>4, ZenonT(30) DEF SceneImages, ImagesKept
  <2>5. CASE flushes' = flushes \ {fl} /\ Delivered(next)
    <3>1. ImagesKept' /\ Known' = Known
      BY <2>3, <2>5, DeliveredKeeps, ZenonT(30)
    <3> QED
      BY <2>1, <2>5, <3>1, ZenonT(30) DEF SceneImages
  <2> QED
    BY <2>2, <2>4, <2>5, Zenon
<1>4. ASSUME NEW f \in Images, NEW ok \in BOOLEAN, ResolveAnswers(f, ok)
      PROVE  SceneImages'
  <2>1. UNCHANGED <<canvas, shown, flushes, form, dropped>> /\ canvas = "loading"
    BY <1>4, Zenon DEF ResolveAnswers
  <2>2. /\ fileMap \cup unresolved \cup resolving
              \subseteq fileMap' \cup unresolved' \cup resolving'
        /\ unresolved \subseteq unresolved'
    BY <1>4, ZenonT(30) DEF ResolveAnswers
  <2> QED
    BY <2>1, <2>2, Zenon DEF SceneImages, ImagesKept
<1>5. ASSUME NEW images \in SUBSET Images, UserChanges(images)
      PROVE  SceneImages'
  <2>1. /\ UNCHANGED <<canvas, fileMap, resolving, unresolved, flushes, form, dropped>>
        /\ images \subseteq fileMap \cup unresolved \cup dropped
    BY <1>5, Zenon DEF UserChanges
  <2>2. shown'.images = images
    BY <1>5, ZenonT(30) DEF UserChanges, Change
  <2> QED
    BY <2>1, <2>2, Zenon DEF SceneImages, ImagesKept
<1>6. ASSUME RepaintText \/ \E f \in Images : InsertImage(f)
      PROVE  SceneImages'
  <2>1. UNCHANGED <<canvas, resolving, unresolved, flushes, form, dropped>>
    BY <1>6, ZenonT(30) DEF RepaintText, InsertImage
  <2>2. shown'.images \subseteq shown.images \cup fileMap' /\ fileMap \subseteq fileMap'
    BY <1>6 DEF RepaintText, InsertImage, Change
  <2> QED
    BY <2>1, <2>2, Zenon DEF SceneImages, ImagesKept
<1>7. ASSUME Hydrated \/ CloseCanvas
      PROVE  SceneImages'
  <2>1. /\ UNCHANGED <<shown, fileMap, resolving, unresolved, flushes, form, dropped>>
        /\ canvas' = "ready" => resolving = {}
    BY <1>7, ZenonT(30) DEF Hydrated, CloseCanvas
  <2> QED
    BY <2>1, ZenonT(30) DEF SceneImages, ImagesKept
<1>8. ASSUME RepaintTimeout \/ PasteIntent \/ PasteGuardElapses \/ PasteFails
             \/ UNCHANGED sceneVars
      PROVE  SceneImages'
  <2>1. UNCHANGED <<canvas, shown, fileMap, resolving, unresolved, flushes, form, dropped>>
    BY <1>8, Zenon DEF RepaintTimeout, PasteIntent, PasteGuardElapses, PasteFails, sceneVars
  <2> QED
    BY <2>1, ZenonT(30) DEF SceneImages, ImagesKept
<1> QED
  BY <1>1, <1>2, <1>3, <1>4, <1>5, <1>6, <1>7, <1>8, ZenonT(30) DEF SceneNext

\* The inductive invariant of the canvas holds in every state.
THEOREM CanvasInvariance == SceneSpec => [](SceneTypes /\ SceneOrder /\ SceneImages)
<1> DEFINE Inv == SceneTypes /\ SceneOrder /\ SceneImages
<1>1. SceneInit => Inv
  BY SceneInitially, Zenon
<1>2. Inv /\ [SceneNext]_sceneVars => Inv'
  BY SceneTypesStep, SceneOrderStep, SceneImagesStep, Zenon
<1> QED
  BY <1>1, <1>2, PTL DEF SceneSpec

\* flushSave and flushGenerationRef: whichever order the vault answers in, and
\* however many images are stored at once, no older scene replaces a newer one,
\* and when no flush waits the form holds the last change.
THEOREM NewestSceneReachesForm == SceneSpec => []NewestSceneKept
<1>1. SceneTypes /\ SceneOrder => NewestSceneKept
  BY Zenon DEF SceneTypes, SceneOrder, NewestSceneKept, Flushes
<1> QED
  BY <1>1, CanvasInvariance, PTL

\* unresolvedRefsRef: no image of the form's scene is missing from its files,
\* whatever the vault fails to resolve or to store.
THEOREM NoImageIsLost == SceneSpec => []ImagesKept
<1>1. SceneImages => ImagesKept
  BY Zenon DEF SceneImages
<1> QED
  BY <1>1, CanvasInvariance, PTL

=============================================================================
