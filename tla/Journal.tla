-------------------------------- MODULE Journal --------------------------------
(***************************************************************************)
(* The journal page (frontend/src/journal): the entries of one day of one  *)
(* project, read over a slow connection and again whenever an entry event  *)
(* names that day; selection, deletion with undo, promotion to a document, *)
(* editing in place, the composer and the calendar.  Days are counted from *)
(* the first day of the first month.                                       *)
(***************************************************************************)
EXTENDS Integers, Sequences, FiniteSets, Functions, Splices

CONSTANTS
    JournalOrder,    \* sequence of entry ids, in the order of creation
    JournalHome,     \* entry id -> the [project, date] it is, or will be, written to
    Seeded,          \* the entries that exist at the start
    MonthLengths,    \* sequence: days of each month the calendar can show
    MaxJournalSteps  \* bound: what the user does

VARIABLES
    journal,         \* entry id -> [state, text] on disk
    journalEvents,   \* places of the created, deleted and restored events under way
    place,           \* the [project, date] that is viewed, or Elsewhere
    rows,            \* the entries listed: sequence of [id, text]
    reads,           \* refreshes under way, in the order they began
    latestRead,      \* refreshRequestIdRef
    loading,         \* isLoading
    marked,          \* selectedIds
    cursor,          \* highlightedIndex, from 1
    doomed,          \* the confirm dialog: what it would delete and where, or NoDialog
    promotion,       \* the promote dialog, and isPromotingRef
    calls,           \* delete, restore, update, append and promote calls under way
    undoable,        \* "Undo" toasts: what they restore, and where
    drafts,          \* entry id -> [phase, text] of the editor in its row
    composer,        \* [text, saving]
    calendar,        \* the open calendar: [view, focused], or NoDialog
    journalSteps

pageVars == <<place, rows, latestRead, loading, marked, cursor, doomed, promotion, drafts,
              composer, calendar>>
journalVars == <<journal, journalEvents, pageVars, reads, calls, undoable, journalSteps>>

Entries == Range(JournalOrder)
Places == {JournalHome[e] : e \in Entries}
Elsewhere == [project |-> "none", date |-> 0]
NoJournalDialog == [none |-> TRUE]
Blank == 0
NotEditing == [phase |-> "closed", text |-> Blank]
OnPage == place # Elsewhere
Act == OnPage /\ journalSteps < MaxJournalSteps /\ journalSteps' = journalSteps + 1

---------------------------------------------------------------------------
(* Days and months *)

MonthStart(m) == IF m = 1 THEN 1 ELSE FoldLeft(+, 1, SubSeq(MonthLengths, 1, m - 1))
MonthOf(d) == CHOOSE m \in DOMAIN MonthLengths : MonthStart(m) <= d /\ d < MonthStart(m) + MonthLengths[m]
DayOfMonth(d) == d - MonthStart(MonthOf(d)) + 1

---------------------------------------------------------------------------
(* Reading the entries *)

\* GetActiveEntries: what is on disk for the place, without the deleted ones.
ActiveEntries(p) ==
    LET live == SelectSeq(JournalOrder, LAMBDA e : JournalHome[e] = p /\ journal[e].state = "active")
    IN  [i \in DOMAIN live |-> [id |-> live[i], text |-> journal[live[i]].text]]

\* A read that an effect begins carries a number; the one that an event or a
\* finished call begins carries none (0).
Untagged == 0
NoAnswer == <<>>
Read(p, tag, for) == [place |-> p, tag |-> tag, for |-> for, answer |-> NoAnswer]

\* Every new array of entries puts the highlight on the first row.
SetEntries(list) == rows' = list /\ cursor' = 1

\* While the page loads it renders no rows, so their editors are gone.
SetLoading == loading' = TRUE /\ drafts' = [e \in Entries |-> NotEditing]

RefreshTagged(p) ==
    /\ latestRead' = latestRead + 1 /\ reads' = Append(reads, Read(p, latestRead + 1, "view"))
    /\ SetLoading

\* refresh(), with the project and the day of the render that made it.
RefreshUntagged(p, for) ==
    /\ reads' = Append(reads, Read(p, Untagged, for)) /\ UNCHANGED latestRead
    /\ IF OnPage THEN SetLoading ELSE UNCHANGED <<loading, drafts>>

JournalService ==
    \E i \in DOMAIN reads :
        /\ reads[i].answer = NoAnswer
        /\ reads' = [reads EXCEPT ![i].answer = <<ActiveEntries(reads[i].place)>>]
        /\ UNCHANGED <<journal, journalEvents, pageVars, calls, undoable, journalSteps>>

Dropped(r) == r.tag # Untagged /\ r.tag # latestRead

\* The composer keeps its text until the read after its append has ended.
ReadEnds(i, ok) ==
    LET r == reads[i] IN
    /\ r.answer # NoAnswer /\ reads' = RemoveAt(reads, i)
    /\ IF Dropped(r) THEN UNCHANGED <<rows, cursor, loading>>
       ELSE SetEntries(IF ok THEN Head(r.answer) ELSE <<>>) /\ loading' = FALSE
    /\ composer' = IF r.for = "append" THEN [text |-> Blank, saving |-> FALSE] ELSE composer
    /\ UNCHANGED <<journal, journalEvents, place, latestRead, marked, doomed, promotion, drafts,
                   calendar, calls, undoable, journalSteps>>

\* Created, deleted and restored; updates are not listened to.
EntryHeard(i) ==
    /\ journalEvents' = RemoveAt(journalEvents, i)
    /\ IF OnPage /\ journalEvents[i] = place THEN RefreshUntagged(place, "view")
       ELSE UNCHANGED <<reads, latestRead, loading, drafts>>
    /\ UNCHANGED <<journal, place, rows, marked, cursor, doomed, promotion, composer, calendar,
                   calls, undoable, journalSteps>>

---------------------------------------------------------------------------
(* Coming, going and choosing a day *)

FreshPage(p) ==
    /\ place' = p /\ rows' = <<>> /\ marked' = {} /\ cursor' = 1 /\ doomed' = NoJournalDialog
    /\ promotion' = [promotion EXCEPT !.open = FALSE, !.busy = FALSE]
    /\ composer' = [text |-> Blank, saving |-> FALSE] /\ calendar' = NoJournalDialog
    /\ drafts' = [e \in Entries |-> NotEditing]

OpenJournal(p) ==
    /\ ~OnPage /\ journalSteps < MaxJournalSteps /\ journalSteps' = journalSteps + 1
    /\ FreshPage(p) /\ latestRead' = 1 /\ loading' = TRUE /\ reads' = <<Read(p, 1, "view")>>
    /\ UNCHANGED <<journal, journalEvents, calls, undoable>>

\* The page goes; what comes back for it is not applied any more.
Orphaned(cs) == [i \in DOMAIN cs |-> [cs[i] EXCEPT !.live = FALSE]]

Unmount ==
    FreshPage(Elsewhere) /\ latestRead' = 0 /\ loading' = FALSE /\ reads' = <<>>

LeaveJournal ==
    /\ Act /\ doomed = NoJournalDialog /\ Unmount
    /\ calls' = Orphaned(calls) /\ undoable' = Orphaned(undoable)
    /\ UNCHANGED <<journal, journalEvents>>

ModalOpen == doomed # NoJournalDialog \/ promotion.open

\* setDate, from the hotkeys, the arrows, "Today" or the calendar.  Another day
\* clears the selection; the same day renders nothing anew but the selection.
SetDate(d) ==
    LET p == [place EXCEPT !.date = d] IN
    /\ p \in Places /\ place' = p /\ marked' = {}
    /\ IF p = place THEN UNCHANGED <<reads, latestRead, loading, drafts>> ELSE RefreshTagged(p)
    /\ UNCHANGED <<journal, journalEvents, rows, cursor, doomed, promotion, composer,
                   calls, undoable>>

\* The hotkeys rest while the confirm dialog is open, and not for the promote dialog.
GoToDay(delta) ==
    /\ Act /\ doomed = NoJournalDialog /\ SetDate(place.date + delta) /\ UNCHANGED calendar

HandleToday(d) == Act /\ ~ModalOpen /\ d # place.date /\ SetDate(d) /\ UNCHANGED calendar

\* The current project changes under the page: the selection stays.
SwitchJournalProject(p) ==
    /\ Act /\ ~ModalOpen /\ p \in Places /\ p.date = place.date /\ p # place
    /\ place' = p /\ RefreshTagged(p)
    /\ UNCHANGED <<journal, journalEvents, rows, marked, cursor, doomed, promotion, composer,
                   calendar, calls, undoable>>

---------------------------------------------------------------------------
(* The calendar *)

CalendarUnchanged ==
    UNCHANGED <<journal, journalEvents, place, rows, reads, latestRead, loading, marked, cursor,
                doomed, promotion, calls, undoable, drafts, composer>>

DaysShown(view) == MonthLengths[MonthOf(view)]

\* viewDate is the day selected when the page came, until a month is chosen.
OpenCalendar(view) ==
    /\ Act /\ ~ModalOpen /\ calendar = NoJournalDialog
    /\ calendar' = [view |-> view,
                    focused |-> IF MonthOf(view) = MonthOf(place.date) THEN DayOfMonth(place.date)
                                ELSE 1]
    /\ CalendarUnchanged

Clamped(focused, view) == IF focused < DaysShown(view) THEN focused ELSE DaysShown(view)

\* setMonth keeps the day of the month, and a day too many runs into the next.
ShowMonth(delta) ==
    LET m == MonthOf(calendar.view) + delta IN
    /\ Act /\ calendar # NoJournalDialog /\ m \in DOMAIN MonthLengths
    /\ LET view == MonthStart(m) + DayOfMonth(calendar.view) - 1 IN
        /\ \E k \in DOMAIN MonthLengths : view < MonthStart(k) + MonthLengths[k]
        /\ calendar' = [view |-> view, focused |-> Clamped(calendar.focused, view)]
    /\ CalendarUnchanged

\* The arrows move by a day or a week, Home and End to the edges.
HandleGridKeyDown(delta) ==
    LET day == calendar.focused + delta IN
    /\ Act /\ calendar # NoJournalDialog
    /\ calendar' = [calendar EXCEPT !.focused = Clamped(IF day < 1 THEN 1 ELSE day, calendar.view)]
    /\ CalendarUnchanged

HandleCalendarSelect ==
    /\ Act /\ calendar # NoJournalDialog
    /\ SetDate(MonthStart(MonthOf(calendar.view)) + calendar.focused - 1) /\ UNCHANGED calendar

CloseCalendar == Act /\ calendar # NoJournalDialog /\ calendar' = NoJournalDialog /\ CalendarUnchanged

---------------------------------------------------------------------------
(* Selection *)

SelectionUnchanged ==
    UNCHANGED <<journal, journalEvents, place, rows, reads, latestRead, loading, doomed, promotion,
                calls, undoable, drafts, composer, calendar>>

\* highlightNext, highlightPrevious, a click on a row.
Highlight(i) ==
    /\ Act /\ doomed = NoJournalDialog /\ i \in DOMAIN rows /\ i # cursor /\ cursor' = i
    /\ UNCHANGED marked /\ SelectionUnchanged

\* The space key toggles the highlighted row, the row's box its own.
ToggleMark(i) ==
    /\ Act /\ doomed = NoJournalDialog /\ i \in DOMAIN rows
    /\ marked' = IF rows[i].id \in marked THEN marked \ {rows[i].id} ELSE marked \cup {rows[i].id}
    /\ UNCHANGED cursor /\ SelectionUnchanged

\* Escape closes the confirm dialog, and otherwise clears the selection.
JournalEscape ==
    /\ Act /\ IF doomed # NoJournalDialog THEN doomed' = NoJournalDialog /\ UNCHANGED marked
              ELSE marked # {} /\ marked' = {} /\ UNCHANGED doomed
    /\ UNCHANGED <<journal, journalEvents, place, rows, reads, latestRead, loading, cursor,
                   promotion, calls, undoable, drafts, composer, calendar>>

---------------------------------------------------------------------------
(* Deleting, and undoing it *)

\* A call of one of the loops: what is left of ids, on the place of the render
\* that made the handler.
Loop(kind, ids, p) ==
    [kind |-> kind, all |-> ids, todo |-> ids, place |-> p, restored |-> FALSE, live |-> TRUE]

\* The loops go through the entries in their order.
IsNext(e, todo) ==
    /\ e \in todo
    /\ \E i \in DOMAIN JournalOrder : /\ JournalOrder[i] = e
                                     /\ \A j \in 1..(i - 1) : JournalOrder[j] \notin todo

HandleDeleteSelected ==
    /\ Act /\ ~ModalOpen /\ marked # {} /\ doomed' = [ids |-> marked, place |-> place]
    /\ UNCHANGED <<journal, journalEvents, place, rows, reads, latestRead, loading, marked, cursor,
                   promotion, calls, undoable, drafts, composer, calendar>>

\* The dialog stays until the loop is over, so it can be confirmed again.
ConfirmEntryDelete ==
    /\ Act /\ doomed # NoJournalDialog /\ calls' = Append(calls, Loop("delete", doomed.ids, doomed.place))
    /\ UNCHANGED <<journal, journalEvents, pageVars, reads, undoable>>

Found(e, p) == journal[e].state # "absent" /\ JournalHome[e] = p

\* DeleteEntry: a file that cannot be written, and an entry that is not in it, fail.
DeleteStep(i, e, ok) ==
    LET c == calls[i]
        rest == [c EXCEPT !.todo = @ \ {e}]
        done == ok /\ Found(e, c.place)
        last == done /\ rest.todo = {}
    IN
    /\ c.kind = "delete" /\ IsNext(e, c.todo)
    /\ journal' = IF done THEN [journal EXCEPT ![e].state = "deleted"] ELSE journal
    /\ journalEvents' = IF done THEN Append(journalEvents, c.place) ELSE journalEvents
    /\ calls' = IF done /\ ~last THEN [calls EXCEPT ![i] = rest] ELSE RemoveAt(calls, i)
    /\ undoable' = IF last THEN Append(undoable, [ids |-> c.all, place |-> c.place, live |-> c.live])
                   ELSE undoable
    /\ IF c.live
       THEN /\ IF done THEN SetEntries(SelectSeq(rows, LAMBDA r : r.id # e)) ELSE UNCHANGED <<rows, cursor>>
            /\ marked' = IF last THEN {} ELSE IF done THEN marked \ {e} ELSE marked
            /\ doomed' = IF done /\ ~last THEN doomed ELSE NoJournalDialog
       ELSE UNCHANGED <<rows, cursor, marked, doomed>>
    /\ UNCHANGED <<place, latestRead, loading, promotion, drafts, composer, calendar, reads,
                   journalSteps>>

WhereViewed(offer) == IF OnPage THEN place ELSE offer.place

WhereDeleted(offer) == offer.place

\* The toast is shown whatever page is open, and goes when it is used.
ClickUndo(i) ==
    /\ journalSteps < MaxJournalSteps /\ journalSteps' = journalSteps + 1
    /\ undoable' = RemoveAt(undoable, i)
    /\ calls' = Append(calls, [Loop("restore", undoable[i].ids, WhereDeleted(undoable[i]))
                               EXCEPT !.live = undoable[i].live])
    /\ UNCHANGED <<journal, journalEvents, pageVars, reads>>

\* restoreEntries goes on after a failure, and reads again if any was restored.
RestoreStep(i, e, ok) ==
    LET c == calls[i]
        done == ok /\ Found(e, c.place)
        rest == [c EXCEPT !.todo = @ \ {e}, !.restored = @ \/ done]
    IN
    /\ c.kind = "restore" /\ IsNext(e, c.todo)
    /\ journal' = IF done THEN [journal EXCEPT ![e].state = "active"] ELSE journal
    /\ journalEvents' = IF done THEN Append(journalEvents, c.place) ELSE journalEvents
    /\ calls' = IF rest.todo # {} THEN [calls EXCEPT ![i] = rest] ELSE RemoveAt(calls, i)
    /\ IF rest.todo = {} /\ rest.restored /\ c.live THEN RefreshUntagged(c.place, "view")
       ELSE UNCHANGED <<reads, latestRead, loading, drafts>>
    /\ UNCHANGED <<place, rows, marked, cursor, doomed, promotion, composer, calendar, undoable,
                   journalSteps>>

---------------------------------------------------------------------------
(* Promoting to a document *)

HandlePromoteSelected ==
    /\ Act /\ doomed = NoJournalDialog /\ marked # {}
    /\ promotion' = [promotion EXCEPT !.open = TRUE, !.keep = FALSE]
    /\ UNCHANGED <<marked, cursor, journal, journalEvents, place, rows, reads, latestRead, loading,
                   doomed, calls, undoable, drafts, composer, calendar>>

ChangePromotion(open, keep) ==
    /\ Act /\ promotion.open /\ promotion' = [promotion EXCEPT !.open = open, !.keep = keep]
    /\ promotion' # promotion
    /\ UNCHANGED <<marked, cursor, journal, journalEvents, place, rows, reads, latestRead, loading,
                   doomed, calls, undoable, drafts, composer, calendar>>

NotPromoting == ~promotion.busy

\* The ids are those selected now; the place that of this render.
HandleConfirmPromote ==
    /\ Act /\ promotion.open /\ NotPromoting /\ marked # {}
    /\ promotion' = [promotion EXCEPT !.busy = TRUE]
    /\ calls' = Append(calls, [kind |-> "promote", all |-> marked, place |-> place,
                               keep |-> promotion.keep, live |-> TRUE])
    /\ UNCHANGED <<journal, journalEvents, place, rows, reads, latestRead, loading, marked, cursor,
                   doomed, undoable, drafts, composer, calendar>>

\* PromoteToDocument takes deleted entries too.  It can fail after the document
\* is written, when the journal file is not; that leaves the entries as they were.
\* Success leads to the new document, away from whatever page is open.
PromoteEnds(i, ok) ==
    LET c == calls[i]
        done == ok /\ \A e \in c.all : Found(e, c.place)
    IN
    /\ c.kind = "promote"
    /\ journal' = IF done /\ ~c.keep
                  THEN [e \in Entries |-> IF e \in c.all THEN [journal[e] EXCEPT !.state = "deleted"]
                                          ELSE journal[e]]
                  ELSE journal
    /\ IF done
       THEN Unmount /\ calls' = Orphaned(RemoveAt(calls, i)) /\ undoable' = Orphaned(undoable)
       ELSE /\ calls' = RemoveAt(calls, i)
            /\ promotion' = IF c.live THEN [promotion EXCEPT !.busy = FALSE] ELSE promotion
            /\ UNCHANGED <<place, rows, latestRead, loading, marked, cursor, doomed, drafts,
                           composer, calendar, reads, undoable>>
    /\ UNCHANGED <<journalEvents, journalSteps>>

---------------------------------------------------------------------------
(* Writing: the editor in a row, and the composer *)

WritingUnchanged ==
    UNCHANGED <<journal, journalEvents, place, rows, reads, latestRead, loading, marked, cursor,
                doomed, promotion, undoable, calendar>>

Rendered(e) == ~loading /\ \E i \in DOMAIN rows : rows[i].id = e
ListedEntries(e) == (CHOOSE i \in DOMAIN rows : rows[i].id = e)

\* startEditing, typing, cancelEditing.
EditRow(e, text) ==
    /\ Act /\ ~ModalOpen /\ Rendered(e) /\ drafts[e].phase # "saving"
    /\ drafts' = [drafts EXCEPT ![e] = IF drafts[e].phase = "closed"
                                       THEN [phase |-> "open", text |-> rows[ListedEntries(e)].text]
                                       ELSE [@ EXCEPT !.text = text]]
    /\ drafts' # drafts /\ UNCHANGED <<calls, composer>> /\ WritingUnchanged

CancelEditing(e) ==
    /\ Act /\ ~ModalOpen /\ Rendered(e) /\ drafts[e].phase = "open"
    /\ drafts' = [drafts EXCEPT ![e] = NotEditing] /\ UNCHANGED <<calls, composer>> /\ WritingUnchanged

\* A blank or unchanged draft is not saved.
SaveEditing(e) ==
    /\ Act /\ ~ModalOpen /\ Rendered(e) /\ drafts[e].phase = "open"
    /\ IF drafts[e].text \in {Blank, rows[ListedEntries(e)].text}
       THEN drafts' = [drafts EXCEPT ![e] = NotEditing] /\ UNCHANGED calls
       ELSE /\ drafts' = [drafts EXCEPT ![e].phase = "saving"]
            /\ calls' = Append(calls, [kind |-> "update", id |-> e, text |-> drafts[e].text,
                                       place |-> place, live |-> TRUE])
    /\ UNCHANGED composer /\ WritingUnchanged

\* UpdateEntry and then the row; an editor that is gone meanwhile stays gone.
UpdateEnds(i, ok) ==
    LET c == calls[i]
        done == ok /\ Found(c.id, c.place)
    IN
    /\ c.kind = "update" /\ calls' = RemoveAt(calls, i)
    /\ journal' = IF done THEN [journal EXCEPT ![c.id].text = c.text] ELSE journal
    /\ IF done /\ c.live
       THEN SetEntries([k \in DOMAIN rows |-> IF rows[k].id = c.id
                                              THEN [rows[k] EXCEPT !.text = c.text] ELSE rows[k]])
       ELSE UNCHANGED <<rows, cursor>>
    /\ drafts' = IF c.live /\ drafts[c.id].phase = "saving"
                 THEN [drafts EXCEPT ![c.id] = IF done THEN NotEditing ELSE [@ EXCEPT !.phase = "open"]]
                 ELSE drafts
    /\ UNCHANGED <<journalEvents, place, latestRead, loading, marked, doomed, promotion, composer,
                   calendar, reads, undoable, journalSteps>>

ComposeText(text) ==
    /\ Act /\ ~ModalOpen /\ ~composer.saving /\ composer.text # text
    /\ composer' = [composer EXCEPT !.text = text] /\ UNCHANGED <<calls, drafts>> /\ WritingUnchanged

SubmitComposer ==
    /\ Act /\ ~ModalOpen /\ ~composer.saving /\ composer.text # Blank
    /\ composer' = [composer EXCEPT !.saving = TRUE]
    /\ calls' = Append(calls, [kind |-> "append", text |-> composer.text, place |-> place,
                               live |-> TRUE])
    /\ UNCHANGED drafts /\ WritingUnchanged

\* AppendEntryToDate; the text stays in the composer if it fails.
AppendEnds(i, e, ok) ==
    LET c == calls[i] IN
    /\ c.kind = "append" /\ JournalHome[e] = c.place /\ journal[e].state = "absent"
    /\ calls' = RemoveAt(calls, i)
    /\ IF ok THEN /\ journal' = [journal EXCEPT ![e] = [state |-> "active", text |-> c.text]]
                  /\ journalEvents' = Append(journalEvents, c.place)
             ELSE UNCHANGED <<journal, journalEvents>>
    /\ IF ok /\ c.live THEN RefreshUntagged(c.place, "append")
       ELSE UNCHANGED <<reads, latestRead, loading, drafts>>
    /\ composer' = IF c.live /\ ~ok THEN [composer EXCEPT !.saving = FALSE] ELSE composer
    /\ UNCHANGED <<place, rows, marked, cursor, doomed, promotion, calendar, undoable,
                   journalSteps>>

---------------------------------------------------------------------------
JournalTexts == {1, 2}

JournalInit ==
    /\ journal = [e \in Entries |-> [state |-> IF e \in Seeded THEN "active" ELSE "absent", text |-> 1]]
    /\ journalEvents = <<>> /\ reads = <<>> /\ calls = <<>> /\ undoable = <<>>
    /\ place = Elsewhere /\ rows = <<>> /\ latestRead = 0 /\ loading = FALSE /\ marked = {}
    /\ cursor = 1 /\ doomed = NoJournalDialog /\ calendar = NoJournalDialog
    /\ promotion = [open |-> FALSE, keep |-> FALSE, busy |-> FALSE]
    /\ drafts = [e \in Entries |-> NotEditing] /\ composer = [text |-> Blank, saving |-> FALSE]
    /\ journalSteps = 0

JournalNext ==
    \/ JournalService
    \/ \E i \in DOMAIN reads, ok \in BOOLEAN : ReadEnds(i, ok)
    \/ \E i \in DOMAIN journalEvents : EntryHeard(i)
    \/ \E p \in Places : OpenJournal(p) \/ SwitchJournalProject(p)
    \/ LeaveJournal
    \/ \E delta \in {-1, 1} : GoToDay(delta) \/ ShowMonth(delta)
    \/ \E p \in Places : HandleToday(p.date) \/ OpenCalendar(p.date)
    \/ \E delta \in {-7, -1, 1, 7} : HandleGridKeyDown(delta)
    \/ HandleCalendarSelect \/ CloseCalendar
    \/ \E i \in DOMAIN rows : Highlight(i) \/ ToggleMark(i)
    \/ JournalEscape \/ HandleDeleteSelected \/ ConfirmEntryDelete
    \/ \E i \in DOMAIN calls, ok \in BOOLEAN :
          PromoteEnds(i, ok) \/ UpdateEnds(i, ok)
    \/ \E i \in DOMAIN undoable : ClickUndo(i)
    \/ HandlePromoteSelected \/ HandleConfirmPromote
    \/ \E open, keep \in BOOLEAN : ChangePromotion(open, keep)
    \/ \E e \in Entries, text \in {Blank} \cup JournalTexts : EditRow(e, text)
    \/ \E e \in Entries : CancelEditing(e) \/ SaveEditing(e)
    \/ \E text \in {Blank} \cup JournalTexts : ComposeText(text)
    \/ SubmitComposer
    \/ \E i \in DOMAIN calls, e \in Entries, ok \in BOOLEAN :
          DeleteStep(i, e, ok) \/ RestoreStep(i, e, ok) \/ AppendEnds(i, e, ok)

JournalSpec == JournalInit /\ [][JournalNext]_journalVars

---------------------------------------------------------------------------
(* Undo asks for every entry back where it was deleted, however far the    *)
(* user has gone since: every restore call under way names entries of its  *)
(* own day and project (restoreEntries, useJournalController.ts:255).      *)
UndoFindsEntries ==
    \A i \in DOMAIN calls :
        calls[i].kind = "restore" => \A e \in calls[i].all : Found(e, calls[i].place)
=============================================================================
