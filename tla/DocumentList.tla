------------------------------ MODULE DocumentList ------------------------------
(***************************************************************************)
(* The document list (frontend/src/document/context and dashboard): what   *)
(* is listed for the current project, the highlighted row and the selected *)
(* documents, and the operations on several documents, which are sequences *)
(* of calls to the document service with other events between them.        *)
(*                                                                         *)
(* The service is external: `library` is what it holds, a call takes       *)
(* effect in one step, and its events arrive later.                        *)
(***************************************************************************)
EXTENDS Integers, Sequences, FiniteSets, Functions

CONSTANTS
    ByUpdated,      \* the documents, the order in which the service lists them
    Projects,       \* project aliases
    NoProject,
    MaxDashSteps    \* bound: operations and changes made elsewhere

VARIABLES
    library,        \* document -> [project, state]: "active", "archived" or "gone"
    undelivered,    \* entry events on their way to the window
    current,        \* project.store's currentProject
    showArchived,
    listing,        \* DocumentContext: [token, alias, archived, documents, failed]
    loads,          \* listByProject calls under way
    highlighted,    \* selectedIndex, counted from 1; 0 is the code's -1
    selected,       \* selectedDocuments
    sort,           \* useDocumentSort: [field, ascending], read by the rows on screen only
    dialog,         \* paths captured by the delete or move dialog
    job,            \* the operation under way
    undo,           \* paths of the toast's Undo
    movedUnheard,   \* a failed move left documents moved and the list as it was
    dashSteps

dashVars == <<library, undelivered, current, showArchived, listing, loads, highlighted,
              selected, sort, dialog, job, undo, movedUnheard, dashSteps>>

AllDocs == Range(ByUpdated)
NoDialog == [kind |-> "none", paths |-> {}]
NoJob == [kind |-> "none", todo |-> {}, paths |-> {}, token |-> 0]

\* ListByProject: newest first; with includeArchived the archived ones as well.
ListedIn(lib, alias, archived) ==
    SelectSeq(ByUpdated, LAMBDA d : /\ lib[d].project = alias
                                    /\ lib[d].state \in {"active"} \cup
                                         (IF archived THEN {"archived"} ELSE {}))

Listed(alias, archived) == ListedIn(library, alias, archived)

\* The first load is over, or there is no project to load.
DashInit ==
    /\ library \in [AllDocs -> [project : Projects, state : {"active"}]]
    /\ undelivered = 0 /\ current \in Projects \cup {NoProject} /\ showArchived = FALSE
    /\ listing = [token |-> 0, alias |-> current, archived |-> FALSE,
                  documents |-> Listed(current, FALSE), failed |-> FALSE]
    /\ loads = {} /\ highlighted = 1 /\ selected = {} /\ sort = [field |-> "updated", ascending |-> FALSE]
    /\ dialog = NoDialog /\ job = NoJob /\ undo = {} /\ movedUnheard = FALSE
    /\ dashSteps = 0

---------------------------------------------------------------------------
\* Loading.

LoadDocuments(alias, archived) ==
    /\ listing' = [listing EXCEPT !.token = @ + 1, !.alias = alias, !.archived = archived,
                                  !.failed = FALSE]
    /\ loads' = loads \cup {[token |-> listing.token + 1, alias |-> alias,
                             archived |-> archived, answer |-> <<"none">>]}
    /\ movedUnheard' = FALSE

\* Selecting and opening a dialog cost nothing while steps are left.
TimeLeft == dashSteps < MaxDashSteps

Work == TimeLeft /\ dashSteps' = dashSteps + 1

\* NoProject: the last project was archived or deleted.
SwitchProject(p) ==
    /\ Work /\ p # current
    /\ current' = p
    /\ IF p = NoProject THEN UNCHANGED <<listing, loads, movedUnheard>>
       ELSE LoadDocuments(p, showArchived)
    /\ UNCHANGED <<library, undelivered, showArchived, highlighted, selected, sort, dialog, job,
                   undo>>

ToggleArchived ==
    /\ Work /\ showArchived' = ~showArchived
    /\ IF current = NoProject THEN UNCHANGED <<listing, loads, movedUnheard>>
       ELSE LoadDocuments(current, ~showArchived)
    /\ UNCHANGED <<library, undelivered, current, highlighted, selected, sort, dialog, job, undo>>

\* The service reads the table; its answer travels back.
ListRead(l) ==
    /\ l \in loads /\ l.answer = <<"none">>
    /\ loads' = (loads \ {l}) \cup
                {[l EXCEPT !.answer = <<"read", Listed(l.alias, l.archived)>>]}
    /\ UNCHANGED <<library, undelivered, current, showArchived, listing, highlighted, selected,
                   sort, dialog, job, undo, movedUnheard, dashSteps>>

AnyAnswer(token) == TRUE

IsLatest(token) == token = listing.token

\* The selection index is pulled back when the list got shorter.
ClampedRow(i, documents) == IF documents # <<>> /\ i > Len(documents) THEN Len(documents) ELSE i

\* What an operation does once its reload is over: the selection is cleared,
\* also when the reload failed or was overtaken.
JobAfter(token) ==
    IF job.token = token
    THEN /\ job' = NoJob /\ selected' = {}
         /\ dialog' = IF job.kind = "delete" THEN NoDialog ELSE dialog
         /\ undo' = IF job.kind = "archive" THEN job.paths ELSE undo
    ELSE UNCHANGED <<job, selected, dialog, undo>>

ListDelivered(l, ok) ==
    /\ l \in loads /\ (ok => l.answer # <<"none">>)
    /\ loads' = loads \ {l}
    /\ IF IsLatest(l.token)
       THEN /\ listing' = IF ok THEN [listing EXCEPT !.documents = l.answer[2]]
                          ELSE [listing EXCEPT !.failed = TRUE]
            /\ highlighted' = ClampedRow(highlighted, listing'.documents)
       ELSE UNCHANGED <<listing, highlighted>>
    /\ JobAfter(l.token)
    /\ UNCHANGED <<movedUnheard, library, undelivered, current, showArchived, sort, dashSteps>>

\* An entry event: refreshDocuments with the filter of the last load.
EventArrives ==
    /\ undelivered > 0 /\ undelivered' = undelivered - 1
    /\ IF listing.alias = NoProject THEN UNCHANGED <<listing, loads, movedUnheard>>
       ELSE LoadDocuments(listing.alias, listing.archived)
    /\ UNCHANGED <<library, current, showArchived, highlighted, selected, sort, dialog, job, undo, dashSteps>>

\* Another window, the editor or the file watcher archives or restores one.
ChangedElsewhere(d) ==
    /\ Work /\ library[d].state # "gone"
    /\ library' = [library EXCEPT ![d].state = IF @ = "active" THEN "archived" ELSE "active"]
    /\ undelivered' = undelivered + 1
    /\ UNCHANGED <<current, showArchived, listing, loads, highlighted, selected, sort, dialog, job,
                   undo, movedUnheard>>

---------------------------------------------------------------------------
\* The rows: what is on screen is sorted, what the controller indexes is not.

ListUnchanged == UNCHANGED <<library, undelivered, current, showArchived, listing, loads, job,
                             undo, movedUnheard>>

\* The same field again turns the order round.
SetSort(field) ==
    /\ Work
    /\ sort' = IF field = sort.field THEN [sort EXCEPT !.ascending = ~@]
               ELSE [field |-> field, ascending |-> field = "title"]
    /\ ListUnchanged /\ UNCHANGED <<highlighted, selected, dialog>>

\* A row gets the focus: the index is the one on screen.
HighlightRow(i) ==
    /\ Work /\ i \in DOMAIN listing.documents /\ i # highlighted
    /\ highlighted' = i
    /\ ListUnchanged /\ UNCHANGED <<selected, sort, dialog>>

\* Math.min(prev + 1, length - 1) is -1 when nothing is listed.
HighlightNext ==
    /\ Work
    /\ highlighted' = IF highlighted + 1 > Len(listing.documents) THEN Len(listing.documents)
                      ELSE highlighted + 1
    /\ ListUnchanged /\ UNCHANGED <<selected, sort, dialog>>

HighlightPrevious ==
    /\ Work
    /\ highlighted' = IF highlighted <= 1 THEN 1 ELSE highlighted - 1
    /\ ListUnchanged /\ UNCHANGED <<selected, sort, dialog>>

\* Enter, Space and the move key take documents[highlightedIndex].
OnRow == highlighted \in DOMAIN listing.documents
AtHighlight == listing.documents[highlighted]

Toggled(d) == IF d \in selected THEN selected \ {d} ELSE selected \cup {d}

ToggleHighlighted ==
    /\ Work /\ OnRow
    /\ selected' = Toggled(AtHighlight)
    /\ ListUnchanged /\ UNCHANGED <<highlighted, sort, dialog>>

\* A click on a row's box names the path and moves the highlight.
TogglePath(d) ==
    /\ Work /\ d \in Range(listing.documents)
    /\ selected' = Toggled(d)
    /\ highlighted' = CHOOSE i \in DOMAIN listing.documents : listing.documents[i] = d
    /\ ListUnchanged /\ UNCHANGED <<sort, dialog>>

SelectAllDocuments ==
    /\ TimeLeft /\ selected' = Range(listing.documents)
    /\ ListUnchanged /\ UNCHANGED <<highlighted, sort, dialog, dashSteps>>

EscapeDashboard ==
    /\ TimeLeft
    /\ IF dialog # NoDialog THEN dialog' = NoDialog /\ UNCHANGED selected
       ELSE selected' = {} /\ UNCHANGED dialog
    /\ ListUnchanged /\ UNCHANGED <<highlighted, sort, dashSteps>>

---------------------------------------------------------------------------
\* Operations on several documents, which are gone through in the order in which
\* they were selected: any order.

StartJob(kind, paths) ==
    /\ Work /\ job = NoJob /\ paths # {}
    /\ job' = [kind |-> kind, todo |-> paths, paths |-> paths, token |-> 0]
    /\ UNCHANGED <<library, undelivered, current, showArchived, listing, loads, highlighted,
                   selected, sort, undo, movedUnheard>>

ArchiveSelected == ~showArchived /\ StartJob("archive", selected) /\ UNCHANGED dialog
RestoreSelected == showArchived /\ StartJob("restore", selected) /\ UNCHANGED dialog
UndoArchive == undo # {} /\ StartJob("undo", undo) /\ UNCHANGED dialog

\* The dialogs capture the paths when they open.
OpenDialogFor(kind, paths) ==
    /\ TimeLeft /\ dialog = NoDialog /\ paths # {}
    /\ dialog' = [kind |-> kind, paths |-> paths]
    /\ ListUnchanged /\ UNCHANGED <<highlighted, selected, sort, dashSteps>>

DeleteSelected ==
    /\ Cardinality(selected) = 1 => selected \subseteq Range(listing.documents)
    /\ OpenDialogFor("delete", selected)

MoveSelected ==
    \/ selected # {} /\ OpenDialogFor("move", selected)
    \/ /\ selected = {} /\ OnRow
       /\ OpenDialogFor("move", {AtHighlight})

\* Both dialogs stay open until the operation is done.
ConfirmDelete == dialog.kind = "delete" /\ StartJob("delete", dialog.paths) /\ UNCHANGED dialog

ConfirmMove(p) ==
    /\ dialog.kind = "move" /\ p # current
    /\ StartJob(p, dialog.paths) /\ UNCHANGED dialog

\* The next call of the operation.  Archiving what is archived, restoring what is
\* not, moving to where it is and anything on a document that is gone fails.
After(d, kind) ==
    CASE kind = "archive" -> [library[d] EXCEPT !.state = "archived"]
      [] kind \in {"restore", "undo"} -> [library[d] EXCEPT !.state = "active"]
      [] kind = "delete" -> [library[d] EXCEPT !.state = "gone"]
      [] OTHER -> [library[d] EXCEPT !.project = kind]

CallDone(d) ==
    /\ library[d].state # "gone" /\ After(d, job.kind) # library[d]
    /\ library' = [library EXCEPT ![d] = After(d, job.kind)]
    \* entry/moved is not an event the list listens to
    /\ undelivered' = IF job.kind \in Projects THEN undelivered ELSE undelivered + 1
    /\ job' = [job EXCEPT !.todo = @ \ {d}]
    /\ UNCHANGED <<dialog, movedUnheard>>

CallFails(d) ==
    /\ UNCHANGED <<library, undelivered>>
    /\ dialog' = IF job.kind = "delete" THEN NoDialog ELSE dialog
    /\ job' = IF job.kind = "undo" THEN [job EXCEPT !.todo = @ \ {d}] ELSE NoJob
    /\ movedUnheard' = (movedUnheard \/ (job.kind \in Projects /\ job.todo # job.paths))

JobCall ==
    /\ job.kind # "none"
    /\ \E d \in job.todo : CallDone(d) \/ CallFails(d)
    /\ UNCHANGED <<current, showArchived, listing, loads, highlighted, selected, sort, undo,
                   dashSteps>>

\* reloadDocuments, with what is current by now; the operation waits for it.
JobReloads ==
    /\ job.kind # "none" /\ job.todo = {} /\ job.token = 0
    /\ dialog' = IF \/ job.kind \in Projects
                    \/ job.kind = "delete" /\ current = NoProject
                  THEN NoDialog ELSE dialog
    /\ IF current = NoProject
       THEN job' = NoJob /\ selected' = {} /\ UNCHANGED <<listing, loads, movedUnheard>>
       ELSE /\ LoadDocuments(current, showArchived)
            /\ job' = [job EXCEPT !.token = listing.token + 1] /\ UNCHANGED selected
    /\ UNCHANGED <<library, undelivered, current, showArchived, highlighted, sort, undo, dashSteps>>

DashNext ==
    \/ \E p \in Projects \cup {NoProject} : SwitchProject(p)
    \/ \E p \in Projects : ConfirmMove(p)
    \/ ToggleArchived \/ EventArrives
    \/ \E l \in loads : ListRead(l) \/ \E ok \in BOOLEAN : ListDelivered(l, ok)
    \/ \E d \in AllDocs : ChangedElsewhere(d) \/ TogglePath(d)
    \/ \E field \in {"updated", "title"} : SetSort(field)
    \/ \E i \in DOMAIN listing.documents : HighlightRow(i)
    \/ HighlightNext \/ HighlightPrevious \/ ToggleHighlighted
    \/ SelectAllDocuments \/ EscapeDashboard
    \/ ArchiveSelected \/ RestoreSelected \/ UndoArchive
    \/ DeleteSelected \/ MoveSelected \/ ConfirmDelete \/ JobCall \/ JobReloads

DashSpec == DashInit /\ [][DashNext]_dashVars

---------------------------------------------------------------------------
\* When every call has been answered and every event has arrived, the list is
\* that of the current project under the current filter, however switches,
\* toggles, events and operations overlapped, unless the last load failed or a
\* move stopped half-way, which no event reports (DocumentContext).
ListIsCurrent ==
    loads = {} /\ undelivered = 0 /\ job = NoJob /\ ~listing.failed /\ ~movedUnheard
        /\ current # NoProject
    => listing.documents = Listed(current, showArchived)
=============================================================================
