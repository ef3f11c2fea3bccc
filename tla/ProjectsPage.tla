----------------------------- MODULE ProjectsPage -----------------------------
(***************************************************************************)
(* Projects in the window (shared/stores/project.store.ts and project): the  *)
(* current and the previous project, loading the two lists, and the page   *)
(* that archives, restores, renames, creates and deletes projects through  *)
(* one-line commands of internal/commandline/project.go, which may ask for *)
(* a confirmation first.                                                   *)
(***************************************************************************)
EXTENDS Integers, Sequences, FiniteSets, Functions

CONSTANTS
    ProjectOrder,   \* project ids, in the order the service lists them
    Hyphenated,     \* those whose alias has a hyphen: the commands take @\w+
    Nobody,         \* no project
    MaxProjSteps    \* bound: operations of the user

VARIABLES
    projServer,     \* project -> "unborn", "active", "archived" or "gone"
    projEvents,     \* project/changed events on their way
    store,          \* [current, previous, projects, archived, last, loading]
    projLoads,      \* loads under way: [n, active, archived, command]
    chosen,         \* selectedProjectId
    confirm,        \* the confirmation dialog: [kind, project, typed, ticked]
    commands,       \* commands sent and not answered: [kind, project, forced]
    pageDialog,     \* "none", "new" or the project the rename dialog is for
    request,        \* projectManage.store: "none", "new" or a project to rename
    projSteps

projVars == <<projServer, projEvents, store, projLoads, chosen, confirm, commands, pageDialog,
              request, projSteps>>

AllProjects == Range(ProjectOrder)

ASSUME ProjectOrderAssumption == ProjectOrder \in Seq(AllProjects)

NoConfirm == [kind |-> "none", project |-> Nobody, typed |-> Nobody, ticked |-> FALSE]
NoCommand == [kind |-> "none", project |-> Nobody, forced |-> FALSE]
Unread == {"unread"}
InState(s) == {p \in AllProjects : projServer[p] = s}
First(S) ==
    CHOOSE p \in S : \E i \in DOMAIN ProjectOrder :
                       /\ p = ProjectOrder[i]
                       /\ \A j \in 1..(i - 1) : ProjectOrder[j] \notin S

\* The window has just been opened: the first load is under way, and last is
\* what an earlier session stored.
ProjInit ==
    /\ projServer \in [AllProjects -> {"unborn", "active", "archived"}]
    /\ projEvents = 0
    /\ \E last \in AllProjects \cup {Nobody} :
         store = [current |-> Nobody, previous |-> Nobody, projects |-> {}, archived |-> {},
                  last |-> last, loading |-> TRUE]
    /\ projLoads = {[n |-> 1, active |-> Unread, archived |-> Unread, command |-> NoCommand]}
    /\ chosen = Nobody /\ confirm = NoConfirm /\ commands = {} /\ pageDialog = "none"
    /\ request = "none" /\ projSteps = 0

Operate == projSteps < MaxProjSteps /\ projSteps' = projSteps + 1

---------------------------------------------------------------------------
\* Loading the two lists: two calls, which may see different moments.

WithLoad(s, loads, command) ==
    /\ store' = [s EXCEPT !.loading = TRUE]
    /\ projLoads' = loads \cup {[n |-> 1 + Cardinality(loads), active |-> Unread,
                                 archived |-> Unread, command |-> command]}

ListActive(l) ==
    /\ l.active = Unread
    /\ projLoads' = (projLoads \ {l}) \cup {[l EXCEPT !.active = InState("active")]}
    /\ UNCHANGED <<projServer, projEvents, store, chosen, confirm, commands, pageDialog, request,
                   projSteps>>

ListArchived(l) ==
    /\ l.archived = Unread
    /\ projLoads' = (projLoads \ {l}) \cup {[l EXCEPT !.archived = InState("archived")]}
    /\ UNCHANGED <<projServer, projEvents, store, chosen, confirm, commands, pageDialog, request,
                   projSteps>>

\* The remembered project when it is active, the first one otherwise.
Fallback(active) == IF store.last \in active THEN store.last ELSE First(active)

StaleKept(active) ==
    IF store.current \in active \/ active = {} THEN store.current ELSE Fallback(active)

NextCurrent(active) ==
    IF store.current \in active THEN store.current
    ELSE IF active # {} THEN Fallback(active) ELSE Nobody

\* What the page's effects make of the row selection: it follows a new current
\* project, and the first project is selected when none is.
ChosenAfter(old, new, selection, active) ==
    IF new # old /\ new # Nobody THEN new
    ELSE IF selection = Nobody /\ active # {} THEN First(active) ELSE selection

\* A request to rename waits for the project to be listed while loading.
TakeRequest(s, pending) ==
    IF pending = "none" \/ (pending \notin s.projects \cup {"new"} /\ s.loading)
    THEN request' = pending /\ UNCHANGED pageDialog
    ELSE /\ request' = "none"
         /\ pageDialog' = IF pending \in s.projects \cup {"new"} THEN pending ELSE pageDialog

\* After a command the project it named is selected, and its dialog - whichever
\* is open by now - closed.
LoadDone(l) ==
    /\ l.active # Unread /\ l.archived # Unread
    /\ LET new == NextCurrent(l.active)
       IN  /\ store' = [store EXCEPT !.projects = l.active, !.archived = l.archived,
                          !.current = new, !.loading = FALSE,
                          !.last = IF new # Nobody THEN new ELSE @]
           /\ chosen' = IF l.command # NoCommand THEN l.command.project
                        ELSE ChosenAfter(store.current, new, chosen, l.active)
    /\ projLoads' = projLoads \ {l}
    /\ confirm' = IF l.command.forced THEN NoConfirm ELSE confirm
    /\ IF l.command.kind = "create"
       THEN pageDialog' = "none" /\ UNCHANGED request
       ELSE TakeRequest(store', request)
    /\ UNCHANGED <<projServer, projEvents, commands, projSteps>>

LoadFails(l) ==
    /\ l \in projLoads /\ projLoads' = projLoads \ {l}
    /\ store' = [store EXCEPT !.loading = FALSE]
    /\ chosen' = IF l.command # NoCommand THEN l.command.project ELSE chosen
    /\ confirm' = IF l.command.forced THEN NoConfirm ELSE confirm
    /\ IF l.command.kind = "create"
       THEN pageDialog' = "none" /\ UNCHANGED request
       ELSE TakeRequest(store', request)
    /\ UNCHANGED <<projServer, projEvents, commands, projSteps>>

ProjectChanged ==
    /\ projEvents > 0 /\ projEvents' = projEvents - 1
    /\ WithLoad(store, projLoads, NoCommand)
    /\ UNCHANGED <<projServer, chosen, confirm, commands, pageDialog, request, projSteps>>

---------------------------------------------------------------------------
\* The current project.

SetCurrentProject(p) ==
    /\ store' = [store EXCEPT !.current = p, !.last = p,
                   !.previous = IF store.current \notin {Nobody, p} THEN store.current ELSE @]
    /\ chosen' = p

PageUnchanged == UNCHANGED <<projServer, projEvents, projLoads, confirm, commands, pageDialog,
                             request>>

\* A row, the switcher and the palette offer the active projects; the sidebar
\* and Enter on the selected row the archived ones as well.
ChooseProject(p) ==
    /\ Operate /\ p \in store.projects \cup store.archived
    /\ SetCurrentProject(p) /\ PageUnchanged

SelectArchivedRow(p) ==
    /\ Operate /\ p \in store.archived /\ chosen # p /\ chosen' = p
    /\ UNCHANGED store /\ PageUnchanged

SwitchToLastProject ==
    /\ Operate /\ store.previous # Nobody
    /\ store' = [store EXCEPT !.current = store.previous, !.previous = store.current]
    /\ chosen' = store.previous /\ PageUnchanged

\* j and k walk through the active and then the archived projects as listed.
SelectRow(step) ==
    LET rows == SelectSeq(ProjectOrder, LAMBDA p : p \in store.projects)
                  \o SelectSeq(ProjectOrder, LAMBDA p : p \in store.archived)
        at == IF chosen \in Range(rows) THEN CHOOSE i \in DOMAIN rows : rows[i] = chosen ELSE 0
    IN  /\ Operate /\ at + step \in DOMAIN rows /\ chosen' = rows[at + step]
        /\ UNCHANGED store /\ PageUnchanged

---------------------------------------------------------------------------
\* Commands.

\* The buttons of a row and the shortcuts on the selected one.
Offered(kind, p) ==
    CASE kind \in {"archive", "delete", "rename"} -> p \in store.projects
      [] kind = "unarchive" -> p \in store.archived
      [] kind = "hard" -> p \in store.archived \/ (p = chosen /\ p \in store.projects)

Send(kind, p, forced) ==
    commands' = commands \cup {[kind |-> kind, project |-> p, forced |-> forced]}

ExecuteProjectCommand(kind, p) ==
    /\ Operate /\ Offered(kind, p) /\ kind # "rename"
    /\ Send(kind, p, FALSE)
    /\ UNCHANGED <<projServer, projEvents, store, projLoads, chosen, confirm, pageDialog, request>>

OpenRename(p) ==
    /\ Operate /\ pageDialog = "none" /\ Offered("rename", p) /\ pageDialog' = p
    /\ UNCHANGED <<projServer, projEvents, store, projLoads, chosen, confirm, commands, request>>

HandleRenameSubmit ==
    /\ Operate /\ pageDialog \in AllProjects
    /\ Send("rename", pageDialog, FALSE) /\ pageDialog' = "none"
    /\ UNCHANGED <<projServer, projEvents, store, projLoads, chosen, confirm, request>>

OpenNewProject ==
    /\ Operate /\ pageDialog = "none" /\ pageDialog' = "new"
    /\ UNCHANGED <<projServer, projEvents, store, projLoads, chosen, confirm, commands, request>>

CancelDialog ==
    /\ pageDialog # "none" /\ pageDialog' = "none"
    /\ UNCHANGED <<projServer, projEvents, store, projLoads, chosen, confirm, commands, request,
                   projSteps>>

HandleCreateProject(p) ==
    /\ Operate /\ pageDialog = "new" /\ projServer[p] = "unborn"
    /\ Send("create", p, FALSE)
    /\ UNCHANGED <<projServer, projEvents, store, projLoads, chosen, confirm, pageDialog, request>>

\* The palette asks the page for a dialog; for renaming, of the current project.
RequestManage(r) ==
    /\ Operate /\ r \in {"new", store.current} \ {Nobody}
    /\ TakeRequest(store, r)
    /\ UNCHANGED <<projServer, projEvents, store, projLoads, chosen, confirm, commands>>

\* What the service answers: "fails", "asks" for a confirmation, or "done" with
\* the project's state after it.  `delete --hard` of an archived project is
\* answered with "already deleted" and deletes nothing.
Answer(c) ==
    LET s == projServer[c.project]
        stays == <<"done", s>>
    IN  CASE c.kind = "create" -> IF s = "unborn" THEN <<"done", "active">> ELSE <<"fails">>
          [] c.kind # "create" /\ c.project \in Hyphenated -> <<"fails">>
          [] OTHER ->
               CASE c.kind = "rename" -> IF s = "active" THEN stays ELSE <<"fails">>
                 [] c.kind = "unarchive" -> IF s = "archived" THEN <<"done", "active">> ELSE <<"fails">>
                 [] c.kind = "archive" /\ s # "active" -> <<"fails">>
                 [] c.kind \in {"delete", "hard"} /\ s = "archived" -> stays
                 [] s \in {"gone", "unborn"} -> <<"fails">>
                 [] OTHER -> IF ~c.forced THEN <<"asks">>
                             ELSE <<"done", IF c.kind = "hard" THEN "gone" ELSE "archived">>

\* The dialog is replaced when one is open: what was typed stays typed.
CommandAnswered(c) ==
    LET a == Answer(c)
    IN  /\ commands' = commands \ {c}
        /\ CASE a[1] = "done" ->
                  /\ projServer' = [projServer EXCEPT ![c.project] = a[2]]
                  /\ projEvents' = projEvents + (IF a[2] # projServer[c.project] \/ c.kind = "rename"
                                                 THEN 1 ELSE 0)
                  /\ WithLoad(store, projLoads, c)
                  /\ UNCHANGED confirm
             [] a[1] = "asks" ->
                  /\ confirm' = [confirm EXCEPT !.kind = c.kind, !.project = c.project]
                  /\ UNCHANGED <<projServer, projEvents, store, projLoads>>
             [] OTHER ->
                  /\ confirm' = IF c.forced THEN NoConfirm ELSE confirm
                  /\ UNCHANGED <<projServer, projEvents, store, projLoads>>
        /\ UNCHANGED <<chosen, pageDialog, request, projSteps>>

TypeAlias(p) ==
    /\ confirm.kind = "hard" /\ confirm.typed # p
    /\ confirm' = [confirm EXCEPT !.typed = p, !.ticked = TRUE]
    /\ UNCHANGED <<projServer, projEvents, store, projLoads, chosen, commands, pageDialog, request,
                   projSteps>>

CanConfirm == confirm.kind = "hard" => confirm.typed = confirm.project /\ confirm.ticked

OnConfirm ==
    /\ Operate /\ confirm.kind # "none" /\ CanConfirm
    /\ Send(confirm.kind, confirm.project, TRUE)
    /\ UNCHANGED <<projServer, projEvents, store, projLoads, chosen, confirm, pageDialog, request>>

OnCancel ==
    /\ confirm.kind # "none" /\ confirm' = NoConfirm
    /\ UNCHANGED <<projServer, projEvents, store, projLoads, chosen, commands, pageDialog, request,
                   projSteps>>

ProjNext ==
    \/ \E l \in projLoads : ListActive(l) \/ ListArchived(l) \/ LoadDone(l) \/ LoadFails(l)
    \/ ProjectChanged \/ SwitchToLastProject
    \/ \E p \in AllProjects : \/ ChooseProject(p) \/ SelectArchivedRow(p) \/ OpenRename(p)
                              \/ HandleCreateProject(p) \/ TypeAlias(p)
    \/ \E step \in {-1, 1} : SelectRow(step)
    \/ \E p \in AllProjects, kind \in {"archive", "unarchive", "delete", "hard"} :
         ExecuteProjectCommand(kind, p)
    \/ HandleRenameSubmit \/ OpenNewProject \/ CancelDialog
    \/ \E r \in AllProjects \cup {"new"} : RequestManage(r)
    \/ \E c \in commands : CommandAnswered(c)
    \/ OnConfirm \/ OnCancel

ProjSpec == ProjInit /\ [][ProjNext]_projVars

---------------------------------------------------------------------------
\* Delivering the lists never moves the user off a project that is still active,
\* and never leaves them on one that is not: another active project is taken if
\* there is one, none otherwise (loadProjects, "don't keep pointing at a stale
\* project"), and what is current is what the next session will start with.
LoadSettlesCurrent ==
    [][\A l \in projLoads : LoadDone(l) =>
         /\ store.current \in store'.projects => store'.current = store.current
         /\ store'.current \in store'.projects \/ (store'.current = Nobody /\ store'.projects = {})
         /\ store'.current # Nobody => store'.last = store'.current]_projVars
=============================================================================
