------------------------------ MODULE Palette ------------------------------
(***************************************************************************)
(* The command palette: the commands its effect registers for the present  *)
(* context (command-palette/hooks/useGlobalCommandPalette.tsx and          *)
(* registry/commands/), the registry that keeps a list it takes to be the  *)
(* same (registry/commandRegistry.store.ts), how often each command was    *)
(* used and the order that gives (shared/stores/commandUsage.store.ts,     *)
(* utils/commandSorting.ts), and what choosing one does.                   *)
(*                                                                         *)
(*   ctx       what the commands are built from                            *)
(*   sources   the registered commands, by source; a command is what it    *)
(*             shows (id, label) and what its action does, with the values *)
(*             its closure holds (act)                                     *)
(*   options   the list on offer, ordered when it was last computed        *)
(*   usage     per id, hour of last use and number of uses; hour: the time *)
(*   palette   open?; dialogs: the app's count of open dialogs             *)
(*   tasks     calls started by a command; undoToasts: "Undo" on offer     *)
(***************************************************************************)
EXTENDS Integers, Sequences, FiniteSets, Functions, Filters

CONSTANTS PaletteProjects,   \* the projects, in order
          PaletteDocs,       \* documents on offer: sequence of [path, project, kind]
          NoOne,             \* no project, no document
          MaxUsage,          \* records kept
          MaxPaletteSteps

ASSUME PaletteAssumption ==
    /\ PaletteProjects \in Seq(Range(PaletteProjects))
    /\ PaletteDocs \in Seq(Range(PaletteDocs))

VARIABLES ctx, sources, options, usage, hour, palette, dialogs, finderOpen, tasks,
          undoToasts, paletteSteps

paletteVars == <<ctx, sources, options, usage, hour, palette, dialogs, finderOpen, tasks,
                 undoToasts, paletteSteps>>

PaletteStep == paletteSteps < MaxPaletteSteps /\ paletteSteps' = paletteSteps + 1

Pages == {"dashboard", "projects", "document"}

----------------------------------------------------------------------------
(* The commands for a context.  label: text, hint and the like.            *)

Command(id, label, act) == [id |-> id, label |-> label, act |-> act]

Choice(cond, cmds) == IF cond THEN cmds ELSE <<>>

NavigationCommands(c) ==
    << Command(<<"nav-dashboard">>, <<>>, <<"go", "dashboard">>),
       Command(<<"nav-projects">>, <<>>, <<"go", "projects">>) >>

CreateCommands(c) ==
    Choice(c.project # NoOne,
           << Command(<<"new-document">>, <<>>, <<"create", "text", c.project>>),
              Command(<<"new-canvas">>, <<>>, <<"create", "canvas", c.project>>) >>)

\* The document is looked up when the commands are built, and again when
\* one is run.
DocumentCommands(c) ==
    LET has == c.page = "document" /\ c.doc # NoOne
    IN  Choice(has, << Command(<<"save-document">>, <<>>, <<"request", "save">>),
                       Command(<<"archive-document">>, <<>>, <<"archive">>) >>)
        \o Choice(has /\ c.doc.kind = "text",
                  << Command(<<"export-document">>, <<>>, <<"export">>) >>)
        \o Choice(has /\ c.doc.kind = "canvas",
                  << Command(<<"export-canvas-png">>, <<>>, <<"request", "image">>) >>)

ProjectCommands(c) ==
    LET others == KeptAt(PaletteProjects, {i \in DOMAIN PaletteProjects :
                              PaletteProjects[i] \in c.projects \ {c.project}})
    IN  << Command(<<"new-project">>, <<>>, <<"go", "projects">>) >>
        \o Choice(c.project # NoOne,
                  << Command(<<"rename-project">>, <<c.project>>, <<"rename", c.project>>),
                     Command(<<"export-project">>, <<>>, <<"exportProject", c.project>>) >>)
        \o Choice(c.previous # NoOne,
                  << Command(<<"switch-last">>, <<c.previous>>, <<"last">>) >>)
        \o Choice(c.page = "dashboard" /\ c.project # NoOne,
                  << Command(<<"toggle-archived">>,
                             <<IF c.archived THEN "hide" ELSE "show", c.project>>,
                             <<"archived">>) >>)
        \o [i \in DOMAIN others |->
               Command(<<"project", others[i]>>, <<others[i]>>, <<"switch", others[i]>>)]

ApplicationCommands(c) ==
    << Command(<<"open-finder">>, <<>>, <<"finder">>),
       Command(<<"toggle-theme">>, <<>>, <<"theme">>) >>

Sources == {"navigation", "create", "document", "projects", "application"}

CommandsOf(s, c) ==
    CASE s = "navigation" -> NavigationCommands(c)
      [] s = "create" -> CreateCommands(c)
      [] s = "document" -> DocumentCommands(c)
      [] s = "projects" -> ProjectCommands(c)
      [] s = "application" -> ApplicationCommands(c)

----------------------------------------------------------------------------
(* The registry.                                                           *)

\* Mutant: only the ids are compared.
SameIds(old, new) ==
    Len(old) = Len(new) /\ \A i \in DOMAIN old : old[i].id = new[i].id

\* areCommandsEquivalent does not look at the actions.
AreCommandsEquivalent(old, new) ==
    /\ Len(old) = Len(new)
    /\ \A i \in DOMAIN old : old[i].id = new[i].id /\ old[i].label = new[i].label

SetCommands(old, new) == IF AreCommandsEquivalent(old, new) THEN old ELSE new

RegisteredCommands(c) == [s \in DOMAIN sources |-> SetCommands(sources[s], CommandsOf(s, c))]

GetAllCommands(regs) ==
    regs["navigation"] \o regs["create"] \o regs["document"] \o regs["projects"]
        \o regs["application"]

----------------------------------------------------------------------------
(* The order of the list.                                                  *)

RecencyScore(age) == IF age < 1 THEN 50 ELSE IF age < 24 THEN 30
                     ELSE IF age < 168 THEN 15 ELSE 5

UsageScore(id, uses, now) ==
    IF id \notin DOMAIN uses THEN 0
    ELSE LET often == 2 * uses[id].count
         IN  RecencyScore(now - uses[id].last) + (IF often > 20 THEN 20 ELSE often)

SortByUsage(cmds, uses, now) ==
    LET score == [i \in DOMAIN cmds |-> UsageScore(cmds[i].id, uses, now)]
        before(i, j) == score[i] > score[j] \/ (score[i] = score[j] /\ i < j)
        place == [j \in DOMAIN cmds |-> Cardinality({i \in DOMAIN cmds : before(i, j)}) + 1]
    IN  [k \in DOMAIN cmds |-> cmds[CHOOSE j \in DOMAIN cmds : place[j] = k]]

DocumentItems ==
    [i \in DOMAIN PaletteDocs |->
        Command(<<"doc", PaletteDocs[i].path>>, <<>>, <<"open", PaletteDocs[i]>>)]

OfferedChoices(regs) == DocumentItems \o SortByUsage(GetAllCommands(regs), usage, hour)

\* pruneUsageData drops the one used longest ago.
Pruned(uses) ==
    IF Cardinality(DOMAIN uses) <= MaxUsage THEN uses
    ELSE LET oldest == CHOOSE id \in DOMAIN uses :
                           \A other \in DOMAIN uses : uses[id].last <= uses[other].last
         IN  [id \in DOMAIN uses \ {oldest} |-> uses[id]]

RecordUsage(id) ==
    LET count == IF id \in DOMAIN usage THEN usage[id].count ELSE 0
        used == [k \in DOMAIN usage \cup {id} |->
                    IF k = id THEN [last |-> hour, count |-> count + 1] ELSE usage[k]]
    IN  usage' = Pruned(used)

----------------------------------------------------------------------------
(* The context changes: the effect registers the commands anew, unless all *)
(* that changed is the document, of which the context holds a reader only. *)

Rebuild(c) ==
    /\ ctx' = c
    /\ sources' = RegisteredCommands(c)
    /\ options' = IF sources' # sources THEN OfferedChoices(sources') ELSE options

InContext(c) == IF [c EXCEPT !.doc = ctx.doc] = ctx
                THEN ctx' = c /\ UNCHANGED <<sources, options>>
                ELSE Rebuild(c)

Switched(c, p) == IF c.project \notin {NoOne, p}
                  THEN [c EXCEPT !.project = p, !.previous = c.project]
                  ELSE [c EXCEPT !.project = p]

GoTo(c, page, doc) == [c EXCEPT !.page = page, !.doc = doc]

OutsidePalette(c) ==
    /\ PaletteStep /\ ~palette /\ InContext(c)
    /\ UNCHANGED <<usage, hour, palette, dialogs, finderOpen, tasks, undoToasts>>

SwitchesProject(p) == p \in ctx.projects /\ OutsidePalette(Switched(ctx, p))

ShowsPage(page) == page # "document" /\ OutsidePalette(GoTo(ctx, page, NoOne))

OpenDocument(d) == OutsidePalette(GoTo(ctx, "document", d))

ProjectsLoaded(ps) == ps # ctx.projects /\ OutsidePalette([ctx EXCEPT !.projects = ps])

HoursPass(h) ==
    /\ PaletteStep /\ hour' = hour + h
    /\ UNCHANGED <<ctx, sources, options, usage, palette, dialogs, finderOpen, tasks,
                   undoToasts>>

----------------------------------------------------------------------------
(* The palette.  Its close lowers the count of dialogs each time it is     *)
(* called: by the action, and again by the palette.                        *)

OpenPalette ==
    /\ PaletteStep /\ ~palette
    /\ palette' = TRUE /\ dialogs' = dialogs + 1
    /\ UNCHANGED <<ctx, sources, options, usage, hour, finderOpen, tasks, undoToasts>>

LowerDialogs(n, by) == IF n > by THEN n - by ELSE 0

ClosePalette ==
    /\ PaletteStep /\ palette
    /\ palette' = FALSE /\ dialogs' = LowerDialogs(dialogs, 1)
    /\ UNCHANGED <<ctx, sources, options, usage, hour, finderOpen, tasks, undoToasts>>

\* The one action that closes nothing itself is the theme's.
Closes(act) == IF act[1] = "theme" THEN 1 ELSE 2

Start(task) == tasks' = tasks \cup {[n |-> paletteSteps + 1, does |-> task]}

\* What the action changes at once.
Navigates(act) ==
    CASE act[1] = "go" -> GoTo(ctx, act[2], NoOne)
      [] act[1] = "rename" -> GoTo(ctx, "projects", NoOne)
      [] act[1] = "switch" -> Switched(ctx, act[2])
      [] act[1] = "last" -> IF ctx.previous = NoOne THEN ctx
                            ELSE [ctx EXCEPT !.project = ctx.previous,
                                             !.previous = ctx.project]
      [] act[1] = "archived" -> [ctx EXCEPT !.archived = ~@]
      [] act[1] = "open" -> GoTo(IF act[2].project \in ctx.projects
                                 THEN Switched(ctx, act[2].project) ELSE ctx,
                                 "document", act[2])
      [] OTHER -> ctx

\* handleSelect: the action, the usage, the close.
RunCommand(cmd) ==
    LET act == cmd.act
    IN  /\ PaletteStep /\ palette
        /\ InContext(Navigates(act))
        /\ RecordUsage(cmd.id)
        /\ palette' = FALSE
        /\ dialogs' = IF act[1] = "finder" THEN LowerDialogs(LowerDialogs(dialogs, 1) + 1, 1)
                      ELSE LowerDialogs(dialogs, Closes(act))
        /\ finderOpen' = (finderOpen \/ act[1] = "finder")
        /\ IF act[1] = "create" \/ (act[1] \in {"archive", "export"} /\ ctx.doc # NoOne)
           THEN Start(IF act[1] = "create" THEN act ELSE <<act[1], ctx.doc>>)
           ELSE UNCHANGED tasks
        /\ UNCHANGED <<hour, undoToasts>>

\* A created document is opened; an archived one leaves for the dashboard,
\* with an undo that restores and reopens it.
TaskDone(t) ==
    /\ tasks' = tasks \ {t}
    /\ CASE t.does[1] = "create" ->
                InContext(GoTo(ctx, "document", [path |-> t.n, project |-> t.does[3],
                                                 kind |-> t.does[2]]))
                /\ UNCHANGED undoToasts
         [] t.does[1] = "archive" ->
                InContext(GoTo(ctx, "dashboard", NoOne))
                /\ undoToasts' = undoToasts \cup {t.does[2]}
         [] t.does[1] = "restore" ->
                InContext(GoTo(ctx, "document", t.does[2])) /\ UNCHANGED undoToasts
         [] OTHER -> UNCHANGED <<ctx, sources, options, undoToasts>>
    /\ UNCHANGED <<usage, hour, palette, dialogs, finderOpen, paletteSteps>>

TaskFails(t) ==
    /\ tasks' = tasks \ {t}
    /\ UNCHANGED <<ctx, sources, options, usage, hour, palette, dialogs, finderOpen,
                   undoToasts, paletteSteps>>

UndoProjectArchive(d) ==
    /\ PaletteStep /\ d \in undoToasts
    /\ undoToasts' = undoToasts \ {d}
    /\ Start(<<"restore", d>>)
    /\ UNCHANGED <<ctx, sources, options, usage, hour, palette, dialogs, finderOpen>>

LeaveFinder ==
    /\ finderOpen /\ finderOpen' = FALSE /\ dialogs' = LowerDialogs(dialogs, 1)
    /\ UNCHANGED <<ctx, sources, options, usage, hour, palette, tasks, undoToasts,
                   paletteSteps>>

----------------------------------------------------------------------------
PaletteInit ==
    /\ ctx = [page |-> "dashboard", project |-> NoOne, previous |-> NoOne,
              projects |-> Range(PaletteProjects), doc |-> NoOne, archived |-> FALSE]
    /\ sources = [s \in Sources |-> CommandsOf(s, ctx)]
    /\ usage = <<>> /\ hour = 0
    /\ options = DocumentItems \o GetAllCommands(sources)
    /\ palette = FALSE /\ dialogs = 0 /\ finderOpen = FALSE
    /\ tasks = {} /\ undoToasts = {} /\ paletteSteps = 0

PaletteNext ==
    \/ \E p \in Range(PaletteProjects) : SwitchesProject(p)
    \/ \E page \in Pages : ShowsPage(page)
    \/ \E d \in Range(PaletteDocs) : OpenDocument(d)
    \/ \E ps \in SUBSET Range(PaletteProjects) : ProjectsLoaded(ps)
    \/ \E h \in {1, 24} : HoursPass(h)
    \/ OpenPalette \/ ClosePalette \/ LeaveFinder
    \/ \E i \in DOMAIN options : RunCommand(options[i])
    \/ \E t \in tasks : TaskDone(t) \/ TaskFails(t)
    \/ \E d \in undoToasts : UndoProjectArchive(d)

PaletteSpec == PaletteInit /\ [][PaletteNext]_paletteVars

----------------------------------------------------------------------------
(* The project commands act on the projects of the present context: the    *)
(* effect that registers them runs on every change, and the registry keeps *)
(* the old closures only when they are the same.  "Rename", "Export",      *)
(* "Switch to" never act on the project that was current before.           *)
ProjectCommandsCurrent ==
    LET now == ProjectCommands(ctx)
    IN  sources["projects"] = now /\ Range(now) \subseteq Range(options)

============================================================================
