--------------------------- MODULE SettingsForms ---------------------------
(***************************************************************************)
(* The settings page (frontend/src/settings): the forms over the backend's *)
(* configuration.  Each hook keeps its own copy of a group of fields, asks *)
(* the backend for it when the page mounts, and saves a change with one    *)
(* call; no two calls are ordered, the backend serves them in any order    *)
(* and the answers come back in any order.                                 *)
(*                                                                         *)
(*   config     the backend's configuration (memory), external             *)
(*   fields     what the page shows                                        *)
(*   asked      the calls in flight                                        *)
(*   disturbed  history: groups with a failed call or two calls at a time  *)
(*   panel      section, filter, dialogs and flags of the page             *)
(*   vaultCopies, listedCopies   backups on disk and in the list           *)
(* Field values are small numbers: 0 is off, empty or manual.              *)
(***************************************************************************)
EXTENDS Integers, Sequences

CONSTANTS
    Copies,             \* the backups that may be on disk
    SectionQueries,     \* filters, each the set of sections it matches
    TooltipHints,       \* the feature flag of the shortcut tooltips
    MaxSettingsSteps

VARIABLES config, fields, asked, disturbed, panel, vaultCopies, listedCopies,
          settingsSteps

settingsVars == <<config, fields, asked, disturbed, panel, vaultCopies,
                  listedCopies, settingsSteps>>

GroupFields ==
    [git        |-> {"enabled", "interval", "autoPush", "branch"},
     background |-> {"keep", "hidden"},
     window     |-> {"frameless"},
     hotkey     |-> {"hotkeyOn", "hotkey"},
     backup     |-> {"backupOn", "maxBackups"},
     sidebar    |-> {"sidebar"},
     footer     |-> {"footer"},
     tooltips   |-> {"tooltips"},
     scale      |-> {"scale"},
     system     |-> {"platform", "logLevel"},
     mcp        |-> {"mcpOn", "mcpPort", "mcpToken"}]

Groups == DOMAIN GroupFields

Fields == UNION {GroupFields[g] : g \in Groups}

\* What the hooks show before their first answer.
Defaults ==
    [f \in Fields |->
        IF f \in {"interval", "autoPush", "hotkey", "footer", "tooltips",
                  "maxBackups", "scale"} THEN 1 ELSE 0]

\* Another configuration found on disk; platform 1 is Windows, 2 is Linux.
StoredConfig(platform) ==
    [f \in Fields |->
        CASE f = "platform" -> platform
          [] f \in {"sidebar", "interval", "hotkeyOn", "hotkey"} -> 0
          [] f \in {"keep", "hidden"} -> IF platform = 1 THEN 1 ELSE 0
          [] OTHER -> 1]

Only(f, S) == [x \in S |-> f[x]]

\* No field, one field with a value, and values put over others for the fields S.
NoFields == [x \in {} |-> 0]

Field(f, v) == [x \in {f} |-> v]

Over(new, old, S) == [x \in S |-> IF x \in DOMAIN new THEN new[x] ELSE old[x]]

\* sectionIds, without the plugins section.
Sections == <<"general", "appearance", "editor", "database", "shortcuts",
              "logging", "backup", "sync", "mcp", "about">>

\* The filter may hide the active section; only one section is rendered.
Visible == IF panel.query = {} THEN Sections
           ELSE SelectSeq(Sections, LAMBDA s : s \in panel.query)

ShownSection ==
    CASE Visible = <<>> -> "nothing"
      [] \E i \in DOMAIN Visible : Visible[i] = Sections[panel.section] ->
            Sections[panel.section]
      [] OTHER -> Visible[1]

In(section) == ShownSection = section

----------------------------------------------------------------------------
(* Calls. *)

Call(id, g, writes, shows, undo, fresh) ==
    [id |-> id, group |-> g, writes |-> writes, shows |-> shows,
     undo |-> undo, fresh |-> fresh, state |-> "sent"]

\* The hints and tooltips are shown when their setting cannot be read.
LoadCall(id, g) ==
    Call(id, g, NoFields, NoFields,
         IF g \in {"footer", "tooltips"} THEN Field(g, 1) ELSE NoFields, TRUE)

Pending(g) == {c \in asked : c.group = g}

Overlapping(cs) ==
    {g \in Groups : \E c, d \in cs : c # d /\ c.group = g /\ d.group = g}

BusyWith(g) == \E c \in Pending(g) : c.writes # NoFields

Known(g) == \A c \in Pending(g) : c.id # 0

SettingsStep == settingsSteps < MaxSettingsSteps /\ settingsSteps' = settingsSteps + 1

Ask(c) ==
    /\ asked' = asked \cup {c}
    /\ disturbed' = disturbed \cup Overlapping(asked')

\* A step of the page that asks the backend nothing.
PageOnly(new) ==
    /\ SettingsStep /\ panel' = new
    /\ UNCHANGED <<config, fields, asked, disturbed, vaultCopies, listedCopies>>

\* Save a group: the backend's fields, and what the form shows on success.
Save(g, writes, shows) ==
    /\ SettingsStep
    /\ Ask(Call(settingsSteps + 1, g, writes, shows, NoFields, FALSE))
    /\ UNCHANGED <<config, fields, panel, vaultCopies, listedCopies>>

\* Show a value at once and put `undo` back when the call fails.
SaveOptimistic(g, writes, undo) ==
    /\ SettingsStep
    /\ Ask(Call(settingsSteps + 1, g, writes, NoFields, undo, FALSE))
    /\ fields' = Over(writes, fields, Fields)
    /\ UNCHANGED <<config, panel, vaultCopies, listedCopies>>

\* The whole effect of a write: without the background, no hidden start.
Written(w) ==
    LET off == "keep" \in DOMAIN w /\ w["keep"] = 0
    IN  [f \in Fields |-> IF off /\ f = "hidden" THEN 0 ELSE Over(w, config, Fields)[f]]

Refused(w) ==
    \/ config["platform"] = 2 /\ DOMAIN w \cap {"keep", "hidden"} # {}
    \/ "hidden" \in DOMAIN w /\ w["hidden"] = 1 /\ config["keep"] = 0

Serve(c) ==
    /\ c.state = "sent" /\ ~Refused(c.writes)
    /\ config' = Written(c.writes)
    /\ asked' = (asked \ {c}) \cup
           {[c EXCEPT !.state = "done",
                      !.shows = IF c.fresh
                                THEN Only(config', GroupFields[c.group])
                                ELSE @]}
    /\ UNCHANGED <<fields, disturbed, panel, vaultCopies, listedCopies,
                   settingsSteps>>

\* A setter changes the configuration in memory before it saves the file, so
\* a call that fails may or may not have changed it.
Fail(c) ==
    /\ c.state = "sent"
    /\ \E kept \in {config} \cup
            (IF Refused(c.writes) THEN {} ELSE {Written(c.writes)}) :
          config' = kept
    /\ asked' = (asked \ {c}) \cup {[c EXCEPT !.state = "failed"]}
    /\ disturbed' = disturbed \cup {c.group}
    /\ UNCHANGED <<fields, panel, vaultCopies, listedCopies, settingsSteps>>

\* setSidebarVisible takes its own value back only while it is still shown.
Undone(c) ==
    IF c.group = "sidebar" /\ c.writes # NoFields /\ fields["sidebar"] # c.writes["sidebar"]
    THEN NoFields ELSE c.undo

\* What the hooks ask for once a call has ended.
FollowUp(c) ==
    CASE c.group = "mcp" /\ c.writes # NoFields /\ c.state = "failed" -> {"mcp"}
      [] c.group = "system" /\ c.writes # NoFields /\ c.state = "done" -> {"system"}
      [] OTHER -> {}

\* The answer; an answer of an abandoned page changes nothing that is shown.
Reply(c) ==
    /\ c.state # "sent"
    /\ fields' = Over(IF c.state = "done" THEN c.shows ELSE Undone(c), fields, Fields)
    /\ asked' = (asked \ {c}) \cup {LoadCall(c.id + 10, g) : g \in FollowUp(c)}
    /\ disturbed' = disturbed \cup Overlapping(asked')
    /\ panel' = [panel EXCEPT
           !.restart = @ \/ (c.state = "done" /\ c.writes # NoFields
                             /\ c.group \in {"window", "system"}),
           !.loadError = IF c.group = "git" /\ c.writes = NoFields
                         THEN c.state = "failed" ELSE @,
           !.hotkeyError = IF c.group = "hotkey" /\ c.writes # NoFields
                           THEN c.state = "failed" ELSE @]
    /\ UNCHANGED <<config, vaultCopies, listedCopies, settingsSteps>>

----------------------------------------------------------------------------
(* Git synchronisation. *)

\* The toggle needs git, everything else the toggle.
GitControls == In("sync") /\ fields["enabled"] = 1

GitConfig(changes) == Over(changes, fields, GroupFields["git"])

\* Enabling also picks an interval and turns pushing on.
GitToggled(on) ==
    [enabled  |-> on,
     interval |-> IF on = 1 /\ fields["interval"] = 0 THEN 1
                  ELSE fields["interval"],
     autoPush |-> IF on = 1 THEN 1 ELSE fields["autoPush"]]

HandleGitSyncToggle ==
    LET new == GitToggled(1 - fields["enabled"])
    IN  In("sync") /\ panel.gitInstalled /\ Save("git", GitConfig(new), new)

HandleCommitIntervalChange(n) ==
    GitControls /\ Save("git", GitConfig(Field("interval", n)), Field("interval", n))

HandleAutoPushToggle ==
    LET new == Field("autoPush", 1 - fields["autoPush"])
    IN  GitControls /\ panel.gitInstalled /\ Save("git", GitConfig(new), new)

HandleBranchChange(b) ==
    GitControls /\ Save("git", GitConfig(Field("branch", b)), Field("branch", b))

\* loadSettings returns at once while a load is under way.
RetryLoadSettings ==
    /\ In("sync") /\ panel.loadError /\ \A c \in Pending("git") : c.writes # NoFields
    /\ SettingsStep
    /\ Ask(LoadCall(settingsSteps + 1, "git"))
    /\ panel' = [panel EXCEPT !.loadError = FALSE]
    /\ UNCHANGED <<config, fields, vaultCopies, listedCopies>>

----------------------------------------------------------------------------
(* General, appearance, shortcuts. *)

\* An unknown platform is taken for Windows.
LooksWindows == fields["platform"] # 2

BackgroundControls == In("general") /\ LooksWindows

WindowControls == In("general") /\ ~LooksWindows

AppearanceControls(g) == In("appearance") /\ Known(g)

HotkeyControls == In("shortcuts") /\ LooksWindows

\* Mutant: the form forgets that the hidden start is off as well.
KeepToggleAlone ==
    LET new == Field("keep", 1 - fields["keep"])
    IN  BackgroundControls /\ Save("background", new, new)

HandleKeepInBackgroundToggle ==
    LET on == 1 - fields["keep"]
    IN  /\ BackgroundControls
        /\ Save("background", Field("keep", on),
                IF on = 0 THEN [keep |-> 0, hidden |-> 0] ELSE Field("keep", on))

HandleStartHiddenToggle ==
    LET on == 1 - fields["hidden"]
    IN  /\ BackgroundControls /\ fields["keep"] = 1
        /\ Save("background", Field("hidden", on), Field("hidden", on))

HandleLinuxWindowModeToggle ==
    LET new == Field("frameless", 1 - fields["frameless"])
    IN  WindowControls /\ Save("window", new, new)

HandleAppScaleChange(n) ==
    In("appearance") /\ Save("scale", Field("scale", n), Field("scale", n))

HandleLogLevelChange(n) ==
    In("logging") /\ Save("system", Field("logLevel", n), NoFields)

SetSidebarVisible ==
    /\ AppearanceControls("sidebar")
    /\ SaveOptimistic("sidebar", Field("sidebar", 1 - fields["sidebar"]),
                      Field("sidebar", fields["sidebar"]))

SetShowFooterHints ==
    /\ AppearanceControls("footer")
    /\ SaveOptimistic("footer", Field("footer", 1 - fields["footer"]),
                      Field("footer", fields["footer"]))

SetShowShortcutTooltips ==
    /\ TooltipHints /\ AppearanceControls("tooltips")
    /\ SaveOptimistic("tooltips", Field("tooltips", 1 - fields["tooltips"]),
                      Field("tooltips", fields["tooltips"]))

\* The hotkey is shown at once and kept when the system refuses it; enabling
\* it without a key is an error and asks nothing.
HandleHotkeyConfigChange(new) ==
    LET all == Over(new, fields, GroupFields["hotkey"])
    IN  /\ HotkeyControls
        /\ IF all["hotkeyOn"] = 1 /\ all["hotkey"] = 0
           THEN PageOnly([panel EXCEPT !.hotkeyError = TRUE])
           ELSE /\ SettingsStep
                /\ Ask(Call(settingsSteps + 1, "hotkey", all, NoFields, NoFields, FALSE))
                /\ fields' = Over(all, fields, Fields)
                /\ panel' = [panel EXCEPT !.hotkeyError = FALSE, !.capturing = FALSE]
                /\ UNCHANGED <<config, vaultCopies, listedCopies>>

\* HotkeyInput: focus captures, Escape, Enter and blur give up, and the first
\* key that is not a modifier is the new hotkey.
FocusHotkey ==
    /\ HotkeyControls /\ ~panel.capturing
    /\ PageOnly([panel EXCEPT !.capturing = TRUE])

LeaveHotkey == panel.capturing /\ PageOnly([panel EXCEPT !.capturing = FALSE])

PressHotkey == panel.capturing /\ HandleHotkeyConfigChange(Field("hotkey", 2))

----------------------------------------------------------------------------
(* The MCP server: its calls answer with the new status. *)

McpControls == In("mcp") /\ Known("mcp") /\ ~BusyWith("mcp")

McpCall(writes) ==
    /\ McpControls
    /\ SettingsStep
    /\ Ask(Call(settingsSteps + 1, "mcp", writes, NoFields, NoFields, TRUE))
    /\ UNCHANGED <<config, fields, panel, vaultCopies, listedCopies>>

SetEnabled == McpCall(Field("mcpOn", 1 - fields["mcpOn"]))

SetPort(n) == McpCall(Field("mcpPort", n))

\* The token is shown while the server runs.
RegenerateToken ==
    fields["mcpOn"] = 1 /\ McpCall(Field("mcpToken", fields["mcpToken"] + 1))

----------------------------------------------------------------------------
(* Backups: restoring and deleting are confirmed first.                    *)

BackupControls == In("backup") /\ fields["backupOn"] = 1

HandleBackupToggle ==
    LET all == [backupOn |-> 1 - fields["backupOn"], maxBackups |-> fields["maxBackups"]]
    IN  In("backup") /\ Save("backup", all, all)

HandleMaxBackupsChange(n) ==
    LET all == [backupOn |-> fields["backupOn"], maxBackups |-> n]
    IN  BackupControls /\ Save("backup", all, all)

NoDialogOpen == panel.dialog = "none"

AskBackup(what, c) ==
    /\ BackupControls /\ NoDialogOpen /\ c \in listedCopies
    /\ PageOnly([panel EXCEPT !.dialog = what, !.copy = c])

CancelSettingsDialog == ~NoDialogOpen /\ PageOnly([panel EXCEPT !.dialog = "none"])

\* onConfirm sends the call and closes the dialog; one job at a time here.
ConfirmBackup ==
    /\ panel.dialog \in {"restore", "delete"} /\ panel.job = "none"
    /\ PageOnly([panel EXCEPT !.dialog = "none", !.job = panel.dialog])

\* The backend deletes, then GetBackups lists what is left; an error of
\* either leaves the list as it is.
DeleteBackup ==
    /\ panel.job = "delete" /\ panel' = [panel EXCEPT !.job = "none"]
    /\ \E deleted, listed \in BOOLEAN :
          /\ vaultCopies' = IF deleted THEN vaultCopies \ {panel.copy} ELSE vaultCopies
          /\ listedCopies' = IF deleted /\ listed THEN vaultCopies' ELSE listedCopies
    /\ UNCHANGED <<config, fields, asked, disturbed, settingsSteps>>

RestoreBackup ==
    /\ panel.job = "restore"
    /\ \E done \in IF panel.copy \in vaultCopies THEN BOOLEAN ELSE {FALSE} :
          panel' = [panel EXCEPT !.job = "none", !.restart = @ \/ done]
    /\ UNCHANGED <<config, fields, asked, disturbed, vaultCopies,
                   listedCopies, settingsSteps>>

----------------------------------------------------------------------------
(* Rebuilding the index. *)

HandleRequestReindex ==
    /\ In("database") /\ NoDialogOpen /\ ~panel.reindexing
    /\ PageOnly([panel EXCEPT !.dialog = "reindex"])

HandleConfirmReindex ==
    /\ panel.dialog = "reindex"
    /\ PageOnly([panel EXCEPT !.dialog = "none", !.reindexing = TRUE,
                              !.progress = "starting"])

\* The event is handled whether or not the page started the reindexing.
ReindexProgress ==
    /\ panel.progress # "running"
    /\ PageOnly([panel EXCEPT !.progress = "running"])

ReindexEnds ==
    /\ panel.reindexing
    /\ panel' = [panel EXCEPT !.reindexing = FALSE, !.progress = "none"]
    /\ UNCHANGED <<config, fields, asked, disturbed, vaultCopies,
                   listedCopies, settingsSteps>>

----------------------------------------------------------------------------
(* Sections: one is active, the filter may hide it. *)

SelectSection(i) ==
    /\ i # panel.section /\ \E j \in DOMAIN Visible : Visible[j] = Sections[i]
    /\ PageOnly([panel EXCEPT !.section = i])

HandleNextSection ==
    PageOnly([panel EXCEPT
        !.section = IF @ = Len(Sections) THEN @ ELSE @ + 1])

HandlePreviousSection ==
    PageOnly([panel EXCEPT !.section = IF @ = 1 THEN @ ELSE @ - 1])

SetFilter(q) == q # panel.query /\ PageOnly([panel EXCEPT !.query = q])

----------------------------------------------------------------------------
NoPanel(section, installed) ==
    [section |-> section, query |-> {}, dialog |-> "none", copy |-> "none",
     job |-> "none", reindexing |-> FALSE, progress |-> "none",
     capturing |-> FALSE, restart |-> FALSE, loadError |-> FALSE,
     hotkeyError |-> FALSE, gitInstalled |-> installed]

\* The sections that show a group.
Homes(g) ==
    CASE g \in {"background", "window"} -> {"general"}
      [] g = "hotkey" -> {"shortcuts"}
      [] g = "git" -> {"sync"}
      [] g = "system" -> {"database", "logging"}
      [] g \in {"backup", "mcp"} -> {g}
      [] OTHER -> {"appearance"}

\* A section is open and every first load has answered but one of its own.
SettingsInit ==
    /\ config \in {StoredConfig(1), StoredConfig(2)}
    /\ \E g \in Groups :
          /\ asked = {LoadCall(0, g)}
          /\ fields = Over(Only(Defaults, GroupFields[g]), config, Fields)
          /\ \E i \in DOMAIN Sections, installed \in BOOLEAN :
                Sections[i] \in Homes(g) /\ panel = NoPanel(i, installed)
    /\ disturbed = {}
    /\ vaultCopies = Copies /\ listedCopies = Copies
    /\ settingsSteps = 0

SettingsNext ==
    \/ \E c \in asked : Serve(c) \/ Fail(c) \/ Reply(c)
    \/ HandleGitSyncToggle \/ HandleAutoPushToggle \/ RetryLoadSettings
    \/ \E n \in 0..2 : HandleCommitIntervalChange(n) \/ HandleBranchChange(n)
    \/ HandleKeepInBackgroundToggle \/ HandleStartHiddenToggle
    \/ HandleLinuxWindowModeToggle
    \/ HandleAppScaleChange(2) \/ HandleLogLevelChange(2)
    \/ SetSidebarVisible \/ SetShowFooterHints \/ SetShowShortcutTooltips
    \/ HandleHotkeyConfigChange(Field("hotkeyOn", 1 - fields["hotkeyOn"]))
    \/ FocusHotkey \/ LeaveHotkey \/ PressHotkey
    \/ SetEnabled \/ SetPort(2) \/ RegenerateToken
    \/ HandleBackupToggle \/ HandleMaxBackupsChange(2)
    \/ \E what \in {"restore", "delete"}, c \in Copies : AskBackup(what, c)
    \/ CancelSettingsDialog \/ ConfirmBackup \/ DeleteBackup \/ RestoreBackup
    \/ HandleRequestReindex \/ HandleConfirmReindex \/ ReindexProgress
    \/ ReindexEnds
    \/ \E i \in DOMAIN Sections : SelectSection(i)
    \/ HandleNextSection \/ HandlePreviousSection
    \/ \E q \in SectionQueries : SetFilter(q)

SettingsSpec == SettingsInit /\ [][SettingsNext]_settingsVars

----------------------------------------------------------------------------
(* A group of settings of which no call failed and no two calls were under *)
(* way at a time shows the backend's values once its calls have answered:  *)
(* the hooks copy every field a setter changes, startHidden of a           *)
(* handleKeepInBackgroundToggle and the interval of a handleGitSyncToggle  *)
(* included.                                                               *)
FormsAgree ==
    \A g \in Groups \ disturbed :
        Pending(g) = {} => Only(fields, GroupFields[g]) = Only(config, GroupFields[g])

============================================================================
