------------------------------ MODULE Plugins ------------------------------
(***************************************************************************)
(* Plugins in the window: the runtime (plugins/registry.ts,                *)
(* PluginBootstrap.tsx), what they contribute to the editor                *)
(* (editor/extensions/registry/editorExtensionRegistry.ts), the recovery   *)
(* from a crashed editor (DocumentEditorForm.tsx) and the settings that    *)
(* install, enable and remove them (settings/usePluginSettings.ts).        *)
(*                                                                         *)
(*   installed, pluginPrefs  the backend: plugin folders, and which are    *)
(*                           enabled ("unset", "on", "off") with the       *)
(*                           switch for community plugins                  *)
(*   pluginStore             the window's copy of pluginPrefs              *)
(*   boot                    the start-up: register, then load in order    *)
(*   setups                  set-up of a plugin under way                  *)
(*   activePlugins, cleanups runtime records and cleanup functions         *)
(*   contributed, snapshot   the registry; per kind, the cached answer     *)
(*                           ("stale" once the version has moved on)       *)
(*   recoveries              runs of the editor's recovery; off: those it  *)
(*                           turned off that were not switched since       *)
(*   pluginForm, formCalls   the settings section                          *)
(*   kept                    history: plugins a recovery that ran alone    *)
(*                           turned off, not turned on since               *)
(***************************************************************************)
EXTENDS Integers, Sequences, FiniteSets

CONSTANTS PluginOrder,     \* the plugins, in the order of their ids
          Kinds,           \* kinds of contributions
          Capabilities,    \* the kinds each manifest declares
          BadCleanup,      \* plugins whose cleanup function throws
          MaxPluginSteps

VARIABLES installed, pluginPrefs, pluginStore, boot, setups, activePlugins, cleanups,
          contributed, snapshot, recoveries, pluginForm, formCalls, kept, pluginSteps

registryVars == <<contributed, snapshot>>
runtimeVars == <<boot, setups, activePlugins, cleanups>>
backendVars == <<installed, pluginPrefs>>
formVars == <<pluginForm, formCalls>>
pluginVars == <<installed, pluginPrefs, pluginStore, boot, setups, activePlugins, cleanups,
                contributed, snapshot, recoveries, pluginForm, formCalls, kept, pluginSteps>>

AllPlugins == {PluginOrder[i] : i \in DOMAIN PluginOrder}

\* "none" stands for no plugin in pluginForm.doomed and in a recovery.
ASSUME PluginAssumption == "none" \notin AllPlugins

PluginStep == pluginSteps < MaxPluginSteps /\ pluginSteps' = pluginSteps + 1

----------------------------------------------------------------------------
(* The registry.  Any change outdates every cached answer; a reader gets   *)
(* the cached answer while it is current.                                  *)

EmitChange == snapshot' = [k \in Kinds |-> [snapshot[k] EXCEPT !.current = FALSE]]

SetContribution(p, k) ==
    /\ contributed' = [contributed EXCEPT ![p] = @ \cup {k}]
    /\ EmitChange

CleanupContributions(p) ==
    /\ contributed' = [contributed EXCEPT ![p] = {}]
    /\ IF contributed[p] = {} THEN UNCHANGED snapshot ELSE EmitChange

RegisteredPlugins(k) == {p \in AllPlugins : k \in contributed[p]}

GetAll(k) == IF snapshot[k].current THEN snapshot[k].from ELSE RegisteredPlugins(k)

\* An editor asks for a kind of contribution.
ReadSnapshot(k) ==
    /\ ~snapshot[k].current
    /\ snapshot' = [snapshot EXCEPT ![k] = [current |-> TRUE, from |-> GetAll(k)]]
    /\ UNCHANGED <<backendVars, pluginStore, runtimeVars, contributed, recoveries,
                   formVars, kept, pluginSteps>>

----------------------------------------------------------------------------
(* Start-up: the installed plugins are registered, the enabled ones loaded *)
(* one after the other.                                                    *)

OutsidePlugins == UNCHANGED <<backendVars, pluginStore, recoveries, formVars, kept, pluginSteps>>

Booted == [at |-> "done", queue |-> {}, broken |-> {},
           enabled |-> [p \in AllPlugins |-> "unset"]]

\* The plugins of a set are gone through in the order of their ids.
IsFirst(p, S) ==
    \E i \in DOMAIN PluginOrder :
        /\ p = PluginOrder[i] /\ p \in S
        /\ \A j \in DOMAIN PluginOrder : PluginOrder[j] \in S => i <= j

\* A plugin that cannot be read or parsed is registered with a set-up that
\* throws.  Listing that fails ends the start-up.
RegisterInstalledPlugins ==
    /\ boot.at = "register"
    /\ \/ \E broken \in SUBSET installed :
             boot' = [boot EXCEPT !.at = "mode", !.queue = installed,
                                  !.broken = broken, !.enabled = pluginStore.enabled]
       \/ boot' = Booted
    /\ UNCHANGED <<setups, activePlugins, cleanups, registryVars>> /\ OutsidePlugins

\* Which plugins are enabled was read before this call.  A failure counts
\* as restricted; in restricted mode every plugin is unloaded.
GetCommunityPluginsEnabled ==
    /\ boot.at = "mode"
    /\ \E mode \in {pluginPrefs.community, FALSE} :
          boot' = IF mode THEN [boot EXCEPT !.at = "load"] ELSE Booted
    /\ UNCHANGED <<setups, activePlugins, cleanups, registryVars>> /\ OutsidePlugins

\* One that was never switched counts as enabled.  A running one is left alone.
LoadNext ==
    /\ boot.at = "load" /\ setups = {}
    /\ IF boot.queue = {}
       THEN boot' = Booted /\ UNCHANGED setups
       ELSE \E p \in AllPlugins :
                /\ IsFirst(p, boot.queue)
                /\ boot' = [boot EXCEPT !.queue = @ \ {p}]
                /\ setups' = IF boot.enabled[p] # "off" /\ p \notin cleanups
                             THEN {[id |-> p, at |-> "api"]} ELSE {}
    /\ UNCHANGED <<activePlugins, cleanups, registryVars>> /\ OutsidePlugins

\* loadPlugin: an API version that is unknown or not supported stops it.
CheckApiVersion(s) ==
    /\ s.at = "api"
    /\ \/ setups' = {[s EXCEPT !.at = "setup"]} \/ setups' = {}
    /\ UNCHANGED <<boot, activePlugins, cleanups, registryVars>> /\ OutsidePlugins

\* Mutant: what a set-up registered before it threw stays.
FailureKeeps(s) ==
    /\ setups' = {} /\ activePlugins' = activePlugins \ {s.id}
    /\ UNCHANGED <<boot, cleanups, registryVars>> /\ OutsidePlugins

SetupThrows(s) ==
    /\ setups' = {} /\ activePlugins' = activePlugins \ {s.id}
    /\ CleanupContributions(s.id)
    /\ UNCHANGED <<boot, cleanups>> /\ OutsidePlugins

SetupRegisters(s, k) ==
    /\ s.at = "setup" /\ s.id \notin boot.broken
    /\ IF k \notin Capabilities[s.id] THEN SetupThrows(s)
       ELSE /\ k \notin contributed[s.id]
            /\ SetContribution(s.id, k)
            /\ UNCHANGED runtimeVars /\ OutsidePlugins

SetupEnds(s) ==
    /\ s.at = "setup"
    /\ \/ SetupThrows(s)
       \/ /\ s.id \notin boot.broken
          /\ setups' = {} /\ activePlugins' = activePlugins \cup {s.id}
          /\ cleanups' = cleanups \cup {s.id}
          /\ UNCHANGED <<boot, registryVars>> /\ OutsidePlugins

----------------------------------------------------------------------------
(* The window's copy of the preferences is written back whole by every     *)
(* save.  Saves of other preferences that overlap one of these are the     *)
(* subject of Preferences.                                                 *)

SavePluginState(store) == pluginPrefs' = store /\ pluginStore' = store

OtherPreferenceSaved ==
    /\ PluginStep
    /\ SavePluginState(pluginStore)
    /\ UNCHANGED <<installed, runtimeVars, registryVars, recoveries, formVars, kept>>

----------------------------------------------------------------------------
(* Recovery: each plugin that was active is turned off, saved as such and  *)
(* unloaded.  It is forked for the editor that crashed, so two can run.    *)

EditorCrashes ==
    /\ PluginStep
    /\ activePlugins # {} /\ Cardinality(recoveries) < 2
    /\ recoveries' = recoveries \cup
           {[run |-> pluginSteps + 1, ids |-> activePlugins, saving |-> "none",
             write |-> pluginStore, alone |-> recoveries = {}, off |-> {}]}
    /\ UNCHANGED <<backendVars, pluginStore, runtimeVars, registryVars, formVars, kept>>

Others(r) == {[o EXCEPT !.alone = FALSE] : o \in recoveries \ {r}}

\* Mutant: the new state holds the plugin being disabled only.
DisabledOnly(p) ==
    [pluginStore EXCEPT !.enabled = [[q \in AllPlugins |-> "unset"] EXCEPT ![p] = "off"]]

DisabledState(p) == [pluginStore EXCEPT !.enabled[p] = "off"]

\* The record is inactive before the save is awaited.
DisablePlugin(r) ==
    \E p \in AllPlugins :
        /\ IsFirst(p, r.ids) /\ r.saving = "none"
        /\ activePlugins' = activePlugins \ {p}
        /\ recoveries' = Others(r) \cup
               {[r EXCEPT !.saving = p, !.write = DisabledState(p),
                          !.alone = @ /\ recoveries = {r}]}
        /\ UNCHANGED <<backendVars, pluginStore, boot, setups, cleanups, registryVars,
                       formVars, kept, pluginSteps>>

\* unloadPlugin: a cleanup function that throws is kept, though what the
\* plugin contributed is removed, and ends the recovery.
DisableEnds(r, saved) ==
    LET p == r.saving
        throws == p \in BadCleanup /\ p \in cleanups
        next == [r EXCEPT !.saving = "none", !.ids = @ \ {p},
                          !.off = IF saved THEN @ \cup {p} ELSE @]
        over == throws \/ next.ids = {}
    IN  /\ p # "none"
        /\ CleanupContributions(p)
        /\ cleanups' = IF throws THEN cleanups ELSE cleanups \ {p}
        /\ activePlugins' = activePlugins \ {p}
        /\ recoveries' = (recoveries \ {r}) \cup (IF over THEN {} ELSE {next})
        /\ kept' = IF over /\ r.alone THEN kept \cup next.off ELSE kept \ {p}
        /\ UNCHANGED <<installed, boot, setups, formVars, pluginSteps>>

DisableSaved(r) == DisableEnds(r, TRUE) /\ SavePluginState(r.write)

DisableFails(r) == DisableEnds(r, FALSE) /\ UNCHANGED <<pluginPrefs, pluginStore>>

----------------------------------------------------------------------------
(* The settings section: calls to the backend, which writes its            *)
(* preferences without the window's copy.  Bound: it is used once the      *)
(* start-up is over.                                                       *)

InSettings == PluginStep /\ boot = Booted
              /\ UNCHANGED <<backendVars, pluginStore, runtimeVars, registryVars, recoveries,
                             kept>>

FormCall(kind, id, on) ==
    formCalls' = formCalls \cup {[n |-> pluginSteps + 1, kind |-> kind, id |-> id, on |-> on,
                                  state |-> "sent", list |-> <<{}, {}>>]}

RefreshPlugins ==
    /\ InSettings /\ ~pluginForm.loading
    /\ pluginForm' = [pluginForm EXCEPT !.loading = TRUE]
    /\ FormCall("list", "none", FALSE)

InstallPlugin(p) == InSettings /\ FormCall("install", p, FALSE) /\ UNCHANGED pluginForm

\* The toggle works for a listed plugin in community mode.
TogglePlugin(p) ==
    /\ InSettings /\ p \in pluginForm.listed /\ pluginForm.community
    /\ FormCall("enable", p, p \notin pluginForm.on)
    /\ UNCHANGED pluginForm

AskUninstall(p) ==
    /\ InSettings /\ p \in pluginForm.listed /\ pluginForm.doomed = "none"
    /\ pluginForm' = [pluginForm EXCEPT !.doomed = p]
    /\ UNCHANGED formCalls

ConfirmUninstall ==
    /\ InSettings /\ pluginForm.doomed # "none"
    /\ pluginForm' = [pluginForm EXCEPT !.doomed = "none"]
    /\ FormCall("uninstall", pluginForm.doomed, FALSE)

CancelUninstall ==
    /\ InSettings /\ pluginForm.doomed # "none"
    /\ pluginForm' = [pluginForm EXCEPT !.doomed = "none"]
    /\ UNCHANGED formCalls

ToggleCommunity ==
    /\ InSettings /\ FormCall("mode", "none", ~pluginForm.community) /\ UNCHANGED pluginForm

Refuses(c) == \/ c.kind \in {"enable", "uninstall"} /\ c.id \notin installed
              \/ c.kind = "install" /\ c.id \in installed

EnabledNow == {p \in installed : pluginPrefs.enabled[p] = "on"}

PluginServiceServes(c) ==
    /\ c.state = "sent" /\ ~Refuses(c)
    /\ installed' = IF c.kind = "install" THEN installed \cup {c.id}
                    ELSE IF c.kind = "uninstall" THEN installed \ {c.id} ELSE installed
    /\ pluginPrefs' =
           CASE c.kind = "enable" ->
                    [pluginPrefs EXCEPT !.enabled[c.id] = IF c.on THEN "on" ELSE "off"]
             [] c.kind = "install" -> [pluginPrefs EXCEPT !.enabled[c.id] = "off"]
             [] c.kind = "uninstall" -> [pluginPrefs EXCEPT !.enabled[c.id] = "unset"]
             [] c.kind = "mode" -> [pluginPrefs EXCEPT !.community = c.on]
             [] OTHER -> pluginPrefs
    /\ IF c.kind \in {"enable", "install", "uninstall"}
       THEN /\ kept' = kept \ {c.id}
            /\ recoveries' = {[r EXCEPT !.off = @ \ {c.id}] : r \in recoveries}
       ELSE UNCHANGED <<kept, recoveries>>
    /\ formCalls' = (formCalls \ {c}) \cup
           {[c EXCEPT !.state = "done", !.list = <<installed, EnabledNow>>]}
    /\ UNCHANGED <<pluginStore, runtimeVars, registryVars, pluginForm, pluginSteps>>

PluginServiceFails(c) ==
    /\ c.state = "sent"
    /\ formCalls' = (formCalls \ {c}) \cup {[c EXCEPT !.state = "failed"]}
    /\ UNCHANGED <<backendVars, pluginStore, runtimeVars, registryVars, recoveries, pluginForm,
                   kept, pluginSteps>>

\* All but the toggle of one plugin list the plugins again.
PluginServiceAnswers(c) ==
    LET again == c.state = "done" /\ c.kind \in {"install", "uninstall", "mode"}
        shown == CASE c.state = "failed" -> pluginForm
                   [] c.kind = "list" -> [pluginForm EXCEPT !.listed = c.list[1], !.on = c.list[2]]
                   [] c.kind = "enable" ->
                          [pluginForm EXCEPT !.on = IF c.on THEN @ \cup ({c.id} \cap pluginForm.listed)
                                              ELSE @ \ {c.id}]
                   [] c.kind = "mode" -> [pluginForm EXCEPT !.community = c.on]
                   [] OTHER -> pluginForm
    IN  /\ c.state # "sent"
        /\ pluginForm' = [shown EXCEPT !.loading = IF c.kind = "list" THEN FALSE ELSE again \/ @]
        /\ formCalls' = (formCalls \ {c}) \cup
               (IF again THEN {[c EXCEPT !.kind = "list", !.state = "sent"]} ELSE {})
        /\ UNCHANGED <<backendVars, pluginStore, runtimeVars, registryVars, recoveries, kept,
                       pluginSteps>>

----------------------------------------------------------------------------
\* Everything of the window is gone; its copy is what the file holds.
RestartWindow ==
    /\ PluginStep
    /\ pluginStore' = pluginPrefs
    /\ boot' = [at |-> "register", queue |-> {}, broken |-> {},
              enabled |-> pluginPrefs.enabled]
    /\ setups' = {} /\ activePlugins' = {} /\ cleanups' = {}
    /\ contributed' = [p \in AllPlugins |-> {}]
    /\ snapshot' = [k \in Kinds |-> [current |-> FALSE, from |-> {}]]
    /\ recoveries' = {} /\ formCalls' = {}
    /\ pluginForm' = [listed |-> installed, on |-> EnabledNow,
                community |-> pluginPrefs.community, loading |-> FALSE, doomed |-> "none"]
    /\ UNCHANGED <<backendVars, kept>>

PluginInit ==
    /\ installed = AllPlugins
    /\ pluginPrefs = [enabled |-> [p \in AllPlugins |-> "unset"], community |-> TRUE]
    /\ pluginStore = pluginPrefs
    /\ boot = [at |-> "register", queue |-> {}, broken |-> {},
               enabled |-> pluginPrefs.enabled]
    /\ setups = {} /\ activePlugins = {} /\ cleanups = {}
    /\ contributed = [p \in AllPlugins |-> {}]
    /\ snapshot = [k \in Kinds |-> [current |-> FALSE, from |-> {}]]
    /\ recoveries = {} /\ formCalls = {} /\ kept = {}
    /\ pluginForm = [listed |-> AllPlugins, on |-> {}, community |-> TRUE, loading |-> FALSE,
               doomed |-> "none"]
    /\ pluginSteps = 0

PluginNext ==
    \/ RegisterInstalledPlugins \/ GetCommunityPluginsEnabled \/ LoadNext
    \/ \E s \in setups : \/ CheckApiVersion(s) \/ SetupEnds(s)
                         \/ \E k \in Kinds : SetupRegisters(s, k)
    \/ \E k \in Kinds : ReadSnapshot(k)
    \/ EditorCrashes \/ OtherPreferenceSaved \/ RestartWindow
    \/ \E r \in recoveries : DisablePlugin(r) \/ DisableSaved(r) \/ DisableFails(r)
    \/ RefreshPlugins \/ ConfirmUninstall \/ CancelUninstall \/ ToggleCommunity
    \/ \E p \in AllPlugins : InstallPlugin(p) \/ TogglePlugin(p) \/ AskUninstall(p)
    \/ \E c \in formCalls : \/ PluginServiceServes(c) \/ PluginServiceFails(c)
                            \/ PluginServiceAnswers(c)

PluginSpec == PluginInit /\ [][PluginNext]_pluginVars

----------------------------------------------------------------------------
(* An editor is given the contributions of running plugins only: whatever  *)
(* it is answered, from the cache or not, comes from a plugin that is      *)
(* active, being set up or being disabled.  A set-up that throws half way, *)
(* a plugin unloaded by the recovery and one whose cleanup throws leave    *)
(* nothing behind.                                                         *)
OnlyRunningContribute ==
    \A k \in Kinds : GetAll(k) \subseteq
        activePlugins \cup {s.id : s \in setups} \cup {r.saving : r \in recoveries}

(* A plugin the recovery turned off stays off: once a recovery that ran    *)
(* alone has saved it, the preferences the next start reads say so, until  *)
(* the user switches, reinstalls or removes the plugin, whatever else is   *)
(* saved or recovered in the meantime.                                     *)
RecoveredStayOff == \A p \in kept : pluginPrefs.enabled[p] = "off"

============================================================================
