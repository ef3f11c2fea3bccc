---------------------------- MODULE Preferences ----------------------------
(***************************************************************************)
(* User preferences: the store (shared/stores/preferences.store.ts), its   *)
(* conversion to and from the backend's model (config/preferences.ts and   *)
(* shared/services/ConfigService.ts), the configuration file and the theme *)
(* (shared/stores/theme.store.ts).                                         *)
(*                                                                         *)
(* A set of overrides is a function from some of Keys to values; sections, *)
(* shortcut groups and plugin configurations are merged key by key, so a   *)
(* key stands for one of their entries ("save" and "find" are shortcuts of *)
(* one group).  0 is the zero value: 0, false or the empty string.         *)
(*                                                                         *)
(*   prefFile, prefMemory   config.toml and the backend's copy             *)
(*   overrides              the store's; null, before the first answer, is *)
(*                          read as no override everywhere               *)
(*   prefCalls              calls in flight                                *)
(*   raced                  history: a call failed or overlapped another   *)
(*   osTheme, themeEvents, themeShown                                      *)
(***************************************************************************)
EXTENDS Integers, Sequences

CONSTANTS MaxPrefSteps

VARIABLES prefFile, prefMemory, overrides, prefCalls, raced, osTheme,
          themeEvents, themeShown, prefSteps

prefVars == <<prefFile, prefMemory, overrides, prefCalls, raced, osTheme,
              themeEvents, themeShown, prefSteps>>

PreferenceKeys == {"timeout", "maxPanes", "graphics", "theme", "editor", "launch",
         "save", "find", "plugin"}

Dark == 1
Light == 2
System == 3

NoOverrides == [k \in {} |-> 0]

Setting(k, v) == [x \in {k} |-> v]

Kept(f, S) == [k \in DOMAIN f \cap S |-> f[k]]

\* Keys the conversions test for truth: their zero means "not set".
ZeroUnset == {"timeout", "maxPanes", "graphics", "theme"}

PreferencesToModel(o) == Kept(o, {k \in DOMAIN o : k \in ZeroUnset => o[k] # 0})

\* Mutant: the plugins section is left out as well.
SentWithoutPlugins(o) ==
    Kept(PreferencesToModel(o), PreferenceKeys \ {"editor", "launch", "plugin"})

\* setPreferencesOverrides builds the model it sends from six of the eight
\* sections: editor and general are not among them.
Sent(o) == Kept(PreferencesToModel(o), PreferenceKeys \ {"editor", "launch"})

PreferencesFromModel(m) ==
    Kept(m, {k \in DOMAIN m : /\ k \in ZeroUnset => m[k] # 0
                              /\ k = "theme" => m[k] \in {Dark, Light, System}})

\* validatePreferencesOverrides resets what is out of range; 9 stands for it.
ValidatePreferencesOverrides(m) ==
    Kept(m, {k \in DOMAIN m : k \in ZeroUnset => m[k] # 9})

GetTheme(m) == IF "theme" \in DOMAIN m /\ m["theme"] # 9 THEN m["theme"] ELSE System

Default == 10

\* mergeTimeouts, mergeLayout, mergeGraphics, mergeShortcuts: the default
\* unless overridden, and an empty shortcut does not override.
Effective(o) ==
    [k \in PreferenceKeys |->
        IF k \in DOMAIN o /\ (k \in {"save", "find"} => o[k] # 0)
        THEN o[k] ELSE Default]

UseTheme(o) == IF "theme" \in DOMAIN o THEN o["theme"] ELSE Dark

ResolveTheme(mode, os) == IF mode = System THEN os ELSE mode

----------------------------------------------------------------------------
PrefStep == prefSteps < MaxPrefSteps /\ prefSteps' = prefSteps + 1

BackendSame == UNCHANGED <<prefFile, prefMemory, osTheme, themeEvents>>

Issue(kind, o) ==
    /\ prefCalls' = prefCalls \cup
           {[id |-> prefSteps + 1, kind |-> kind, prefs |-> o, state |-> "sent"]}
    /\ raced' = (raced \/ prefCalls # {})

\* Merge with existing: each key of a section, of a shortcut group and of a
\* plugin's configuration on its own.
Merged(existing, new) ==
    [k \in DOMAIN new \cup DOMAIN existing |->
        IF k \in DOMAIN new THEN new[k] ELSE existing[k]]

\* saveOverrides merges into the overrides the store has when it is called.
SaveOverrides(new) ==
    /\ PrefStep
    /\ Issue("save", Merged(overrides, new))
    /\ BackendSame /\ UNCHANGED <<overrides, themeShown>>

ChangeTheme(t) == SaveOverrides(Setting("theme", t))

\* The palette's command passes the whole store back with the next theme.
ToggleTheme ==
    LET t == UseTheme(overrides)
        next == IF t = Dark THEN Light ELSE IF t = Light THEN System ELSE Dark
    IN  SaveOverrides(Merged(overrides, Setting("theme", next)))

ChangeLinuxGraphicsMode == SaveOverrides(Setting("graphics", 2))

ChangeEditorPrefs(n) == SaveOverrides(Setting("editor", n))

ToggleLaunchAtStartup(b) == SaveOverrides(Setting("launch", b))

OverrideShortcut(k) == SaveOverrides(Setting(k, 2))

SetPluginConfig == SaveOverrides(Setting("plugin", 2))

\* Nothing is sent for a shortcut that is not overridden.
DeleteShortcutOverride(k) ==
    /\ k \in DOMAIN overrides
    /\ PrefStep
    /\ Issue("save", Kept(overrides, PreferenceKeys \ {k}))
    /\ BackendSame /\ UNCHANGED <<overrides, themeShown>>

----------------------------------------------------------------------------
(* The backend: a new theme is announced, and a file that cannot be        *)
(* written leaves the new preferences in memory.                           *)

SetPreferences(c) ==
    LET m == ValidatePreferencesOverrides(Sent(c.prefs))
    IN  /\ c.kind = "save" /\ c.state = "sent"
        /\ prefMemory' = m /\ prefFile' = m
        /\ prefCalls' = (prefCalls \ {c}) \cup {[c EXCEPT !.state = "done"]}
        /\ themeEvents' = IF GetTheme(m) = GetTheme(prefMemory) THEN themeEvents
                          ELSE Append(themeEvents, GetTheme(m))
        /\ UNCHANGED <<overrides, raced, osTheme, themeShown, prefSteps>>

GetPreferences(c) ==
    /\ c.kind = "load" /\ c.state = "sent"
    /\ prefCalls' = (prefCalls \ {c}) \cup
           {[c EXCEPT !.state = "done", !.prefs = PreferencesFromModel(prefMemory)]}
    /\ BackendSame
    /\ UNCHANGED <<overrides, raced, themeShown, prefSteps>>

PreferencesFail(c) ==
    /\ c.state = "sent"
    /\ prefCalls' = (prefCalls \ {c}) \cup {[c EXCEPT !.state = "failed"]}
    /\ \/ UNCHANGED prefMemory
       \/ /\ c.kind = "save"
          /\ prefMemory' = ValidatePreferencesOverrides(Sent(c.prefs))
    /\ raced' = TRUE
    /\ UNCHANGED <<prefFile, overrides, osTheme, themeEvents, themeShown, prefSteps>>

\* ThemeInit applies the theme again when the mode has changed.
Applied(new) ==
    themeShown' = IF UseTheme(new) = UseTheme(overrides) THEN themeShown
                  ELSE ResolveTheme(UseTheme(new), osTheme)

PreferencesAnswer(c) ==
    /\ c.state # "sent"
    /\ prefCalls' = prefCalls \ {c}
    /\ overrides' = IF c.state = "done" THEN c.prefs ELSE overrides
    /\ Applied(IF c.state = "done" THEN c.prefs ELSE overrides)
    /\ BackendSame /\ UNCHANGED <<raced, prefSteps>>

\* The announcement is applied whatever the store holds.
ThemeHeard ==
    /\ themeEvents # <<>>
    /\ themeEvents' = Tail(themeEvents)
    /\ themeShown' = ResolveTheme(Head(themeEvents), osTheme)
    /\ UNCHANGED <<prefFile, prefMemory, overrides, prefCalls, raced, osTheme, prefSteps>>

\* matchMedia is listened to only in the system mode.
SystemThemeChanges ==
    /\ PrefStep
    /\ osTheme' = Dark + Light - osTheme
    /\ themeShown' = IF UseTheme(overrides) = System THEN osTheme' ELSE themeShown
    /\ UNCHANGED <<prefFile, prefMemory, overrides, prefCalls, raced, themeEvents>>

RestartApp ==
    /\ PrefStep
    /\ prefMemory' = prefFile
    /\ overrides' = NoOverrides
    /\ prefCalls' = {[id |-> prefSteps + 1, kind |-> "load", prefs |-> NoOverrides,
                      state |-> "sent"]}
    /\ raced' = FALSE /\ themeEvents' = <<>> /\ themeShown' = Dark
    /\ UNCHANGED <<prefFile, osTheme>>

----------------------------------------------------------------------------
PrefFiles == {NoOverrides, Setting("theme", 9),
              [timeout |-> 1, maxPanes |-> 2, theme |-> Light, save |-> 1, plugin |-> 1]}

PrefInit ==
    /\ prefFile \in PrefFiles /\ prefMemory = prefFile
    /\ overrides = NoOverrides
    /\ prefCalls = {[id |-> 0, kind |-> "load", prefs |-> NoOverrides, state |-> "sent"]}
    /\ raced = FALSE
    /\ osTheme \in {Dark, Light} /\ themeEvents = <<>> /\ themeShown = Dark
    /\ prefSteps = 0

PrefNext ==
    \/ \E t \in {Dark, Light, System} : ChangeTheme(t)
    \/ ToggleTheme \/ ChangeLinuxGraphicsMode \/ SetPluginConfig
    \/ \E n \in {0, 1} : ChangeEditorPrefs(n) \/ ToggleLaunchAtStartup(n)
    \/ \E k \in {"save", "find"} : OverrideShortcut(k) \/ DeleteShortcutOverride(k)
    \/ \E c \in prefCalls : \/ SetPreferences(c) \/ GetPreferences(c)
                            \/ PreferencesFail(c) \/ PreferencesAnswer(c)
    \/ ThemeHeard \/ SystemThemeChanges \/ RestartApp

PrefSpec == PrefInit /\ [][PrefNext]_prefVars

----------------------------------------------------------------------------
(* What is in effect is what a restart will find: once every call has      *)
(* answered, and as long as none failed or overlapped another, each        *)
(* timeout, layout, graphics, theme, shortcut and plugin setting the store *)
(* makes effective is the one the file gives back through the conversions  *)
(* and the validation, and the theme shown is the store's.  The editor and *)
(* general sections are never sent, so this is not claimed of them.        *)
PreferencesAgree ==
    prefCalls = {} /\ themeEvents = <<>> /\ ~raced =>
        /\ \A k \in PreferenceKeys \ {"editor", "launch"} :
              Effective(overrides)[k] = Effective(PreferencesFromModel(prefFile))[k]
        /\ themeShown = ResolveTheme(UseTheme(overrides), osTheme)

============================================================================
