---------------------------- MODULE MCServices ----------------------------
(***************************************************************************)
(* Around the documents: journal, capture, search, settings, sync.         *)
(* The parts meet in the backend, which each module models as far as its   *)
(* part sees it, and share no state here: a behaviour is one of one part,  *)
(* the others rest in an initial state, so that TLC explores the sum of    *)
(* the parts and not their product.                                        *)
(***************************************************************************)
EXTENDS Journal, QuickCapture, Search, SettingsForms, Preferences, SyncPanel, Guidance

VARIABLE part

Parts == {"journal", "capture", "search", "settings", "preferences", "sync",
          "guidance"}

Init ==
    /\ part \in Parts
    /\ JournalInit
    /\ CaptureInit /\ (part # "capture" => lastProject = "none")
    /\ SearchInit /\ (part # "search" => vault = {} /\ surface = "page")
    /\ SettingsInit /\ (part # "settings" => config = StoredConfig(1) /\ ~panel.gitInstalled
                                             /\ asked = {LoadCall(0, "window")})
    /\ PrefInit /\ (part # "preferences" => DOMAIN prefFile = {} /\ osTheme = Dark)
    /\ SyncInit /\ (part # "sync" => ~tree.repo)
    /\ GuideInit

noteVars == <<journalVars, captureVars, searchVars>>
configVars == <<settingsVars, prefVars, syncVars, guideVars>>

Next ==
    \/ /\ part = "journal" /\ JournalNext
       /\ UNCHANGED <<part, captureVars, searchVars, configVars>>
    \/ /\ part = "capture" /\ CaptureNext
       /\ UNCHANGED <<part, journalVars, searchVars, configVars>>
    \/ /\ part = "search" /\ SearchNext
       /\ UNCHANGED <<part, journalVars, captureVars, configVars>>
    \/ /\ part = "settings" /\ SettingsNext
       /\ UNCHANGED <<part, prefVars, syncVars, guideVars, noteVars>>
    \/ /\ part = "preferences" /\ PrefNext
       /\ UNCHANGED <<part, settingsVars, syncVars, guideVars, noteVars>>
    \/ /\ part = "sync" /\ SyncNext
       /\ UNCHANGED <<part, settingsVars, prefVars, guideVars, noteVars>>
    \/ /\ part = "guidance" /\ GuideNext
       /\ UNCHANGED <<part, settingsVars, prefVars, syncVars, noteVars>>

Spec == Init /\ [][Next]_<<part, noteVars, configVars>>

----------------------------------------------------------------------------
(* The instance.                                                           *)

MCProjectOrder == <<"p", "q">>

\* Two days of one project, across the end of a month, and another project.
MCJournalOrder == <<"a", "b", "c">>
MCJournalHome == [e \in {"a", "b", "c"} |->
                     [project |-> IF e = "c" THEN "q" ELSE "p",
                      date |-> IF e = "b" THEN 32 ELSE 31]]
MCMonthLengths == <<31, 28, 31>>

MCSectionQueries == {{}, {"editor", "sync"}}

Word(k, v) == [kind |-> k, value |-> v]
MCDocOrder == <<"d1", "d2", "n1">>
MCSearchDoc ==
    [d1 |-> [type |-> "document", project |-> "p", tags |-> {"t"}, words |-> {"a"}],
     d2 |-> [type |-> "document", project |-> "q", tags |-> {}, words |-> {"a", "b"}],
     n1 |-> [type |-> "note", project |-> "p", tags |-> {}, words |-> {"b"}]]
MCSearchQueries ==
    {<<>>, <<Word("word", "a")>>, <<Word("project", "p"), Word("exclude", "b")>>,
     <<Word("field", "b")>>, <<Word("phrase", "b"), Word("tag", "t")>>}
MCFilterTokens == {Word("project", "p"), Word("tag", "t")}
MCChipToken == Word("tag", "te")
MCPartOf == {<<Word("tag", "t"), Word("tag", "te")>>}

MCCaptureWords == {[is |-> "text", v |-> "x"], [is |-> "tag", v |-> "t"],
                   [is |-> "project", v |-> ""], [is |-> "project", v |-> "q"]}

=============================================================================
