---------------------------- MODULE MCWorkspace ----------------------------
(***************************************************************************)
(* Working on documents: panes, keys, editors with their plugins, lists    *)
(* and the palette.                                                        *)
(* The parts meet in the backend, which each module models as far as its   *)
(* part sees it, and share no state here: a behaviour is one of one part,  *)
(* the others rest in an initial state, so that TLC explores the sum of    *)
(* the parts and not their product.                                        *)
(***************************************************************************)
EXTENDS PaneLayout, Keyboard, CanvasScene, RichText, Plugins, DocumentList, ProjectsPage,
        Recents, Palette

VARIABLE part

Parts == {"panes", "keyboard", "canvas", "text", "plugins", "documents",
          "projects", "recents", "palette"}

Init ==
    /\ part \in Parts
    /\ PaneInit /\ (part # "panes" => paneEdits = 2)
    /\ KeyInit /\ SceneInit
    /\ RichInit /\ (part # "text" => formBlocks = <<>> /\ ~editable)
    /\ PluginInit
    \* the other project is one SwitchProject or one move away
    /\ DashInit /\ (\A d \in AllDocs : library[d].project = "p")
                /\ current \in {"p", NoProject} /\ (part # "documents" => current = NoProject)
    /\ ProjInit /\ (part # "projects" => store.last = Nobody
                                         /\ \A p \in AllProjects : projServer[p] = "unborn")
    /\ RecentInit /\ PaletteInit

editVars == <<paneVars, keyVars, sceneVars, richVars, pluginVars>>
browseVars == <<dashVars, projVars, recentVars, paletteVars>>

Next ==
    \/ /\ part = "panes" /\ PaneNext
       /\ UNCHANGED <<part, keyVars, sceneVars, richVars, pluginVars, browseVars>>
    \/ /\ part = "keyboard" /\ KeyNext
       /\ UNCHANGED <<part, paneVars, sceneVars, richVars, pluginVars, browseVars>>
    \/ /\ part = "canvas" /\ SceneNext
       /\ UNCHANGED <<part, paneVars, keyVars, richVars, pluginVars, browseVars>>
    \/ /\ part = "text" /\ RichNext
       /\ UNCHANGED <<part, paneVars, keyVars, sceneVars, pluginVars, browseVars>>
    \/ /\ part = "plugins" /\ PluginNext
       /\ UNCHANGED <<part, paneVars, keyVars, sceneVars, richVars, browseVars>>
    \/ /\ part = "documents" /\ DashNext
       /\ UNCHANGED <<part, projVars, recentVars, paletteVars, editVars>>
    \/ /\ part = "projects" /\ ProjNext
       /\ UNCHANGED <<part, dashVars, recentVars, paletteVars, editVars>>
    \/ /\ part = "recents" /\ RecentNext
       /\ UNCHANGED <<part, dashVars, projVars, paletteVars, editVars>>
    \/ /\ part = "palette" /\ PaletteNext
       /\ UNCHANGED <<part, dashVars, projVars, recentVars, editVars>>

Spec == Init /\ [][Next]_<<part, editVars, browseVars>>

----------------------------------------------------------------------------
(* The instance.                                                           *)

MCPaneOrder == <<1, 2, 3>>
MCPaneBudgets == {<<3, 1>>, <<1, 3>>, <<2, 2>>}

\* A heading, a chart and a code fence; repeated letters in both cases.
MCDocuments ==
    {<<>>,
     <<Block("h1", <<"a">>), Block("chart", <<>>), Block("par", <<Fence>>)>>,
     <<Block("par", <<"a", "a", "A">>), Block("par", <<"a", "r">>)>>}
MCQueries == {<<"a">>, <<"a", "a">>}
MCReplacements == {<<>>, <<"a", "r", "a">>}

\* One plugin has a cleanup function that throws.
MCPluginOrder == <<"a", "b">>
MCCapabilities == [a |-> {"block", "tool"}, b |-> {"block"}]

\* Two documents, the newer first.
MCByUpdated == <<"d1", "d2">>

MCProjectOrder == <<"p", "q">>

\* A note in the first project and a canvas in the second.
MCPaletteDocs == <<[path |-> "d1", project |-> "p", kind |-> "text"],
                   [path |-> "d2", project |-> "q", kind |-> "canvas"]>>

=============================================================================
