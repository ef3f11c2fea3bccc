---------------------------- MODULE CanvasScene ----------------------------
(***************************************************************************)
(* The canvas editor between Excalidraw and the document form              *)
(* (frontend/src/editor/CanvasEditor.tsx, canvasScene.ts): resolving the   *)
(* images of the stored scene, handing every change to the form, moving    *)
(* new images into the vault on the way, and pasting from the system       *)
(* clipboard.                                                              *)
(*                                                                         *)
(* A scene is its version and the images its elements show; an image is    *)
(* the id of a file.  Excalidraw, the vault and the clipboard reader are   *)
(* external.                                                               *)
(***************************************************************************)
EXTENDS Integers, FiniteSets

CONSTANTS
    Images,          \* file ids
    StoredImages,          \* images the stored scene shows, as vault references
    MaxSceneChanges  \* bound: changes made on the canvas in one behaviour

ASSUME SceneAssumption == StoredImages \subseteq Images /\ MaxSceneChanges \in Nat

VARIABLES
    canvas,       \* "loading", "ready" or "closed"
    resolving,    \* stored images whose ResolveDataURL is under way
    shown,        \* [version, images]: Excalidraw's scene
    fileMap,      \* Excalidraw's file map, which keeps deleted images
    assetsRef,    \* images known to be in the vault
    unresolved,   \* unresolvedRefsRef
    notified,     \* lastVersionRef is the version shown
    repainting,   \* programmaticRepaintRef
    generation,   \* flushGenerationRef
    flushes,      \* flushes waiting for the vault
    form,         \* what onChange handed to the form: [version, images, files]
    requested,    \* version of the last change not taken for a repaint
    pasting,      \* clipboard reads and decodings under way
    lastPaste,    \* a paste was taken less than 500 ms ago
    dropped       \* unresolved images a flushed scene no longer showed

sceneVars == <<canvas, resolving, shown, fileMap, assetsRef, unresolved, notified,
               repainting, generation, flushes, form, requested, pasting, lastPaste, dropped>>

MaxPastes == 1   \* bound: clipboard reads under way at once

SceneInit ==
    /\ canvas = "loading" /\ resolving = StoredImages
    /\ shown = [version |-> 0, images |-> StoredImages]
    /\ fileMap = {} /\ assetsRef = {} /\ unresolved = {}
    /\ notified = TRUE /\ repainting = FALSE
    /\ generation = 0 /\ flushes = {}
    /\ form = [version |-> 0, images |-> StoredImages, files |-> StoredImages]
    /\ requested = 0 /\ pasting = 0 /\ lastPaste = FALSE /\ dropped = {}

---------------------------------------------------------------------------
\* Hydration.

\* ResolveDataURL answers or fails for one image; both remember the reference.
ResolveAnswers(f, ok) ==
    /\ canvas = "loading" /\ f \in resolving
    /\ resolving' = resolving \ {f}
    /\ IF ok THEN fileMap' = fileMap \cup {f} /\ UNCHANGED unresolved
             ELSE unresolved' = unresolved \cup {f} /\ UNCHANGED fileMap
    /\ assetsRef' = assetsRef \cup {f}
    /\ UNCHANGED <<canvas, shown, notified, repainting, generation, flushes, form,
                   requested, pasting, lastPaste, dropped>>

\* All answered: the restored scene is mounted.
Hydrated ==
    /\ canvas = "loading" /\ resolving = {}
    /\ canvas' = "ready"
    /\ UNCHANGED <<resolving, shown, fileMap, assetsRef, unresolved, notified, repainting,
                   generation, flushes, form, requested, pasting, lastPaste, dropped>>

---------------------------------------------------------------------------
\* Changes in Excalidraw.  Its onChange comes with the commit that renders
\* them, so several may come in one call.

Change(images) ==
    /\ canvas = "ready"
    /\ shown.version < MaxSceneChanges
    /\ shown' = [version |-> shown.version + 1, images |-> images]
    /\ notified' = FALSE

\* A shape is drawn, an image is deleted, or a deletion is undone.
UserChanges(images) ==
    /\ Change(images)
    /\ images \subseteq fileMap \cup unresolved \cup dropped
    /\ UNCHANGED <<canvas, resolving, fileMap, assetsRef, unresolved, repainting,
                   generation, flushes, form, requested, pasting, lastPaste, dropped>>

\* repaintText after a font was loaded: every text is stamped anew.
RepaintText ==
    /\ ~repainting
    /\ Change(shown.images)
    /\ repainting' = TRUE
    /\ UNCHANGED <<canvas, resolving, fileMap, assetsRef, unresolved, generation, flushes,
                   form, requested, pasting, lastPaste, dropped>>

RepaintTimeout ==
    /\ repainting
    /\ repainting' = FALSE
    /\ UNCHANGED <<canvas, resolving, shown, fileMap, assetsRef, unresolved, notified,
                   generation, flushes, form, requested, pasting, lastPaste, dropped>>

---------------------------------------------------------------------------
\* flushSave.  A flush is [gen, version, images, assets, todo, files, new]: todo
\* are the new images still to be stored, files those that will be in the saved
\* scene, new those this flush stored.

RestoreNothing(fl) == fl.files

\* Unresolved references the scene still shows go back into it.
ReInjected(fl) == fl.files \cup (unresolved \cap fl.images)

EmitAlways(fl) == TRUE

\* A newer flush has started: this one's elements are stale.
IsCurrent(fl) == fl.gen = generation

\* The scene goes to the form; assets it no longer shows are forgotten.
Emit(fl) ==
    /\ assetsRef' = (fl.assets \cup fl.new \cup unresolved) \cap fl.images
    /\ unresolved' = unresolved \cap fl.images
    /\ dropped' = dropped \cup (unresolved \ fl.images)
    /\ form' = [version |-> fl.version, images |-> fl.images, files |-> ReInjected(fl)]

\* The end of a flush, at its last answer: what it stored is remembered even
\* when it is stale.
FinishFlush(fl, others) ==
    /\ flushes' = others
    /\ \/ IsCurrent(fl) /\ Emit(fl)
       \/ /\ ~IsCurrent(fl)
          /\ assetsRef' = assetsRef \cup fl.new
          /\ UNCHANGED <<unresolved, form, dropped>>

\* What a flush finds when it starts; without new images it ends at once.
FlushSave(gen) ==
    LET live == fileMap \cap shown.images
        fl == [gen |-> gen, version |-> shown.version, images |-> shown.images,
               assets |-> assetsRef, todo |-> live \ assetsRef,
               files |-> live, new |-> {}]
    IN  \/ fl.todo = {} /\ Emit(fl) /\ UNCHANGED flushes
        \/ /\ fl.todo # {}
           /\ flushes' = flushes \cup {fl}
           /\ UNCHANGED <<assetsRef, unresolved, dropped, form>>

\* handleChange: nothing new, a repaint of ours, or a change to hand on.
HandleChange ==
    /\ canvas = "ready" /\ ~notified
    /\ notified' = TRUE
    /\ IF repainting
       THEN /\ repainting' = FALSE
            /\ UNCHANGED <<generation, flushes, assetsRef, unresolved, dropped, form, requested>>
       ELSE /\ generation' = generation + 1
            /\ requested' = shown.version
            /\ FlushSave(generation + 1)
            /\ UNCHANGED repainting
    /\ UNCHANGED <<canvas, resolving, shown, fileMap, pasting, lastPaste>>

\* StoreDataURL answers; when it failed the image stays inline in the scene.
StoreAnswers(fl, f, ok) ==
    /\ fl \in flushes /\ f \in fl.todo
    /\ LET next == [fl EXCEPT !.todo = @ \ {f}, !.new = IF ok THEN @ \cup {f} ELSE @]
       IN  IF next.todo = {} THEN FinishFlush(next, flushes \ {fl})
           ELSE /\ flushes' = (flushes \ {fl}) \cup {next}
                /\ UNCHANGED <<assetsRef, unresolved, dropped, form>>
    /\ UNCHANGED <<canvas, resolving, shown, fileMap, notified, repainting, generation,
                   requested, pasting, lastPaste>>

---------------------------------------------------------------------------
\* Pasting an image: handlePasteIntent takes one of the events that a single
\* Ctrl+V may raise, and reads the clipboard.

PasteIntent ==
    /\ canvas = "ready" /\ ~lastPaste /\ pasting < MaxPastes
    /\ lastPaste' = TRUE /\ pasting' = pasting + 1
    /\ UNCHANGED <<canvas, resolving, shown, fileMap, assetsRef, unresolved, notified,
                   repainting, generation, flushes, form, requested, dropped>>

PasteGuardElapses ==
    /\ lastPaste
    /\ lastPaste' = FALSE
    /\ UNCHANGED <<canvas, resolving, shown, fileMap, assetsRef, unresolved, notified,
                   repainting, generation, flushes, form, requested, pasting, dropped>>

\* insertImage under a fresh id, if the canvas is still there.
InsertImage(f) ==
    /\ pasting > 0
    /\ pasting' = pasting - 1
    /\ f \notin fileMap \cup StoredImages
    /\ Change(shown.images \cup {f})
    /\ fileMap' = fileMap \cup {f}
    /\ UNCHANGED <<canvas, resolving, assetsRef, unresolved, repainting, generation,
                   flushes, form, requested, lastPaste, dropped>>

\* No image on the clipboard, or the read failed, or the canvas has gone.
PasteFails ==
    /\ pasting > 0
    /\ pasting' = pasting - 1
    /\ UNCHANGED <<canvas, resolving, shown, fileMap, assetsRef, unresolved, notified,
                   repainting, generation, flushes, form, requested, lastPaste, dropped>>

\* The component unmounts; flushes under way still answer.
CloseCanvas ==
    /\ canvas # "closed"
    /\ canvas' = "closed"
    /\ UNCHANGED <<resolving, shown, fileMap, assetsRef, unresolved, notified, repainting,
                   generation, flushes, form, requested, pasting, lastPaste, dropped>>

SceneNext ==
    \/ \E f \in Images, ok \in BOOLEAN : ResolveAnswers(f, ok)
    \/ Hydrated
    \/ \E images \in SUBSET Images : UserChanges(images)
    \/ RepaintText \/ RepaintTimeout
    \/ HandleChange
    \/ \E fl \in flushes, f \in Images, ok \in BOOLEAN : StoreAnswers(fl, f, ok)
    \/ PasteIntent \/ PasteGuardElapses
    \/ \E f \in Images : InsertImage(f)
    \/ PasteFails
    \/ CloseCanvas

SceneSpec == SceneInit /\ [][SceneNext]_sceneVars

---------------------------------------------------------------------------
\* Whichever order the vault answers in, when no flush is waiting for it the
\* form holds the last change that was handed over, and before that an older one
\* never replaces a newer (flushGenerationRef).
NewestSceneKept ==
    /\ flushes = {} => form.version = requested
    /\ \A fl \in flushes : IsCurrent(fl) => fl.version > form.version

\* Every image the form's scene shows is in its files, by reference or inline: a
\* vault that did not answer while loading or storing costs no image, unless an
\* image that never loaded was deleted and brought back (unresolvedRefsRef).
ImagesKept == form.images \ dropped \subseteq form.files
=============================================================================
