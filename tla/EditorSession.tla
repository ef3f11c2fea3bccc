--------------------------- MODULE EditorSession ---------------------------
(***************************************************************************)
(* One editing session: a pane shows one document, from the moment the     *)
(* pane mounts until it is closed.  The module composes the hooks the pane *)
(* runs (useDocumentLoader, useDocumentInitialization, useDocumentForm,    *)
(* useDocumentPersistence, useAutoSave, useDocumentController) with the    *)
(* file and the document service's Save, which compares the hash the       *)
(* editor holds with the file's before it writes.                          *)
(*                                                                         *)
(* The content of a document is a pair of version numbers: b stands for    *)
(* the blocks, whose hash is computed one animation frame late, and t for  *)
(* everything the compare key reads directly (title, tags, scene, assets). *)
(* A content's hash is the content.                                        *)
(***************************************************************************)
EXTENDS Naturals

CONSTANTS MaxEdits,      \* contents created in a behaviour
          MaxExternal,   \* how many of them by another program
          MaxManual,     \* things the user does besides typing and closing
          MaxRetries,    \* timeouts.autoSaveMaxRetries
          LateProjects   \* may the session start before the projects load?

ASSUME EditorBounds ==
    /\ MaxEdits \in Nat /\ MaxExternal \in Nat /\ MaxManual \in Nat
    /\ MaxRetries \in Nat /\ LateProjects \in BOOLEAN

Blank   == [b |-> 0, t |-> 0]      \* DEFAULT_FORM_DATA
Stored  == [b |-> 1, t |-> 1]      \* what the file holds at first
None    == [b |-> 0, t |-> 1]      \* no hash known, no key taken
Content == [b : 0..(MaxEdits + 1), t : 0..(MaxEdits + 1)]
Idle    == [at |-> "idle", text |-> None, exp |-> None, key |-> None, n |-> 0]

VARIABLES
    disk,        \* the document's file
    made,        \* contents created so far
    outside,     \* contents other programs wrote
    manual,      \* what the user did besides typing and closing
    life,        \* "loading", "failed", "open", "closed", "exited"
    kind,        \* "document" (RichEditor) or "canvas" (CanvasEditor)
    project,     \* is currentProject loaded?
    archived,    \* isArchived
    form,        \* formData
    hash,        \* blocksHash: the blocks the compare key stands for
    view,        \* the blocks the mounted rich editor shows
    hasChanges,  \* useDocumentForm's flag
    ready,       \* isEditorReady
    docHash,     \* documentHash, None when unknown
    conflict,    \* hasConflict
    dirty,       \* hasUnsavedChanges
    savedKey,    \* lastSavedKeyRef
    firstKey,    \* initialKeyRef
    userMade,    \* hasUserMadeChangesRef
    timer,       \* is the debounce (or follow-up) timer armed?
    owned,       \* did the last value effect return a cleanup for it?
    retry,       \* attempt number of the armed retry timer, 0 if none
    run,         \* the save in flight (isSavingRef = run # Idle)
    saveState,   \* what the status line shows
    errEntry,    \* this editor's entry of the save error store
    asks,        \* hash and reload requests in flight
    event,       \* an external-change event on its way
    quit         \* flush-on-quit: "no", "flush", "acked"

file_vars == <<disk, made, outside>>
form_vars == <<form, hash, view, hasChanges>>
auto_vars == <<dirty, savedKey, firstKey, userMade, timer, owned>>
save_vars == <<retry, run, saveState, errEntry>>
ctrl_vars == <<kind, project, archived, ready, docHash, conflict>>
env_vars  == <<life, manual, asks, event, quit>>
vars == <<file_vars, form_vars, auto_vars, save_vars, ctrl_vars, env_vars>>

-----------------------------------------------------------------------------
(* What a render computes.                                                 *)

Key(f, h) == [b |-> h, t |-> f.t]
key       == Key(form, hash)
saving    == run # Idle
Enabled(hc, ar, cf) == hc /\ ~ar /\ ~cf
enabled   == Enabled(hasChanges, archived, conflict)
mounted   == life \in {"loading", "failed", "open"}

running   == life # "exited"
UserActs  == manual < MaxManual /\ manual' = manual + 1

\* setDirtyError keeps an existing entry's flag in step with the status.
ErrorFlag(entry, st, d) ==
    IF entry \in {"none", "dismissed"} THEN entry
    ELSE IF st = "error" /\ d THEN "dirty" ELSE "clean"

\* The value effect of useAutoSave after a render with key k: flag the form,
\* drop the timer the previous effect armed, arm a new one unless saving.
ValueEffect(k, sk, en, busy, tm) ==
    /\ dirty' = (k # sk)
    /\ userMade' = (userMade \/ k # firstKey)
    /\ LET arm == en /\ k # sk /\ userMade' /\ ~busy
       IN  timer' = (arm \/ (tm /\ ~owned)) /\ owned' = arm

\* initializeForm: the form becomes what was read, with nothing to save.
InitializeForm(c) == form' = c /\ hasChanges' = FALSE

\* isInitialized turns true: what the form holds counts as saved.
Baseline ==
    savedKey' = key /\ firstKey' = key /\ userMade' = FALSE /\ dirty' = FALSE

-----------------------------------------------------------------------------
Init ==
    /\ disk = Stored /\ made = 1 /\ outside = 0 /\ manual = 0
    /\ life = "loading" /\ kind \in {"document", "canvas"}
    /\ project \in {TRUE, ~LateProjects} /\ archived = FALSE
    /\ form = Blank /\ hash = 0 /\ view = 0
    /\ hasChanges = FALSE /\ ready = FALSE
    /\ docHash = None /\ conflict = FALSE
    /\ dirty = TRUE                \* the key of the blank form is not ""
    /\ savedKey = None /\ firstKey = None /\ userMade = TRUE
    /\ timer = FALSE /\ owned = FALSE /\ retry = 0
    /\ run = Idle /\ saveState = "idle" /\ errEntry = "none"
    /\ asks = {} /\ event = FALSE /\ quit = "no"

-----------------------------------------------------------------------------
(* Loading the document and mounting its editor.                           *)

LoadDone ==
    /\ life = "loading"
    /\ life' = "open" /\ archived' \in BOOLEAN
    /\ InitializeForm(disk) /\ hash' = disk.b /\ view' = disk.b
    /\ asks' = asks \union {"init"}
    /\ ValueEffect(Key(disk, disk.b), savedKey, FALSE, saving, timer)
    /\ UNCHANGED <<file_vars, save_vars, savedKey, firstKey,
                   kind, project, ready, docHash, conflict, manual, event, quit>>

LoadFails ==
    /\ life = "loading" /\ life' = "failed"
    /\ UNCHANGED <<file_vars, form_vars, auto_vars, save_vars, ctrl_vars,
                   manual, asks, event, quit>>

\* The rich editor reports ready, or the canvas publishes its handle.
EditorReady ==
    /\ life = "open" /\ ~ready /\ ready' = TRUE /\ Baseline
    /\ errEntry' = ErrorFlag(errEntry, saveState, FALSE)
    /\ UNCHANGED <<file_vars, form_vars, timer, owned, retry, run, saveState,
                   kind, project, archived, docHash, conflict, env_vars>>

ProjectsLoaded ==
    /\ mounted /\ ~project /\ project' = TRUE
    /\ UNCHANGED <<file_vars, form_vars, auto_vars, save_vars,
                   kind, archived, ready, docHash, conflict, env_vars>>

-----------------------------------------------------------------------------
(* Editing.                                                                *)

\* Typing in the rich editor: setBlocks.  The key still holds the old hash,
\* but the effect runs because the value changed.
EditBlocks ==
    /\ life = "open" /\ ready /\ kind = "document" /\ ~archived /\ made - 1 < MaxEdits
    /\ made' = made + 1
    /\ form' = [form EXCEPT !.b = made'] /\ view' = made' /\ hasChanges' = TRUE
    /\ ValueEffect(key, savedKey, Enabled(TRUE, archived, conflict), saving, timer)
    /\ errEntry' = ErrorFlag(errEntry, saveState, dirty')
    /\ UNCHANGED <<disk, outside, hash, savedKey, firstKey,
                   retry, run, saveState, ctrl_vars, env_vars>>

\* A change of the title, the tags or the scene: the key changes at once.
\* Tags also change when the backend announces new ones, so no editor is needed.
EditOther ==
    /\ life = "open" /\ made - 1 < MaxEdits
    /\ made' = made + 1
    /\ form' = [form EXCEPT !.t = made'] /\ hasChanges' = TRUE
    /\ ValueEffect(Key(form', hash), savedKey,
                   Enabled(TRUE, archived, conflict), saving, timer)
    /\ errEntry' = ErrorFlag(errEntry, saveState, dirty')
    /\ UNCHANGED <<disk, outside, hash, view, savedKey, firstKey,
                   retry, run, saveState, ctrl_vars, env_vars>>

\* The animation frame after an edit of the blocks: setBlocksHash.
HashFrame ==
    /\ mounted /\ hash # form.b /\ hash' = form.b
    /\ ValueEffect(Key(form, form.b), savedKey, enabled, saving, timer)
    /\ errEntry' = ErrorFlag(errEntry, saveState, dirty')
    /\ UNCHANGED <<file_vars, form, view, hasChanges, savedKey, firstKey,
                   retry, run, saveState, ctrl_vars, env_vars>>

-----------------------------------------------------------------------------
(* Saving.                                                                 *)

SucceededNoFollowUp(k, en, tm) ==
    /\ run' = Idle /\ savedKey' = k /\ saveState' = "saved"
    /\ timer' = tm /\ dirty' = (IF mounted THEN en /\ key # k ELSE dirty)
    /\ errEntry' = "none"

\* The success branch of performSave, at the end of a run that took key k.
\* en is what enabledRef holds, tm whether a timer is armed.
Succeeded(k, en, tm) ==
    /\ run' = Idle /\ savedKey' = k /\ saveState' = "saved"
    /\ LET more == en /\ key # k
       IN  timer' = (more \/ tm) /\ dirty' = (IF mounted THEN more ELSE dirty)
    /\ errEntry' = "none"
FailedUnreported ==
    /\ run' = Idle
    /\ IF run.n < MaxRetries
       THEN retry' = run.n + 1 /\ UNCHANGED <<saveState, errEntry>>
       ELSE retry' = retry /\ saveState' = "error" /\ errEntry' = errEntry
FailedRetriesForEver ==
    run' = Idle /\ retry' = MaxRetries /\ UNCHANGED <<saveState, errEntry>>

\* The failure branch: arm a retry, or report in the save error store.
Failed ==
    /\ run' = Idle
    /\ IF run.n < MaxRetries
       THEN retry' = run.n + 1 /\ UNCHANGED <<saveState, errEntry>>
       ELSE retry' = retry /\ saveState' = "error"
            /\ errEntry' = (IF mounted THEN ErrorFlag("dirty", "error", dirty) ELSE "dirty")

\* What doSave sends: the form of this moment and the hash of the last render.
Snapshot(n) == [at |-> "save", text |-> form, exp |-> docHash, key |-> key, n |-> n]

\* performSave(n) when no save is in flight: doSave without a project returns
\* at once and counts as a success.
BeginSave(n, tm) ==
    IF project
    THEN /\ run' = Snapshot(n)
         /\ saveState' = "saving" /\ timer' = tm
         /\ errEntry' = (IF mounted THEN ErrorFlag(errEntry, "saving", dirty) ELSE errEntry)
         /\ UNCHANGED <<savedKey, dirty>>
    ELSE Succeeded(key, enabled, tm)

PerformSaveUnguarded(n, tm) == BeginSave(n, tm)
PerformSave(n, tm) ==
    IF saving THEN timer' = tm /\ UNCHANGED <<run, saveState, errEntry, savedKey, dirty>>
              ELSE BeginSave(n, tm)
saveNow == PerformSave(0, FALSE)


DebounceFires ==
    /\ running /\ timer
    /\ PerformSave(0, FALSE)
    /\ UNCHANGED <<file_vars, form_vars, firstKey, userMade, owned, retry, ctrl_vars, env_vars>>

RetryFires ==
    /\ running /\ retry > 0 /\ retry' = 0
    /\ PerformSave(retry, timer)
    /\ UNCHANGED <<file_vars, form_vars, firstKey, userMade, owned, ctrl_vars, env_vars>>

\* Ctrl+S, the palette's Save, or the banner's Retry.
SaveRequested ==
    /\ life = "open" /\ ~archived /\ UserActs
    /\ saveNow
    /\ UNCHANGED <<file_vars, form_vars, firstKey, userMade, owned, retry, ctrl_vars,
                   life, asks, event, quit>>

\* The window is about to unload: saveNow also drops the timer of a busy editor.
BeforeUnload ==
    /\ life = "open" /\ enabled /\ dirty /\ UserActs
    /\ saveNow
    /\ UNCHANGED <<file_vars, form_vars, firstKey, userMade, owned, retry, ctrl_vars,
                   life, asks, event, quit>>

\* The window loses the focus.
Blur ==
    /\ life = "open" /\ enabled /\ ready /\ dirty /\ ~saving
    /\ UserActs
    /\ saveNow
    /\ UNCHANGED <<file_vars, form_vars, firstKey, userMade, owned, retry, ctrl_vars,
                   life, asks, event, quit>>

DismissError ==
    /\ mounted /\ UserActs /\ errEntry \in {"dirty", "clean"} /\ errEntry' = "dismissed"
    /\ UNCHANGED <<file_vars, form_vars, auto_vars, retry, run, saveState, ctrl_vars, life, asks, event, quit>>

ExpectationSkipped == TRUE
\* The service's check of the expected hash, if there is one.
ExpectationMet == run.exp \in {None, disk}

\* The service writes the file; it never turns a canvas into a document.
ServerWrites ==
    /\ running /\ run.at = "save" /\ ExpectationMet
    /\ run.text = Blank => kind = "document"
    /\ disk' = run.text /\ run' = [run EXCEPT !.at = "wrote"]
    /\ UNCHANGED <<made, outside, form_vars, auto_vars, retry, saveState, errEntry,
                   ctrl_vars, env_vars>>

\* The quit handler waits for the save it started, whatever its outcome.
AckAfterRun == quit' = (IF quit = "flush" THEN "acked" ELSE quit)

\* The end of a run that was answered.  performSave still reads the enabled
\* flag of the last render; the render that follows, with flag en, comes after.
EndRun(en) ==
    /\ IF mounted /\ en # enabled
       THEN /\ run' = Idle /\ savedKey' = run.key /\ saveState' = "saved" /\ errEntry' = "none"
            /\ ValueEffect(key, run.key, en, FALSE, timer \/ (enabled /\ key # run.key))
       ELSE Succeeded(run.key, enabled, timer) /\ UNCHANGED <<owned, userMade>>
    /\ AckAfterRun

\* ERR_CONFLICT: onConflict raises the banner and doSave returns normally.
ServerRefuses ==
    /\ running /\ run.at = "save" /\ ~ExpectationMet
    /\ conflict' = (mounted \/ conflict)
    /\ EndRun(Enabled(hasChanges, archived, conflict'))
    /\ UNCHANGED <<file_vars, form_vars, firstKey, retry, kind, project, archived, ready, docHash,
                   life, manual, asks, event>>

SaveFails ==
    /\ running /\ run.at = "save"
    /\ Failed /\ AckAfterRun
    /\ UNCHANGED <<file_vars, form_vars, auto_vars, ctrl_vars, life, manual, asks, event>>

\* The answer to a save that wrote: resetChanges, then ask for the new hash.
SaveAnswered ==
    /\ running /\ run.at = "wrote" /\ run' = [run EXCEPT !.at = "hash"]
    /\ IF mounted
       THEN /\ hasChanges' = FALSE
            /\ IF enabled THEN ValueEffect(key, savedKey, FALSE, TRUE, timer)
               ELSE UNCHANGED <<dirty, userMade, timer, owned>>
            /\ errEntry' = ErrorFlag(errEntry, saveState, dirty')
       ELSE UNCHANGED <<hasChanges, dirty, userMade, timer, owned, errEntry>>
    /\ UNCHANGED <<file_vars, form, hash, view, savedKey, firstKey, retry, saveState,
                   ctrl_vars, env_vars>>

\* getHash answers: onSaveComplete adopts the hash and drops the banner.
HashAnswered ==
    /\ running /\ run.at = "hash"
    /\ \E ok \in BOOLEAN :
         /\ docHash' = (IF ok /\ mounted THEN disk ELSE docHash)
         /\ conflict' = (conflict /\ ~(ok /\ mounted))
    /\ EndRun(Enabled(hasChanges, archived, conflict'))
    /\ UNCHANGED <<file_vars, form_vars, firstKey, retry, kind, project, archived, ready,
                   life, manual, asks, event>>

-----------------------------------------------------------------------------
(* Another program, the conflict banner, restoring an archived document.   *)

ExternalWrite ==
    /\ running /\ outside < MaxExternal /\ made - 1 < MaxEdits
    /\ outside' = outside + 1 /\ made' = made + 1
    /\ disk' = [b |-> made', t |-> made'] /\ event' = TRUE
    /\ UNCHANGED <<form_vars, auto_vars, save_vars, ctrl_vars, life, manual, asks, quit>>

\* Renders in which only the enabled flag may have changed, to en.
Rerender(en) ==
    /\ IF en # enabled THEN ValueEffect(key, savedKey, en, saving, timer)
       ELSE UNCHANGED <<dirty, userMade, timer, owned>>
    /\ errEntry' = ErrorFlag(errEntry, saveState, dirty')
    /\ UNCHANGED <<savedKey, firstKey, retry, run, saveState>>

ExternalChangeEvent ==
    /\ mounted /\ event /\ event' = FALSE /\ conflict' = TRUE
    /\ Rerender(FALSE)
    /\ UNCHANGED <<file_vars, form_vars, kind, project, archived, ready, docHash,
                   life, manual, asks, quit>>

\* The hash asked for after loading.
InitialHash ==
    /\ running /\ "init" \in asks /\ asks' = asks \ {"init"}
    /\ \E ok \in BOOLEAN :
         docHash' = (IF ~mounted THEN docHash ELSE IF ok THEN disk ELSE None)
    /\ UNCHANGED <<file_vars, form_vars, auto_vars, save_vars,
                   kind, project, archived, ready, conflict, life, manual, event, quit>>

Choose(what) ==
    /\ life = "open" /\ conflict /\ asks \intersect {"keep", "reload", "rehash"} = {}
    /\ UserActs /\ asks' = asks \union {what}
    /\ UNCHANGED <<file_vars, form_vars, auto_vars, save_vars, ctrl_vars,
                   life, event, quit>>
KeepMine == Choose("keep")
ReloadFromDisk == Choose("reload")

\* The reload's document arrives: the form is replaced, and the canvas (not
\* the rich editor) is mounted afresh.
ReloadAnswered ==
    /\ mounted /\ "reload" \in asks
    /\ asks' = (asks \ {"reload"}) \union {"rehash"}
    /\ InitializeForm(disk) /\ ready' = (ready /\ kind = "document")
    /\ UNCHANGED <<hash, view>>
    /\ ValueEffect(Key(disk, hash), savedKey, FALSE, saving, timer)
    /\ errEntry' = ErrorFlag(errEntry, saveState, dirty')
    /\ UNCHANGED <<file_vars, savedKey, firstKey, retry, run, saveState,
                   kind, project, archived, docHash, conflict, life, manual, event, quit>>

ReloadFails ==
    /\ mounted /\ "reload" \in asks /\ asks' = asks \ {"reload"}
    /\ UNCHANGED <<file_vars, form_vars, auto_vars, save_vars, ctrl_vars,
                   life, manual, event, quit>>

\* refreshHash answers for Keep mine or for the reload: the banner goes.
ChoiceDone ==
    /\ mounted
    /\ \E what \in asks \intersect {"keep", "rehash"}, ok \in BOOLEAN :
         asks' = asks \ {what} /\ docHash' = (IF ok THEN disk ELSE None)
    /\ conflict' = FALSE
    /\ Rerender(Enabled(hasChanges, archived, FALSE))
    /\ UNCHANGED <<file_vars, form_vars, kind, project, archived, ready,
                   life, manual, event, quit>>

Restore ==
    /\ life = "open" /\ archived /\ archived' = FALSE /\ UserActs
    /\ Rerender(Enabled(hasChanges, FALSE, conflict))
    /\ UNCHANGED <<file_vars, form_vars, kind, project, ready, docHash, conflict,
                   life, asks, event, quit>>

-----------------------------------------------------------------------------
(* Closing the pane and quitting the application.                          *)

DropTimers == timer' = FALSE /\ retry' = 0
DropError  == errEntry' = "none"

\* useAutoSave drops its timers and its error entry, then the controller
\* saves what is flagged as unsaved.
Close ==
    /\ mounted /\ life' = "closed"
    /\ DropTimers /\ DropError
    /\ run' = IF dirty /\ ~archived /\ project /\ ~saving
              THEN Snapshot(0)
              ELSE run
    /\ UNCHANGED <<file_vars, form_vars, dirty, savedKey, firstKey, userMade, owned, saveState,
                   ctrl_vars, manual, asks, event, quit>>

\* "yanta/app/flush-dirty": save every dirty editor, then acknowledge.
FlushDirty ==
    /\ running /\ quit = "no" /\ UserActs
    /\ IF mounted /\ dirty
       THEN saveNow /\ quit' = (IF ~saving /\ project THEN "flush" ELSE "acked")
       ELSE quit' = "acked" /\ UNCHANGED <<timer, run, saveState, errEntry, savedKey, dirty>>
    /\ UNCHANGED <<file_vars, form_vars, firstKey, userMade, owned, retry, ctrl_vars,
                   life, asks, event>>

\* main.go quits on the acknowledgement, or after three seconds without it.
\* The frontend's state goes with the process; the form is kept to compare.
Exit ==
    /\ running /\ quit # "no" /\ life' = "exited"
    /\ run' = Idle /\ retry' = 0 /\ timer' = FALSE /\ owned' = FALSE
    /\ dirty' = FALSE /\ userMade' = FALSE /\ savedKey' = None /\ firstKey' = None
    /\ saveState' = "idle" /\ errEntry' = "none" /\ ready' = FALSE
    /\ hash' = 0 /\ view' = 0 /\ hasChanges' = FALSE /\ docHash' = None
    /\ conflict' = FALSE /\ asks' = {} /\ event' = FALSE /\ quit' = "acked"
    /\ UNCHANGED <<file_vars, form, kind, project, archived, manual>>

-----------------------------------------------------------------------------
Answers == ServerWrites \/ ServerRefuses \/ SaveFails \/ SaveAnswered \/ HashAnswered
Timers  == DebounceFires \/ RetryFires \/ HashFrame

Next ==
    \/ LoadDone \/ LoadFails \/ EditorReady \/ ProjectsLoaded
    \/ EditBlocks \/ EditOther
    \/ SaveRequested \/ Blur \/ BeforeUnload \/ DismissError
    \/ ExternalWrite \/ ExternalChangeEvent \/ InitialHash
    \/ KeepMine \/ ReloadFromDisk \/ ReloadAnswered \/ ReloadFails \/ ChoiceDone
    \/ Restore \/ Close \/ FlushDirty \/ Exit
    \/ Answers \/ Timers

\* Timers fire, frames are painted and the backend answers.
Fairness == WF_vars(DebounceFires) /\ WF_vars(RetryFires) /\ WF_vars(HashFrame)
            /\ WF_vars(Answers)

Spec == Init /\ [][Next]_vars
FairSpec == Spec /\ Fairness

-----------------------------------------------------------------------------
(* Properties.                                                             *)

\* The session implements the serial writer: overlapping triggers (debounce,
\* retry, blur, Ctrl+S, unmount, quit) never have two writes under way, and a
\* write carries exactly the form of the moment it was asked for.
Writer == INSTANCE SerialWriter WITH
            Text <- Content, text <- form, file <- disk,
            pending <- IF run.at = "save" THEN run.text ELSE None
SerialWrites == Writer!Spec

\* An edit the editor flags as unsaved is going to be saved: as long as saving
\* is allowed, a flagged form has a save in flight, a timer or retry armed, or
\* an error the status line shows.
FlaggedIsScheduled ==
    life = "open" /\ ready /\ enabled /\ dirty /\ userMade
        => timer \/ retry > 0 \/ saving \/ saveState = "error"

\* Navigation is held back by an unsaved form whose retries are exhausted,
\* unless the user dismissed the banner: the store's entry is in step with
\* what the editor knows.
ErrorIsReported ==
    mounted /\ saveState = "error" /\ errEntry # "dismissed"
        => errEntry = (IF dirty THEN "dirty" ELSE "clean")

\* While the file holds another program's version whose hash the editor never
\* fetched, a save that carries a hash leaves the file alone.
UnseenVersionKept ==
    [][run.at = "save" /\ run.exp # None /\ run.exp # disk => disk' = disk \/ outside' # outside]_vars

\* A failing save is not retried for ever: every save under way or armed for
\* a retry comes to rest, with the quit handler's acknowledgement sent.
SavesSettle ==
    (saving \/ retry > 0 \/ quit = "flush")
        ~> ((~saving /\ retry = 0 /\ quit # "flush") \/ life = "exited")

\* useAutoSave.ts: "If edits landed during the save, currentKey is now ahead
\* of the key we persisted - flag dirty and schedule a follow-up save so they
\* land."  A save that ends behind the form leaves an open editor flagged.
EditsDuringSaveFlagged ==
    [][life = "open" /\ run.at = "hash" /\ run' = Idle /\ life' = "open" /\ key # run.key
        => dirty']_vars

\* useDocumentController.ts: an untouched document must not fire "a spurious
\* save on close"; in particular a form that was never loaded is not written.
OnlyLoadedFormsWritten == disk # Blank
=============================================================================
