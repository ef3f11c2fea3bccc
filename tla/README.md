# Yanta: TLA+ models and proofs

Yanta is a local-first note-taking desktop application: a Go backend
(`src/internal`), a React frontend (`src/frontend/src`), notes as JSON files in a
vault directory, a SQLite index beside them, and git as the way to synchronise
devices. This directory models the parts of it in which several actors touch the
same state, checks them with TLC on small instances, and proves the most important
properties with TLAPS for instances of any size.

1. [Parts of the system](#1-parts-of-the-system)
2. [Git synchronisation](#2-git-synchronisation)
3. [The vault: file, index and watcher](#3-the-vault-file-index-and-watcher)
4. [One editing session](#4-one-editing-session)
5. [The window: working on documents](#5-the-window-working-on-documents)
6. [The window: journal, search, settings, sync](#6-the-window-journal-search-settings-sync)
7. [Runs](#7-runs)
8. [Proofs](#8-proofs)
9. [What the models found](#9-what-the-models-found)
10. [What is not modelled](#10-what-is-not-modelled)
11. [What could be proved next](#11-what-could-be-proved-next)

How to run: `tlc -config GitSyncSafety.cfg MCGitSync`,
`tlc -config VaultIndex.cfg MCVault` and so on (section 7); `tlapm VaultProofs.tla`
(section 8). `PROJECT.json` maps every definition to the lines it models and lists the
hazards of the code with the properties that would catch them.

## 1. Parts of the system

Paths below `frontend/src` are given without that prefix.

| Part | Source | State it owns | Who touches it concurrently | Model |
|---|---|---|---|---|
| Git wrapper | `internal/git/service.go` | working tree, index, branch, remote | one git subprocess per call | `GitRepo` |
| Automatic sync | `internal/git/sync_manager.go` | pending reasons, `needsPush`, failure key | ticker goroutine, every service through `NotifyChange` | `GitSync` |
| Operation lock | `internal/git/oplock.go` | holder | ticker, manual operations, start-up | `GitSync` |
| Manual git operations | `internal/system/service.go` | (locals) | UI calls | `GitSync` |
| Documents | `internal/document` | JSON files, `doc` rows, `saveMu` | UI, MCP server, journal promotion | `Vault` |
| Tags | `internal/tag` | tags in the JSON files | UI, without `saveMu` | `Vault` |
| Indexer and watcher | `internal/indexer` | `doc`, `fts_doc`, debounce timers, reconciled hashes | fsnotify loop, timer goroutines, services | `Vault` |
| Start and stop | `internal/app`, `main.go` | life cycle, database handle | window close, crash | `GitSync`, `Vault`, `EditorSession` |
| Editing session | `document/hooks`, `shared/hooks/useAutoSave.ts` | form, flags, expected hash, timers, save in flight | effects, promises, window events, other programs | `EditorSession`, `SerialWriter` |
| Panes and page history | `pane`, `app/useAppNavigation.ts` | pane tree, stored layouts, history index | debounced save, navigation, popstate | `PaneLayout` |
| Keyboard | `hotkeys`, `app/global-hotkeys.tsx` | hotkey registry, dialog count, Escape stack | every mounted component | `Keyboard` |
| Drawing editor | `editor/CanvasEditor.tsx` | scene, files, flush generation | vault answers, paste, repaint timer | `CanvasScene` |
| Text editor | `editor` | blocks, baseline, find bar, uploads | frames, uploads, read-only switch | `RichText` |
| Plugins | `plugins`, `editor/extensions` | runtime records, contributions, enabled state | start-up, editor recovery, settings | `Plugins` |
| Document list | `document/context`, `dashboard` | list, highlight, selection, jobs | events, loads, jobs of several calls | `DocumentList` |
| Projects | `shared/stores/project.store.ts`, `project`, `internal/commandline/project.go` | current and previous project, lists, dialogs | events, loads, commands | `ProjectsPage` |
| Recent documents | `shared/stores/recentDocuments.store.ts` | list in localStorage | events, rounds of fetches | `Recents` |
| Command palette | `command-palette` | registered commands, usage | context changes, running commands | `Palette` |
| Journal | `journal`, `internal/journal` | rows of a day, selection, dialogs, entry files | reads, events, calls of several steps | `Journal` |
| Quick capture | `quick-capture`, `internal/journal` | draft, last entry, window | saves, undo, clock | `QuickCapture` |
| Search | `search-index`, `global-search`, `search` | index, results, preview | rebuilds, queries, events | `Search` |
| Settings | `settings`, `internal/config` | copies of the configuration | calls served and answered in any order | `SettingsForms` |
| Preferences, theme | `shared/stores/preferences.store.ts` | overrides, file, theme | calls, system theme, restart | `Preferences` |
| Sync panel, toasts, errors, migration form | `shared/stores/sync.store.ts`, `settings` | last outcome, status, toasts, error queue | four ways to sync, background sync, polls | `SyncPanel` |
| Hints, welcome, tooltips, update prompt | `onboarding`, `shared/stores` | progress, what was shown | two windows over one localStorage | `Guidance` |
| Assets, backups, migration, event bus, project cache | `internal/asset`, `backup`, `migration`, `events`, `project` | files, rows, caches | UI, sync, clean-up | not modelled (section 10) |

How they interact: a service writes a file, has it indexed and calls `NotifyChange`.
The watcher sees the same write on the file system and must tell it from a write of
another program. The sync manager turns notifications into commits and pushes; its
pulls, and those of the manual operations, change files and call back into the
indexer. The frontend saves with the hash it last saw, and hears of external changes
through the event bus. The window's parts keep copies of what the services hold and
refresh them on events. All of it may be stopped between any two steps.

## 2. Git synchronisation

`GitRepo` is git as `service.go` uses it, `GitSync` extends it with everything that
calls it.

**State.** Note content is a set of edits; an edit is *in* the working tree (`tree`),
the index (`index`), the branch (`head`), the remote-tracking ref (`tracking`) or the
remote (`remote`). `gitOp` is what `InProgressOperation` reports. The manager's fields
keep their names (`reasons`, `needsPush`, `failureKey`); `lock` is
`OperationLock.holder`; `pc` and four more variables are the locals of the goroutines.
`recorded` and `wiped` are history: edits whose notification was accepted, and edits
that an abort of a rebase took off the disk.

**Actions.** One git command is one step, with one disjunct per outcome the wrapper
distinguishes; anything may happen between two commands.

| Code | Actions |
|---|---|
| service writes, then `NotifyChange` | `SaveNote`, `NotifyChange` |
| `checkAndSync`, `ForceSync` | `Tick`, `ForceSync` |
| `performSync` | `PerformSyncBegin`, `-Add`, `-Status`, `-Commit` |
| `retryPush` | `RetryPush` |
| `pushWithRebaseRetry` | `FirstPush`, `PullRebase`, `FinishRebase`, `SecondPush`, `ReindexAfterPull` |
| `SyncNow`, `GitPush`, `GitPull` | `SyncNow…`, `GitPush…`, `GitPull…`, `ManualReindex` |
| `ReconcileOnStartup`, `SetGitSyncConfig` | same names |
| `New`, `Shutdown`, exit or crash | `Start`, `Shutdown`, `Exit` |
| outside | `EditWhileDown`, `OtherDevicePushes`, `ResolveOperation`, `IntervalElapses` |

A push that fails may have reached the remote (its timeout kills the client, not the
server); a rebase that times out stays unfinished on disk; `Exit` forgets what is in
memory and leaves an unfinished rebase. `Start`'s scan notifies for every note it
indexes, so a session that finds notes starts with a reason. `ForceSync` and the
manual operations are calls of the user and have no fairness.

**Properties.**

* `OneGitOperation`: the lock keeps automatic and manual operations apart.
* `NoRecordedChangeDropped`: `clearPendingState` drops the reason of a change only
  when the change is committed, whatever arrived since the cycle's snapshot.
* `NoCommitDuringOperation`: the check for an unfinished operation, made several
  commands earlier, still holds at `git add` and `git commit`.
* `CommitsIntact`: no step takes a commit off the branch or the remote.
* `UnpushedIsTracked`: a commit that is not on the remote is somebody's job.
* `RecordedIsCommitted`, `CommitIsPublished`: it eventually gets there.

## 3. The vault: file, index and watcher

`Vault` follows one document path, since documents do not interact in the code that is
modelled.

**State.** A writer writes one version, so versions are named after their writers, and
a hash (`ComputeFileHash`) is the version. `disk` is the file, `row` the row of `doc`
with its archived mark, `fts` the version in `fts_doc`. `saveMu` is the mutex of the
document service. `events` are file system events on their way; `timer` the callbacks
of `time.AfterFunc`, `debounce` the entry of the watcher's map, `reconciled` the noted
hash, `errors` the number of errors in the channel nobody receives from. `raced` is
history, explained below.

**Actions.** Every client runs one operation; a file access, an index transaction or a
mutex section is one step.

| Code | Actions |
|---|---|
| `Get`, `Save` | `Load`, `SaveBegin` or `SaveNew`, `Write`, `NoteAppWrite`, `IndexRead`, `IndexCommit`, on failure `UndoSave` |
| MCP `update_document` | the same, without the expected hash (kind `update`) |
| `MoveToProject` | `MoveBegin`, `Write`, `IndexRead`, `IndexCommit` |
| tag service, `UpdateFile` | `TagBegin`, `Write` (no lock, no index call) |
| `SoftDelete`, `SoftDeleteByProject`, `Restore` | `Archive`, `Unindex`, `Restore` |
| `HardDelete`, `HardDeleteBatch` | `HardDelete`, `HardDeleteFile`, `HardDeleteRow`, `Unindex` |
| `ListByProject` (prunes missing files) | `List`, `Prune`, `Unindex` |
| `ReindexDatabase`, `ReindexPaths` after a pull | `Reindex`, `Pull`, `Forget` |
| `handleEvent`, `scheduleIndexing` | `HandleEvent` |
| `executeIndexing` | `TimerFires`, `CallbackRead`, `CallbackCommit`, `CallbackRemove`, `CallbackReport` |
| `New`, `Shutdown`, exit | `StartScan`, `StartWatching`, `Shutdown`, `Exit` |
| another program | `ExternalChange`, `ExternalFinish` (writing in place is two steps) |

**Properties.**

* `IndexAgreesWhenQuiet`: when nothing is under way, a readable document has a row,
  and an active one is in both indexes in the version on disk.
* `OverwritesOnlyWhatItChecked`: a save with an expected hash, and a move, overwrite
  the version they checked, or one of a writer that does not take `saveMu`.
* `SearchMatchesTable`: `doc` and `fts_doc` never hold two versions.

`IndexAgreesWhenQuiet` has an exception, `raced`. The code has windows in which an
index call commits something outdated that nobody repairs; the model marks them
exactly, at the step where it happens, and claims the property for all behaviours
without such a step:

1. `HardDelete`, `Unindex`, `Prune` or `Forget` removes rows while somebody has just
   written the file again;
2. an index transaction commits a version that was replaced after it was read, and the
   replacement is already noted or indexed (so its watcher callback skips it);
3. a watcher callback removes the row of a document that was recreated and noted;
4. a callback read a version other than the one it took the hash of, or two callbacks
   run side by side (a finishing callback deletes the map entry of a newer timer);
5. another program writes between the scan at the start and the start of the watcher;
6. another program puts back a version whose hash the watcher has noted, or is about to
   note, while the index holds another version.

`Settled` (what is on disk is indexed or noted) and `Overtaken` (what a callback commits is
outdated and the watcher will not look again) are the conditions under which `raced` is
set; no guard reads it.

## 4. One editing session

`EditorSession` is one pane with one document, from mount to unmount or quit. It
composes the hooks the pane runs with the file and with the backend's `Save`, which
compares the hash it is sent with the file's.

**State.** A content is a pair of version numbers: the blocks, whose hash reaches the
compare key one animation frame late, and everything the key reads directly. The
variables are the hooks' states and refs under short names, each given with its
original in the declaration; `run` is the save in flight with what it carries and
where it is (service call, answer, fetch of the new hash).

| Code | Actions |
|---|---|
| `useDocumentLoader`, `useDocumentInitialization`, `project.store` | `LoadDone`, `LoadFails`, `EditorReady`, `ProjectsLoaded` |
| `useDocumentForm`, hashing in the next frame | `EditBlocks`, `EditOther`, `HashFrame` |
| `useAutoSave`: debounce, retry, blur, unload | `DebounceFires`, `RetryFires`, `Blur`, `BeforeUnload`, `DismissError` |
| save command, save on unmount, flush on quit | `SaveRequested`, `Close`, `FlushDirty`, `Exit` |
| `doSave` and the document service | `ServerWrites`, `ServerRefuses`, `SaveFails`, `SaveAnswered`, `HashAnswered` |
| external change, conflict dialog | `ExternalWrite`, `ExternalChangeEvent`, `InitialHash`, `KeepMine`, `ReloadFromDisk`, `ReloadAnswered`, `ReloadFails`, `ChoiceDone` |
| restore of an archived document | `Restore` |

React runs effects after the render that a state change causes; an action therefore
contains the effects that follow from its changes, in their order.

**Abstract specification.** `SerialWriter` is what a session promises of the file:
whole texts, each the text of the moment the save was asked for, one write at a time,
and a write that is given up leaves the file alone. `SerialWrites` is the refinement:
`text` is the form, `file` the file, `pending` what the service call in flight
carries. Six triggers can ask for a save; none of their overlaps writes a mixture, an
older text after a newer one was asked for, or two texts at once.

**Properties.** `FlaggedIsScheduled`: what the editor flags as unsaved has a save in
flight, a timer, a retry or a shown error. `ErrorIsReported`: the global error store,
which holds back navigation, is in step with the editor. `UnseenVersionKept`: a save
that carries a hash never replaces a version with another hash. `SavesSettle`
(liveness): retries come to an end and the quit handshake is answered.

## 5. The window: working on documents

Nine modules and two helpers, one run (`workspace`). Each has its own small model of the service it
calls: a call is sent, takes effect, and is answered, in three steps or in two where
nothing can see the difference; calls may fail, and two calls are answered in any order.

**`PaneLayout`.** A tree is a function from places (the path of children from the root) to
nodes; leaves are ordered from left to right as `getLeaves` lists them. The reducer on the pane tree (split, close, open, swap, focus,
reset), the debounced save of the layout under the primary document's name, restoring
it, page navigation with the guard for unsaved errors, and the webview's history with
the store that mirrors it. `PanesWellFormed`, `StoredAsLeft` (a navigation that
overtakes the debounce loses no change and saves nothing under another document's name),
`HistoryMirrored`.

**`Keyboard`.** One action is one keydown run through all listeners in the browser's
order: capture and bubble groups, target rules, the dialog counter, the Escape stack,
the leader key, the canvas Escape sequence. `SaveReachesActivePane`: however panes
were registered, clicked and closed, save acts once and on the active pane. `PaneOrder` is
the order in which the panes of a document page mount.

**`Filters`.** `Array.filter`, which `Keyboard`, `Recents`, `Palette` and `Search` use:
`KeptAt` gives the kept members in their order, each at its rank among the kept indices.

**`Splices`.** Taking one element out of a list or putting one in, reducing, flattening and
reversing, for `RichText` and `Journal`. `SequencesExt` has the same operators, but brings the
theory of bags into every proof about a module that extends it, which makes them slow.

**`CanvasScene`.** Resolving stored images, changes, flushes that first move images
into the vault, the guard against taking a repaint for a change, clipboard paste.
`NewestSceneKept` (`flushGenerationRef`), `ImagesKept` (`unresolvedRefsRef`).

**`RichText`.** Loading, the baseline of the first frame, typing, direction, blocks of
missing plugins, find and replace, chunked image upload. Documents hold no stand-in for the
block of a missing plugin (`DocumentsStored`): `restoreUnknownBlocks` runs on every change
handed over. One that another program writes into a file is outside the model. `FormFollowsEditor`;
`ReplaceAllReplaces` compares the code's replacement (matches from the last to the
first, on positions computed before) with a definition that reads the text from the
left.

**`Plugins`.** Start-up in order, set-up that may throw half way, the contribution
registry with its cached answers, recovery from an editor crash, the settings section.
`OnlyRunningContribute`, `RecoveredStayOff`. The plugins still to be loaded or turned off
are a set, taken in the order of their ids (`IsFirst`).

**`DocumentList`.** Loads with a request token, events, filter, sorting, highlight,
selection, and archive, restore, delete and move as jobs of one call per document. The
selection is a JavaScript `Set`, whose order is the order of the clicks; the model lets a
job take its documents in any order. `ListIsCurrent`.

**`ProjectsPage`.** The store's loads, the previous project, the page's commands with
the confirmation they may ask for. A list of projects is a set, listed in `ProjectOrder`;
`First` is its member at the least position. `LoadSettlesCurrent`.

**`Recents`.** A round fetches every listed document while the list changes.
`RecentsKept`: such a round never removes what was opened after it began.

**`Palette`.** Which commands a context gives, the registry that keeps a list it takes
for unchanged, usage and order, what a command starts. `ProjectCommandsCurrent`.

## 6. The window: journal, search, settings, sync

Seven modules, one run (`services`).

**`Journal`.** Reads with a request number, events that name a day, selection,
deletion of several entries and its undo, promotion to a document, editing in place,
the composer, the calendar. `UndoFindsEntries`: every restore call names entries of
its own day and project, however far the user has moved on. The delete and restore loops
hold the set of entries left and take them in the order of the day (`IsNext`).

**`QuickCapture`.** Words with tags and a project, the suggestion list, saving (the
service reads the clock twice), undo and open from the success bar, midnight.
`UndoFindsCapture`.

**`Search`.** The index with its debounce and the rebuild that is requested again
while it runs; the finder with recents and preview; the page with its debounce and
filters. `FinderFindsVault`, `PageAnswersQuery`.

**`SettingsForms`.** Every form's load and setters, with the backend's clamping and
linked fields, backup and reindex dialogs, section filter. `FormsAgree` holds per
group of fields, as long as no call of the group failed or overlapped another: the
code does not order overlapping calls, so it is not claimed for them.

**`Preferences`.** Merging of overrides, conversion to and from the backend's model
(which drops zero values and unknown sections), validation, the file, the theme.
The store is `null` before the first answer; the code reads that as no override
everywhere, and so does the model. `PreferencesAgree` compares what is in effect with what a restart would read.

**`SyncPanel`.** Four ways to sync, the background sync, the backend's lock, the polled
status, toasts, the error queue, the migration form. `BackedUpReachedRemote`: "backed
up" is shown only when the remote has the commits (where a remote was configured).

**`Guidance`.** Progress in two windows that each write the whole of it, hints with a
closing animation, the welcome overlay, a fading tooltip, the update check.
`MarkedWereSeen`.

## 7. Runs

| Run | Module, configuration | Checks | Result |
|---|---|---|---|
| `git_sync_safety` | `MCGitSync`, `GitSyncSafety.cfg` | `TypeOK`, `SyncInvariant`, `OneGitOperation`, `NoRecordedChangeDropped`, `NoCommitDuringOperation`, `CommitsIntact` | holds, 3.8 million states |
| `git_sync_publish` | `MCGitSync`, `GitSyncPublish.cfg` | `UnpushedIsTracked`, `RecordedIsCommitted`, `CommitIsPublished` | holds, 87 thousand states |
| `vault_index` | `MCVault`, `VaultIndex.cfg` | `TypeOK`, `IndexAgreesWhenQuiet`, `SearchMatchesTable`, `OverwritesOnlyWhatItChecked` | holds, 4.7 million states |
| `editor_session` | `MCEditor`, `EditorSession.cfg` | `FlaggedIsScheduled`, `ErrorIsReported`, `SerialWrites` (refinement), `UnseenVersionKept`, `SavesSettle` | holds, 397 thousand states |
| `workspace` | `MCWorkspace`, `Workspace.cfg` | the fourteen properties of section 5 | holds, 829 thousand states |
| `services` | `MCServices`, `Services.cfg` | the eight properties of section 6 | holds, 1.4 million states |
| `git_sync_no_upstream` | `MCGitSync`, `GitSyncNoUpstream.cfg` | `UnpushedIsTracked` | violated, see section 9 |
| `git_sync_abort` | `MCGitSync`, `GitSyncAbort.cfg` | `AbortKeepsWorkingTree` | violated |
| `vault_phantom_change` | `MCVault`, `VaultPhantom.cfg` | `NoPhantomChange` | violated |
| `vault_index_failure` | `MCVault`, `VaultIndexFailure.cfg` | `SaveKeepsDocument` | violated |
| `editor_lost_edit` | `MCEditor`, `EditorLostEdit.cfg` | `EditsDuringSaveFlagged` | violated |
| `editor_blank_save` | `MCEditor`, `EditorBlankSave.cfg` | `OnlyLoadedFormsWritten` | violated |

**Bounds of GitSync.** `Budget` bounds the environment: failing commands, restarts,
manual operations, settings changes. The safety run has two edits (one in the cycle's
snapshot, one that arrives during the cycle), an edit of another device (so that a push
can be rejected and a rebase is needed), one manual caller beside the ticker, and one
event of each kind. The lock admits one operation at a time, so a second caller adds
only waiting. The publish run has one edit and two faults: a retry that fails again.
The theorems of section 8 need none of these bounds.

**Bounds of Vault.** Two clients with any of the thirteen kinds of operation and one
external program give all pairs of writers, and with the version found at the start
three versions. Two timer slots are the smallest number with two callbacks side by
side; when both are taken the event waits. `ErrorsCap` is 1 instead of 10, so that the
channel fills. One restart. Clients and slots are interchangeable (`Symmetry`).

**Bounds of EditorSession.** Two contents are made, at most one of them by another
program: an edit during a save, and another program's write during a save. One thing
the user does besides typing and closing (with `MaxManual = 2` the properties hold as
well, in 2.5 million states), one retry (so that a retry succeeds, or is the last),
and sessions that start before the projects are loaded.

**Bounds of the composite runs.** The parts of `workspace` and of `services` share no
variable: they meet in the backend, which each module models as far as its part sees
it. A behaviour moves one part, chosen by `part` in the initial state, and the others
rest, so TLC explores the sum of the state spaces and no property of one part can be
affected by another. Every part but the keyboard, whose states
are finite, has a bound on what the user, and programs elsewhere, do (`Max…Steps`, two
to six); answers, timers and failures of calls come on top. The sets are the smallest with the cases in them: three panes for nested splits, two documents or
projects for "the one before", three recents for a list of two, a month of 31 days
before one of 28, a plugin whose cleanup throws, a tag that is part of another, and
texts with overlapping matches. Limits of the code (`MaxPanes`, `MaxRecents`,
`MaxUsage`, `FadeThreshold`) are small so that they are met.

Deadlock is not checked in any run: clients end, panes close, budgets run out.

**Timeliness.** `Timely = TRUE` says that what is in progress when a debounce timer is
armed has ended when the timer fires 500 ms later: a local file write and one SQLite
transaction. A call that *begins* in between is not restricted; that is how
`NoPhantomChange` fails.

**Fairness.** `GitSync`'s `FairSpec`: weak fairness of every goroutine's steps (the Go
scheduler and the timeouts that `service.go` puts on every git command), of the
`NotifyChange` call that follows a write, of the tick and of the clock, and of
`ResolveOperation`: the user resolves an unfinished operation the application reports.
Failures need no fairness, they are bounded. Leads-to properties excuse the end of the
session, auto-commit being switched off, and a conflict of which the user was told.
`EditorSession`'s `FairSpec`: timers fire, frames are painted and the backend answers,
well or badly; nothing is assumed of the user. The composite runs check safety only.

## 8. Proofs

Eight modules. Nothing is assumed but the named assumptions on constants, which TLC
evaluates in each run: sets of names are disjoint, bounds are natural numbers
(`RepoAssumption`, `ProcAssumption`, `MarkerAssumption`, `VaultAssumption`,
`EditorBounds`, `SceneAssumption`, `RecentsAssumption`, `PaneBounds`), no plugin is called
`"none"` (`PluginAssumption`; the model uses that name for "no plugin"), the orders in which
projects, documents and panes are listed are sequences of them, panes without repetition
(`ProjectOrderAssumption`, `PaletteAssumption`, `SearchAssumption`, `KeyboardAssumption`),
and stored documents hold no stand-in (`DocumentsStored`, section 5). Each theorem is about the specification
of its part, for any number of steps and any sets of names.

**`GitSyncProofs`**: `TypeCorrect` is the type invariant, one lemma per group of actions.
`Invariance` shows `Spec => []SyncInvariant`. None of the three safety
invariants is inductive alone. That a cycle clears only what it committed needs
`Snapshot` (the reasons it read are still the first of the queue, and from `git add` on
the index contains what they announce), which needs `OneGitOperation` (nobody else
shortens the queue), `AnnouncedIsWritten` (a reason is about something on disk) and
`RepoOrder` (committed ⊆ staged ⊆ on disk). `NoCommitDuringOperation` needs the lock:
the only steps that start a rebase are inside another operation. From the invariant
follow `MutualExclusion`, `NeverCommitsDuringOperation` and `ChangesAreNotDropped`;
`CommitsStay` proves the action property `CommitsIntact`.

`UnpushedCommitsAreTracked` proves `UnpushedIsTracked` in the setting `Configured`: the
branch has an upstream (`git_sync_no_upstream` shows what happens without one), no
untracked file outside the synchronised paths (section 9), asking for the remotes does
not fail (a cycle that cannot tell commits without pushing), and the settings do not
change. `TrackInvariant` adds to `SyncInvariant` what is known between two commands: what
is on disk and not committed has a reason or one on its way (`UncommittedWaits`), what is
committed and not published is known or being pushed (`UnpublishedIsKnown`), and a cycle
has reasons until it clears them, commits only when something is uncommitted, and leaves
behind it a later reason for whatever it did not stage (`CycleTracks`). Manual operations
tell the manager nothing; the proof shows that what they commit had a reason already.

**`VaultProofs`**: `VaultInvariant` consists of `TypeOK`, `GotInv` (who is about to commit
has read a version), `LockInv` (from its checks to its index transaction a save or move
holds `saveMu`, and the only other writers of that kind are tag updates), `WriterInv`
(who wrote the file has begun) and `CheckInv` (the file is what the checks saw, or was
written without `saveMu`). From it follow `TypeCorrect`, `SaveMutex` and the action
property in `OverwriteIsChecked`. `SearchAgrees` needs none of it: its property is preserved
by every step, because a transaction that sets one half sets the other.

`IndexAgrees` proves `IndexAgreesWhenQuiet` under `Timely` (section 7). `IndexInvariant` says
who will repair each disagreement. Its core is `RepairInv`: where a readable file and the
index differ, a client is at work on it, a callback is looking at it, or an event or a
timer will, and the watcher will not take what it sees for its own write. It needs
`WaitInv` (when a callback is about to note a version that is no longer on disk, the change
it missed is queued or in a timer that waits for that callback: here `Timely` matters),
`FreshInv` (a version yet to be written has no noted hash), `EventsInv` (the last event
tells of a file that is there), `RestInv` and `ScanInv` (before and after the scan at the
start).

**`EditorProofs`**, about `EditorSession`. `SessionImplementsWriter` is the refinement of
`SerialWriter`: `SessionMoves` sorts the steps into rests, edits, replacements of the form,
starts, landings and ends of a save, and each kind is a step of the writer or a
stutter. It needs `WriterTypes`, above all that a save in flight carries a text and not
the value that stands for none. `UnseenVersionsStay` follows from the same cases.
`FlaggedFormsAreScheduled`: the property is inductive with `WriterTypes`, once each helper
of `useAutoSave` (`ValueEffect`, `PerformSave`, `EndRun`, `Rerender`) has its lemma on what
it arms. `ExhaustedRetriesAreReported` needs `FirstSave`: before the document has loaded
the only save is the one the quit handler asks for, so nothing else can bring the entry
and the editor apart.

Of `SettingsForms`, `FormsFollowConfig` proves `FormsAgree`. `FormsInvariant` says, for every
group that is not disturbed, that its form and the configuration agree, or that its one
call under way was not served yet and they still agree, or was served and its answer
makes them agree.

**`WorkspaceProofs`**, about `PaneLayout`.

* `PanesStayWellFormed` and `LayoutsStoredAsLeft` rest on `LayoutInvariant`. A layout fits
  when its places form a tree (`IsTree`: whatever is above a node is a split), there are at
  most `MaxPanes` leaves, their ids are distinct and below `nextPane`, and the active one is
  a leaf. Splitting replaces one leaf by two. Closing moves the sibling's subtree to the
  parent's place: the remaining leaves are the image of the old ones, so there are no more
  of them, and no two end up in one place. With places instead of recursion over the tree
  none of it is an induction over data.
* `HistoryTold`. `HistoryInvariant` adds that the position and the frontier are entries of
  the history and that what is on its way there are pages.

**`WindowProofs`**, about `Keyboard`, `Recents`, `Search`'s page and `Palette`. Lemmas on
`KeptAt` say what a filter keeps, in which order, and that it keeps members distinct;
`SelectSeq` is recursive and opaque to the prover.

* `SavesReachActivePane`. `KeyboardInvariant`: mounted panes are distinct, the active pane is
  one of them, the registered commands are its own, and a save among what a key press did
  is all that it did and is the active pane's.
* `OpenedStayListed`. `RecentsInvariant`: listed paths are distinct, and a round that is
  not cancelled began with the paths listed now.
* `PageRowsAnswer`. `PageInvariant`: a call of the page's present generation asks for the
  query in the field, and the rows of its answer match that query.
* `PaletteActsOnCurrent`. `PaletteInvariant`: the source of the project commands is computed
  from the present context, and sorting the options by use loses none of them.

**`BrowseProofs`**, about `DocumentList`, `ProjectsPage` and `Search`.

* `ListSettles`. `ListFollows` says what the list lags behind for: it is current, or a load
  that will be listened to is under way and will read, or has read, the current state, or
  an event is still to arrive, or a move has not come to its reload.
* `LoadsSettleCurrentProject`, an action property: a load that is delivered carries both
  lists as they were read, and the first active project exists when any does
  (`FirstIsOne`, by the well-foundedness of the natural numbers).
* `FinderMissesNothing`. `VaultKnown` says that the index holds the vault, or a change is
  still to be announced, or a rebuild is due, running or requested again; `RowsAnswer`
  that the finder's rows are those of the index it was last computed from.

**`NoteProofs`**, about `Journal`, `QuickCapture`, `RichText` and `CanvasScene`. `UndoneEntriesAreFound`:
every loop and every toast that offers to undo names entries of its own place
(`LoopFinds`, `ToastFinds`), and no step moves an entry to another day or project
(`JournalKept`).
`UndoneCapturesAreFound`: a save under way, an offered entry and an undo under way name an
entry as it was filed, and identifiers are not used twice.

`FormIsCurrent` proves `FormFollowsEditor`. Its first half, `FormShowsEditor`, needs
that from the first frame on the baseline is the document (`FormInvariant`): otherwise
a change that gives the baseline again, which the form does not hear of, could be a
change of the document. The second alternative of the property (the editor shows the
form as it was loaded) is needed for arbitrary documents: a first replacement of a text
by itself tells the form nothing, so a form without a title stays without one while the
editor shows one. The second half, that no stand-in reaches the form, follows from
`KindsInvariant`: every block of the editor is an ordinary one or a stand-in that carries
the kind it stands for. No typing, direction or replacement changes a kind; replacing
every match folds over the matches of one block's text and so leaves the kinds alone.

Of the canvas, `NewestSceneReachesForm` and `NoImageIsLost` follow from `CanvasInvariance`. `SceneOrder`
says that generations of flushes are distinct and that the current one carries what was
last handed over; without it an old flush could be taken for the current one.
`SceneImages` accounts for every image on the canvas and in every flush under way:
in the files, unresolved, or dropped while unresolved.

**`ConfigProofs`**, about `Preferences`, `SyncPanel`, `Guidance` and `Plugins`.

* `PreferencesSurviveRestart`. Per state of a call, `PrefInvariant` says what the file
  gives back through both conversions and the validation (`GivesBack`), and which theme
  the events under way announce.
* `BackupsAreReal`. A claim of success in an answer under way, in the store or in
  localStorage means that the remote was reached.
* `OnlySeenHintsAreMarked`. A hint in a closing animation, or in a window's copy of the
  progress, was on the screen.
* `OnlyRunningPluginsContribute` and `RecoveredPluginsStayOff` follow from
  `PluginInvariance`. `RunInvariant` relates the registry and its cached answers to what
  is active, being set up or being disabled. `OffInvariant` says that what a recovery
  turned off is off in the file, in the window's copy and in everything a recovery is
  about to write, and that while a recovery is alone no other has a save under way.

Every inductive invariant was also checked by TLC, on the instance of the part's run or a
smaller one.

**Only model-checked.**

* `RecordedIsCommitted`, `CommitIsPublished`, `SavesSettle`: liveness; fairness and
  `ENABLED` are beyond the prover.
* `ReplaceAllReplaces` compares two recursive computations on texts, which needs induction
  over data.

## 9. What the models found

Each of the following is a run whose property states what a comment, test or document
of the repository says.

* `git_sync_no_upstream`: on a branch without an upstream, `GetAheadBehind` reports 0
  ahead, `retryPush` takes that for "nothing left to push" and clears `needsPush`; the
  commit stays local until the next edit (`sync_manager.go:595` against the comment at
  218).
* `git_sync_abort`: "your working tree is unchanged" after an aborted rebase
  (`git/service.go:481`) does not hold for a note saved while the rebase ran.
* `vault_phantom_change`: `Save` notes the hash after it has written the file; the
  timer of an earlier save may fire in between and report the save as external
  (`watcher.go:205` against the comments at 202 and 275).
* `vault_index_failure`: when indexing fails, `Save` deletes the file, also when it
  updated an existing document (`document/service.go:221` against `GUIDELINES.md:23`).
* `editor_lost_edit`: an edit made while a save is in flight. `doSave` resets the change
  flag before it awaits the new hash, which switches autosave off; when the save ends,
  the test for later edits (`useAutoSave.ts:145`) fails and the edit is shown as saved.
  It is written with the next edit, or never.
* `editor_blank_save`: a pane closed while its document loads counts as unsaved
  (`useDocumentController.ts:297`), so the default form is written over the document
  without an expected hash.

Things the models had to describe, or to except from a property, that are not runs of
their own:

* *Git.* An untracked file outside the synchronised paths strands a commit: `SyncNow`
  commits and its pull fails; the automatic cycle finds the vault "not clean" because of
  that file, `git commit` finds nothing to commit, and the cycle ends with its reasons
  cleared and `needsPush` not set (`sync_manager.go:358`). TLC finds it with `Stray =
  TRUE`; it is why `Configured` excludes such files.
* *Watcher.* A program that puts back a version whose hash the watcher has on record, while
  the index holds another one, is taken for an own write and not indexed
  (`watcher.go:205`; exception 6 of section 3).
* *Editor.* A quit is acknowledged while a save is in flight; a save without a current
  project counts as successful; after a reload from disk the rich editor shows the old
  blocks; the first hash is fetched after the load and may be that of a later version.
* *Drawing, text.* An image that never loaded, deleted and brought back, loses its
  reference (`dropped`); a change before the baseline frame, and a replacement in a
  read-only document, do not reach the form (`unreported`).
* *Panes, keyboard.* Opening in a pane and popstate pass the guard for unsaved errors;
  one Escape may act twice while the help modal is open; a `ConfirmDialog` mounted closed
  lowers the dialog counter.
* *Lists.* The highlighted row is an index into the unsorted list while the rows are
  shown sorted (`useDashboardController.ts:493`); a move that stops half-way is reported
  by no event (`movedUnheard`); "Delete permanently" on an archived project deletes
  nothing (`commandline/project.go:542`); any failed fetch drops a recent document.
* *Palette.* The registry keeps "New Document" and "New Canvas" when only the project
  changed, so they create in the previous project; document commands stay those of the
  previous document.
* *Journal, capture.* `AppendEntry` reads the clock twice, so an entry may be filed
  under one day and stamped with the next (`split`); text typed while a save is under
  way is cleared by its answer; the calendar's `setMonth` from day 31 skips a month.
* *Settings.* Overlapping calls are unordered, and changes are built from the copy of the
  last render, so one of two overlapping changes can be lost (`disturbed`, `raced`); the
  editor and general sections of the preferences are never sent to the backend.
* *Sync panel.* Without a remote, "no changes" is shown as "backed up"; a conflict of
  `SyncNow` arrives as an error, so the panel's recovery for it never shows.
* *Guidance.* Two windows write the whole progress, so counts of one are lost; resetting
  the welcome screen shows it at once and not "on next launch".
* *Plugins.* Two overlapping recoveries lose one flag (hence "a recovery that ran
  alone"); a cleanup function that throws ends the recovery.

## 10. What is not modelled

* In the modelled parts: wording of messages, commit message assembly, the content of
  backups, merges of text inside one file (a rebase either merges or conflicts), SQL,
  the FTS query language, corrupt files reported by the scan, several branches.
  `doc_tag`, `doc_link` and `doc_asset` rows are written in the transaction of the
  `doc` row and are not kept apart from it. A move is followed as the write to the
  path, not as the pair of paths. In the window: sizes, scroll positions, styling,
  ranking, fuzzy matching, and what BlockNote, ProseMirror and Excalidraw do inside.
* The composition of an `EditorSession` with `Vault`: the session has one register with
  compare-and-write for the file, which is what `OverwritesOnlyWhatItChecked` shows of
  `Vault`'s save.
* Sequential I/O of the backend: copying of backups, migration with its verification
  and rollback, unpacking of plugins, self update, PDF export, demo content. What can go
  wrong is a failure between two file operations, whose outcome depends on the file
  system more than on the code. The window's side of backup, migration, plugins and
  update is modelled.
* Races of the backend that no property excludes because the code does not exclude
  them: a project cache filled while the project is updated (`cache.go:34`), the event
  bus connecting while an event is emitted (`bus.go:56`), orphan clean-up of assets
  against a link being written (`asset/service.go:173`), expiry of an upload session
  against its last chunk (`chunked_upload.go:106`), a promotion that fails after its
  document was written (`journal/service.go:557`).
* Pure conversions on characters (Markdown, file format, slugs, command grammar), which
  the repository's table tests cover; platform calls (windows, tray, global hotkeys,
  graphics); logging; schema migrations, which a library runs once before anything
  else; visual components.

`PROJECT.json` lists every part with its status.

## 11. What could be proved next

* The composition of an `EditorSession` with a client of `Vault`: that a session's register
  with compare-and-write is implemented by `Save`, as a refinement.
* What replacing every match gives, with a prover that has induction over sequences.
