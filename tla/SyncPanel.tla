----------------------------- MODULE SyncPanel -----------------------------
(***************************************************************************)
(* Git sync as the window shows it: the sync store and the four ways to    *)
(* start a sync (shared/stores/sync.store.ts, settings/                    *)
(* useGitSyncSettings.ts, registry/commands/gitCommands.tsx, the hotkey    *)
(* and the menu), the status the settings panel reads and what it makes of *)
(* it (shared/hooks/useGitStatus.ts, settings/GitSyncSection.tsx), toasts  *)
(* and the queue of errors (shared/ui/Toast.tsx, shared/stores/            *)
(* errorDialog.store.ts, shared/utils/gitErrorParser.ts), and the move of  *)
(* the data to another directory (settings/useMigrationSettings.ts).  What *)
(* git itself does is GitSync's subject; here a command has an outcome.    *)
(*                                                                         *)
(*   tree       the data directory; origin: its remote was there from the  *)
(*              start; reached: its commits have been on the remote        *)
(*   lock       who holds the backend's git lock                           *)
(*   gitCalls   calls of this window: "sent", "running", then "answered"   *)
(*   sync       the store: inProgress, the last outcome, the last error    *)
(*   lastKept   the last outcome in localStorage                           *)
(*   syncPanel  the settings page: its status, and its migration form      *)
(*   toasts     on screen; errors: the queue of the error dialog           *)
(*   autoFails  the auto-sync manager's last reported failure              *)
(***************************************************************************)
EXTENDS Integers, Sequences, FiniteSets

CONSTANTS Targets,          \* directories data can be moved to
          NoTarget,
          MaxSyncSteps

VARIABLES tree, lock, gitCalls, sync, lastKept, pulling, syncPanel, toasts, errors, autoFails,
          exiting, syncSteps

syncVars == <<tree, lock, gitCalls, sync, lastKept, pulling, syncPanel, toasts, errors,
              autoFails, exiting, syncSteps>>

\* Closing a toast or filling in a field costs nothing while steps are left.
SyncTime == syncSteps < MaxSyncSteps /\ ~exiting

SyncStep == SyncTime /\ syncSteps' = syncSteps + 1

----------------------------------------------------------------------------
(* Errors are the marks their text contains.                               *)

NoError == {}

\* parseGitError: the first of its tests that succeeds.
GitErrorTests ==
    << <<{"GIT_NOT_ENABLED"}, "CONFIG">>, <<{"NOT_A_REPO"}, "CONFIG">>,
       <<{"REBASE_CONFLICT"}, "CONFLICT">>, <<{"MERGE_CONFLICT"}, "CONFLICT">>,
       <<{"DIVERGED_BRANCHES"}, "CONFLICT">>,
       <<{"PUSH_REJECTED", "non-fast-forward"}, "SYNC">>,
       <<{"UNRELATED_HISTORIES", "unrelated histories"}, "CONFIG">>,
       <<{"PUSH_FAILED", "Connection", "timed out"}, "NETWORK">>,
       <<{"nothing to commit"}, "INFO">>, <<{"up to date"}, "INFO">> >>

ParseGitError(e) ==
    LET hit == {i \in DOMAIN GitErrorTests : GitErrorTests[i][1] \cap e # {}}
    IN  IF hit = {} THEN "UNKNOWN"
        ELSE GitErrorTests[CHOOSE i \in hit : \A j \in hit : i <= j][2]

ParseAppError(e) ==
    [type |-> IF ParseGitError(e) = "UNKNOWN" THEN "ERROR" ELSE ParseGitError(e),
     details |-> e]

\* An error equal to the last one waiting is not queued again.
ShowError(e) ==
    errors' = IF errors # <<>> /\ errors[Len(errors)].details = e THEN errors
              ELSE Append(errors, ParseAppError(e))

DismissError ==
    /\ SyncTime /\ errors # <<>> /\ errors' = Tail(errors)
    /\ UNCHANGED <<tree, lock, gitCalls, sync, lastKept, pulling, syncPanel, toasts, autoFails,
                   exiting, syncSteps>>

----------------------------------------------------------------------------
(* Toasts.  0 is the fixed id of the "Syncing" toast, which stays until it *)
(* is dismissed; the others are numbered afresh and time out.              *)

Shown(ts, id, kind) ==
    IF \E i \in DOMAIN ts : ts[i] = [id |-> id, kind |-> kind] THEN ts
    ELSE Append(SelectSeq(ts, LAMBDA t : t.id # id), [id |-> id, kind |-> kind])

Dismissed(ts, id) == SelectSeq(ts, LAMBDA t : t.id # id)

Fresh(ts) == CHOOSE n \in 1..(Len(ts) + 1) : \A i \in DOMAIN ts : ts[i].id # n

\* Also the user's: the close button is on the "Syncing" toast as well.
ToastGone(id) ==
    /\ SyncTime /\ \E i \in DOMAIN toasts : toasts[i].id = id
    /\ toasts' = Dismissed(toasts, id)
    /\ UNCHANGED <<tree, lock, gitCalls, sync, lastKept, pulling, syncPanel, errors, autoFails,
                   exiting, syncSteps>>

----------------------------------------------------------------------------
(* Calls to the backend.                                                   *)

\* page: the mount of the settings page that asked.
Request(op, by, arg) == [n |-> syncSteps + 1, op |-> op, by |-> by, arg |-> arg,
                         page |-> syncPanel.mount, phase |-> "sent", result |-> "none",
                         err |-> NoError]

\* The page that asked is still there.
Asked(c) == syncPanel.open /\ c.page = syncPanel.mount

Answered(c, result, err) ==
    gitCalls' = (gitCalls \ {c}) \cup
                {[c EXCEPT !.phase = "answered", !.result = result, !.err = err]}

Locking == {"sync", "push", "pull", "migrate"}

\* beginGitOperation
Begin(c) ==
    /\ c.phase = "sent" /\ c.op \in Locking /\ ~exiting
    /\ IF lock = "free"
       THEN /\ lock' = c.op
            /\ gitCalls' = (gitCalls \ {c}) \cup {[c EXCEPT !.phase = "running"]}
       ELSE Answered(c, "none", {"GIT_OPERATION_IN_PROGRESS"}) /\ UNCHANGED lock
    /\ UNCHANGED <<tree, sync, lastKept, pulling, syncPanel, toasts, errors, autoFails, exiting,
                   syncSteps>>

Committed(t) == [t EXCEPT !.dirty = FALSE, !.ahead = t.remote /\ (t.ahead \/ t.dirty)]

\* What SyncNow can come to.  A conflict or a failed push is a result and an
\* error in the backend; of the two the window gets the error.
SyncOutcomes(t) ==
    CASE ~t.repo -> {<<t, "none", {"NOT_A_REPO"}>>}
      [] t.repo /\ t.conflicted -> {<<t, "none", {"IN_PROGRESS"}>>}
      [] t.repo /\ ~t.conflicted /\ ~t.remote ->
            {<<Committed(t), IF t.dirty THEN "committed" ELSE "no_changes", NoError>>,
             <<t, "none", {"COMMIT_FAILED"}>>}
      [] OTHER ->
            {<<t, "none", {"COMMIT_FAILED"}>>,
             <<[Committed(t) EXCEPT !.ahead = FALSE, !.reached = TRUE],
               IF t.dirty THEN "synced" ELSE "up_to_date", NoError>>,
             <<Committed(t), "none", {"SYNC_FAILED", "timed out"}>>,
             <<Committed(t), "none", {"PUSH_FAILED"}>>}
            \cup (IF t.ahead \/ t.dirty
                  THEN {<<Committed(t), "none", {"REBASE_CONFLICT"}>>} ELSE {})

PushOutcomes(t) ==
    IF ~t.repo THEN {<<t, "none", {"NOT_A_REPO"}>>}
    ELSE {<<t, "none", {"PUSH_FAILED"}>>, <<t, "none", {"PUSH_REJECTED"}>>}
         \cup (IF t.remote THEN {<<[t EXCEPT !.ahead = FALSE, !.reached = TRUE],
                                 "ok", NoError>>} ELSE {})

PullOutcomes(t) ==
    IF ~t.repo THEN {<<t, "none", {"NOT_A_REPO"}>>}
    ELSE {<<t, "none", {"timed out"}>>}
         \cup (IF t.remote THEN {<<t, "ok", NoError>>} ELSE {})
         \cup (IF t.remote /\ t.ahead THEN {<<t, "none", {"REBASE_CONFLICT"}>>} ELSE {})

\* A migration that succeeds has the app exit; one that fails after the
\* database is closed as well.
MigrateOutcomes(t) == {<<t, "ok", NoError>>, <<t, "none", {"MIGRATION"}>>,
                       <<t, "exit", {"NEEDS_RESTART"}>>}

Outcomes(op, t) == CASE op = "sync" -> SyncOutcomes(t)
                     [] op = "push" -> PushOutcomes(t)
                     [] op = "pull" -> PullOutcomes(t)
                     [] op = "migrate" -> MigrateOutcomes(t)

Finish(c) ==
    /\ c.phase = "running" /\ ~exiting
    /\ \E o \in Outcomes(c.op, tree) :
          /\ tree' = o[1]
          /\ Answered(c, o[2], o[3])
          /\ exiting' = (c.op = "migrate" /\ o[2] \in {"ok", "exit"})
    /\ lock' = "free"
    /\ UNCHANGED <<sync, lastKept, pulling, syncPanel, toasts, errors, autoFails, syncSteps>>

----------------------------------------------------------------------------
(* Sync now.  SyncToast's effect follows inProgress.                       *)

Ways == {"hotkey", "menu", "palette", "settings"}

NotInProgress == ~sync.inProgress

SyncNow(by) ==
    /\ SyncStep
    /\ by = "settings" => syncPanel.open /\ ~syncPanel.dialog
    /\ IF NotInProgress
       THEN /\ sync' = [sync EXCEPT !.inProgress = TRUE]
            /\ gitCalls' = gitCalls \cup {Request("sync", by, NoTarget)}
            /\ toasts' = Shown(toasts, 0, "info")
       ELSE /\ toasts' = IF by \in {"palette", "settings"}
                         THEN Shown(toasts, Fresh(toasts), "info") ELSE toasts
            /\ UNCHANGED <<sync, gitCalls>>
    /\ UNCHANGED <<tree, lock, lastKept, pulling, syncPanel, errors, autoFails, exiting>>

NoticeOf(result) == IF result \in {"committed", "synced"} THEN "success" ELSE "info"

\* The store's outcome, then the caller's notice.  A sync started from the
\* settings reads the status next.
SyncAnswered(c) ==
    LET outcome == IF c.err = NoError THEN c.result ELSE "error"
        told == c.by \in {"palette", "settings"}
        gone == Dismissed(toasts, 0)
    IN  /\ c.op = "sync" /\ c.phase = "answered" /\ ~exiting
        /\ sync' = [inProgress |-> FALSE, last |-> outcome, error |-> c.err]
        /\ lastKept' = outcome
        /\ toasts' = IF told /\ c.err = NoError
                     THEN Shown(gone, Fresh(gone), NoticeOf(c.result)) ELSE gone
        /\ IF told /\ c.err # NoError THEN ShowError(c.err) ELSE UNCHANGED errors
        /\ gitCalls' = (gitCalls \ {c}) \cup
                       (IF c.by = "settings"
                        THEN {[c EXCEPT !.op = "status", !.phase = "sent", !.err = NoError]}
                        ELSE {})
        /\ syncPanel' = IF c.by = "settings" /\ Asked(c)
                    THEN [syncPanel EXCEPT !.loading = TRUE, !.failed = FALSE] ELSE syncPanel
        /\ UNCHANGED <<tree, lock, pulling, autoFails, exiting, syncSteps>>

\* Git Push and Git Pull from the palette; only the pull has a guard.
Push ==
    /\ SyncStep
    /\ gitCalls' = gitCalls \cup {Request("push", "palette", NoTarget)}
    /\ UNCHANGED <<tree, lock, sync, lastKept, pulling, syncPanel, toasts, errors, autoFails,
                   exiting>>

Pull ==
    /\ SyncStep
    /\ IF pulling
       THEN toasts' = Shown(toasts, Fresh(toasts), "info") /\ UNCHANGED <<gitCalls, pulling>>
       ELSE /\ pulling' = TRUE
            /\ gitCalls' = gitCalls \cup {Request("pull", "palette", NoTarget)}
            /\ UNCHANGED toasts
    /\ UNCHANGED <<tree, lock, sync, lastKept, syncPanel, errors, autoFails, exiting>>

GitCommandAnswered(c) ==
    /\ c.op \in {"push", "pull"} /\ c.phase = "answered" /\ ~exiting
    /\ gitCalls' = gitCalls \ {c}
    /\ pulling' = (pulling /\ c.op # "pull")
    /\ IF c.err = NoError
       THEN toasts' = Shown(toasts, Fresh(toasts), "success") /\ UNCHANGED errors
       ELSE ShowError(c.err) /\ UNCHANGED toasts
    /\ UNCHANGED <<tree, lock, sync, lastKept, syncPanel, autoFails, exiting, syncSteps>>

----------------------------------------------------------------------------
(* The background sync: under the same lock, told only when it starts to   *)
(* fail and when it recovers (git/sync_manager.go notify).                 *)

\* Whether changes are recorded and the interval has passed is left open.
AutoBegin ==
    /\ SyncStep /\ lock = "free"
    /\ lock' = "auto"
    /\ UNCHANGED <<tree, gitCalls, sync, lastKept, pulling, syncPanel, toasts, errors, autoFails,
                   exiting>>

\* The tree and the failure key ("" when healthy, here "none").
AutoOutcomes(t) ==
    CASE ~t.repo -> {<<t, "error: not a repo">>}
      [] t.repo /\ t.conflicted -> {<<t, "conflict">>}
      [] OTHER ->
            {<<t, "error: commit failed">>, <<Committed(t), "none">>}
            \cup (IF ~t.remote THEN {}
                  ELSE {<<[Committed(t) EXCEPT !.ahead = FALSE, !.reached = TRUE], "none">>,
                        <<Committed(t), "push_failed">>, <<Committed(t), "conflict">>})

\* useBackendToast: an error of the background is a warning toast.
BackendToast(kind) ==
    /\ toasts' = Shown(toasts, Fresh(toasts), IF kind = "error" THEN "warning" ELSE kind)
    /\ sync' = CASE kind = "error" -> [sync EXCEPT !.error = {"auto"}]
                 [] kind = "success" -> [sync EXCEPT !.error = NoError]
                 [] OTHER -> sync

AutoEnd ==
    /\ lock = "auto" /\ lock' = "free" /\ ~exiting
    /\ \E o \in AutoOutcomes(tree) :
          /\ tree' = o[1]
          /\ autoFails' = o[2]
          /\ IF autoFails' = autoFails THEN UNCHANGED <<toasts, sync>>
             ELSE BackendToast(CASE o[2] = "none" -> "success"
                                 [] o[2] = "push_failed" -> "warning"
                                 [] OTHER -> "error")
    /\ UNCHANGED <<gitCalls, lastKept, pulling, syncPanel, errors, exiting, syncSteps>>

\* Notes are written, or a remote is added, outside.
TreeChanges ==
    /\ SyncStep
    /\ tree' \in {[tree EXCEPT !.dirty = TRUE], [tree EXCEPT !.conflicted = ~@],
                  [tree EXCEPT !.repo = TRUE, !.remote = TRUE]}
    /\ tree' # tree
    /\ UNCHANGED <<lock, gitCalls, sync, lastKept, pulling, syncPanel, toasts, errors, autoFails,
                   exiting>>

----------------------------------------------------------------------------
(* The panel's status.                                                     *)

NoStatus == [known |-> FALSE]

\* GetGitStatus, and parseGitStatus's defaults for what it leaves out.
StatusOf(t) == IF ~t.repo
               THEN [known |-> TRUE, repo |-> FALSE, pending |-> FALSE, ahead |-> FALSE,
                     conflicted |-> FALSE]
               ELSE [known |-> TRUE, repo |-> TRUE, pending |-> t.dirty,
                     ahead |-> t.remote /\ t.ahead, conflicted |-> t.conflicted]

\* Mutant: a clean tree is taken for a backup.
CleanIsBackedUp(status, last, autoPush) ==
    IF ~status.known THEN "checking" ELSE IF status.conflicted THEN "conflict"
    ELSE IF status.pending THEN "pending" ELSE IF status.ahead THEN "unpushed"
    ELSE IF autoPush THEN "backed up" ELSE "committed"

DeriveHealth(status, last, autoPush) ==
    CASE ~status.known -> "checking"
      [] status.known /\ (status.conflicted \/ last = "conflict") -> "conflict"
      [] status.known /\ ~status.conflicted /\ last \in {"error", "push_failed"} -> "unfinished"
      [] OTHER -> IF status.pending THEN "pending"
                  ELSE IF status.ahead THEN "unpushed"
                  ELSE IF autoPush /\ last \in {"synced", "up_to_date", "no_changes"}
                       THEN "backed up"
                       ELSE "committed"

\* What SyncHealth puts in the panel.
PanelShows ==
    [box |-> CASE syncPanel.status.known /\ ~syncPanel.status.repo -> "setup"
               [] ~syncPanel.status.known /\ ~syncPanel.loading /\ syncPanel.failed -> "unreadable"
               [] OTHER -> DeriveHealth(syncPanel.status, sync.last, TRUE),
     recovery |-> syncPanel.status.known /\ syncPanel.status.repo
                  /\ (syncPanel.status.conflicted \/ sync.last = "conflict")]

PanelClosed == [open |-> FALSE, mount |-> 0, status |-> NoStatus, loading |-> FALSE, failed |-> FALSE,
           target |-> NoTarget, migrating |-> FALSE, confirm |-> FALSE, dialog |-> FALSE,
           strategy |-> 1]

\* On mount, by the poll, and by the button, which waits for an answer.
ReadStatus(by) ==
    /\ SyncStep
    /\ CASE by = "mount" -> ~syncPanel.open
         [] by = "poll" -> syncPanel.open
         [] by = "button" -> syncPanel.open /\ ~syncPanel.loading /\ ~syncPanel.dialog
    /\ syncPanel' = [syncPanel EXCEPT !.open = TRUE, !.loading = TRUE, !.failed = FALSE,
                              !.mount = IF by = "mount" THEN syncSteps + 1 ELSE @]
    /\ gitCalls' = gitCalls \cup
                   {[Request("status", "settings", NoTarget) EXCEPT !.page = syncPanel'.mount]}
    /\ UNCHANGED <<tree, lock, sync, lastKept, pulling, toasts, errors, autoFails, exiting>>

\* GetGitStatus takes no lock.
StatusServed(c, ok) ==
    /\ c.op = "status" /\ c.phase = "sent" /\ ~exiting
    /\ gitCalls' = (gitCalls \ {c}) \cup
          {[c EXCEPT !.phase = "answered", !.arg = StatusOf(tree),
                     !.err = IF ok THEN NoError ELSE {"status"}]}
    /\ UNCHANGED <<tree, lock, sync, lastKept, pulling, syncPanel, toasts, errors, autoFails,
                   exiting, syncSteps>>

\* The page that asked may be gone; answers are taken in the order they come.
StatusAnswered(c) ==
    /\ c.op = "status" /\ c.phase = "answered" /\ ~exiting
    /\ gitCalls' = gitCalls \ {c}
    /\ syncPanel' = IF ~Asked(c) THEN syncPanel
                ELSE [syncPanel EXCEPT !.loading = FALSE, !.failed = c.err # NoError,
                                   !.status = IF c.err = NoError THEN c.arg ELSE NoStatus]
    /\ UNCHANGED <<tree, lock, sync, lastKept, pulling, toasts, errors, autoFails, exiting,
                   syncSteps>>

\* Leaving drops the page's state; what it asked for goes on.
LeaveSettings ==
    /\ SyncStep /\ syncPanel.open /\ ~syncPanel.dialog /\ ~syncPanel.confirm
    /\ syncPanel' = PanelClosed
    /\ UNCHANGED <<tree, lock, gitCalls, sync, lastKept, pulling, toasts, errors, autoFails,
                   exiting>>

----------------------------------------------------------------------------
(* Moving the data: the target, a confirmation, validate, check, and the   *)
(* choice of a strategy if the target holds a vault.                       *)

Strategies == <<"use_remote", "use_local", "merge_both">>

MigrationDisabled == syncPanel.migrating

FormFree == syncPanel.open /\ ~syncPanel.dialog /\ ~syncPanel.confirm /\ ~MigrationDisabled

OnlyPanel(p) ==
    /\ syncPanel' = p
    /\ UNCHANGED <<tree, lock, gitCalls, sync, lastKept, pulling, toasts, errors, autoFails,
                   exiting, syncSteps>>

SetTarget(d) == SyncTime /\ FormFree /\ syncPanel.target # d
                /\ OnlyPanel([syncPanel EXCEPT !.target = d])

\* The answer of the picker is taken whenever it comes.
PickDirectory ==
    /\ SyncStep /\ FormFree
    /\ gitCalls' = gitCalls \cup {Request("pick", "settings", NoTarget)}
    /\ UNCHANGED <<tree, lock, sync, lastKept, pulling, syncPanel, toasts, errors, autoFails,
                   exiting>>

Picked(c, d) ==
    /\ c.op = "pick" /\ ~exiting
    /\ gitCalls' = gitCalls \ {c}
    /\ syncPanel' = IF Asked(c) /\ d # NoTarget THEN [syncPanel EXCEPT !.target = d] ELSE syncPanel
    /\ UNCHANGED <<tree, lock, sync, lastKept, pulling, toasts, errors, autoFails, exiting,
                   syncSteps>>

ConfirmMigration(yes) ==
    /\ SyncTime /\ syncPanel.open /\ syncPanel.target # NoTarget
    /\ IF ~syncPanel.confirm
       THEN FormFree /\ yes /\ OnlyPanel([syncPanel EXCEPT !.confirm = TRUE])
       ELSE IF ~yes THEN OnlyPanel([syncPanel EXCEPT !.confirm = FALSE])
       ELSE /\ SyncStep
            /\ syncPanel' = [syncPanel EXCEPT !.confirm = FALSE, !.migrating = TRUE]
            /\ gitCalls' = gitCalls \cup {Request("validate", "settings", syncPanel.target)}
            /\ UNCHANGED <<tree, lock, sync, lastKept, pulling, toasts, errors, autoFails,
                           exiting>>

\* ValidateMigrationTarget and CheckMigrationConflicts only read; a target
\* may hold a vault already.
Inspected(c, ok) ==
    /\ c.op \in {"validate", "check"} /\ c.phase = "sent" /\ ~exiting
    /\ \E found \in (IF c.op = "check" /\ ok THEN {"ok", "occupied"} ELSE {"ok"}) :
          Answered(c, found, IF ok THEN NoError ELSE {"MIGRATION"})
    /\ UNCHANGED <<tree, lock, sync, lastKept, pulling, syncPanel, toasts, errors, autoFails,
                   exiting, syncSteps>>

\* The handler goes on after the page is left: with the next call, or by
\* asking nobody which strategy to use.
MigrationGoesOn(c) ==
    /\ c.op \in {"validate", "check", "migrate"} /\ c.phase = "answered" /\ ~exiting
    /\ LET next(op) == {[c EXCEPT !.op = op, !.phase = "sent"]}
           failed == c.err # NoError
           asks == ~failed /\ c.result = "occupied"
       IN  /\ gitCalls' = (gitCalls \ {c}) \cup
                          (IF failed \/ asks THEN {}
                           ELSE IF c.op = "validate" THEN next("check") ELSE next("migrate"))
           /\ syncPanel' = IF Asked(c)
                       THEN [syncPanel EXCEPT !.migrating = ~failed /\ ~asks,
                                          !.dialog = asks, !.strategy = 1]
                       ELSE syncPanel
           /\ IF failed THEN ShowError(c.err) ELSE UNCHANGED errors
    /\ UNCHANGED <<tree, lock, sync, lastKept, pulling, toasts, autoFails, exiting, syncSteps>>

\* handleStrategyKeyDown, or a click.
ChooseStrategy(s) == SyncTime /\ syncPanel.dialog /\ syncPanel.strategy # s
                     /\ OnlyPanel([syncPanel EXCEPT !.strategy = s])

\* The target is the one in the form now.
ResolveConflict ==
    /\ SyncStep /\ syncPanel.dialog
    /\ syncPanel' = [syncPanel EXCEPT !.dialog = FALSE, !.migrating = TRUE]
    /\ gitCalls' = gitCalls \cup {Request("migrate", Strategies[syncPanel.strategy], syncPanel.target)}
    /\ UNCHANGED <<tree, lock, sync, lastKept, pulling, toasts, errors, autoFails, exiting>>

CancelConflict == SyncTime /\ syncPanel.dialog /\ OnlyPanel([syncPanel EXCEPT !.dialog = FALSE])

\* CrashBoundary reloads the window: the store starts from localStorage, and
\* what the backend is doing has nobody to answer to.
ReloadWindow ==
    /\ SyncStep
    /\ sync' = [inProgress |-> FALSE, last |-> lastKept, error |-> NoError]
    /\ gitCalls' = {[c EXCEPT !.by = "gone"] :
                      c \in {d \in gitCalls : d.op \in Locking /\ d.phase # "answered"}}
    /\ pulling' = FALSE /\ syncPanel' = PanelClosed /\ toasts' = <<>> /\ errors' = <<>>
    /\ UNCHANGED <<tree, lock, lastKept, autoFails, exiting>>

----------------------------------------------------------------------------
SyncInit ==
    /\ \E remote \in BOOLEAN, repo \in BOOLEAN :
          tree = [repo |-> repo, remote |-> remote /\ repo, dirty |-> FALSE, ahead |-> FALSE,
                  conflicted |-> FALSE, origin |-> remote /\ repo, reached |-> FALSE]
    /\ lock = "free" /\ gitCalls = {} /\ pulling = FALSE
    /\ lastKept = "none" /\ sync = [inProgress |-> FALSE, last |-> "none", error |-> NoError]
    /\ syncPanel = PanelClosed /\ toasts = <<>> /\ errors = <<>> /\ autoFails = "none"
    /\ exiting = FALSE /\ syncSteps = 0

SyncNext ==
    \/ \E by \in Ways : SyncNow(by)
    \/ \E c \in gitCalls :
          \/ Begin(c) \/ Finish(c)
          \/ c.by # "gone" /\ (SyncAnswered(c) \/ GitCommandAnswered(c) \/ MigrationGoesOn(c))
          \/ \E ok \in BOOLEAN : StatusServed(c, ok) \/ Inspected(c, ok)
          \/ StatusAnswered(c)
          \/ \E d \in Targets \cup {NoTarget} : Picked(c, d)
    \/ Push \/ Pull \/ AutoBegin \/ AutoEnd \/ TreeChanges
    \/ \E by \in {"mount", "poll", "button"} : ReadStatus(by)
    \/ DismissError \/ \E id \in 0..Len(toasts) : ToastGone(id)
    \/ LeaveSettings \/ ReloadWindow
    \/ \E d \in Targets : SetTarget(d)
    \/ PickDirectory
    \/ \E yes \in BOOLEAN : ConfirmMigration(yes)
    \/ \E s \in DOMAIN Strategies : ChooseStrategy(s)
    \/ ResolveConflict \/ CancelConflict

SyncSpec == SyncInit /\ [][SyncNext]_syncVars

----------------------------------------------------------------------------
(* GitSyncSection.tsx:93: "Backed up" is only claimed after a confirmed    *)
(* remote sync.  Where the remote was there from the start, the panel says *)
(* so only when a sync, or a push, has reached it, across failed and       *)
(* refused syncs, late statuses and a reload of the window.  (Without a    *)
(* remote "no_changes" is taken for one.)                                  *)
BackedUpReachedRemote ==
    syncPanel.open /\ PanelShows.box = "backed up" /\ tree.origin => tree.reached

=============================================================================
