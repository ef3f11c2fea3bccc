------------------------------ MODULE GitSync ------------------------------
(***************************************************************************)
(* Automatic and manual git synchronisation: the SyncManager of            *)
(* internal/git/sync_manager.go, the OperationLock it shares with the      *)
(* manual operations of internal/system/service.go (SyncNow, GitPush,      *)
(* GitPull), and the application's start and stop as far as they touch     *)
(* them.  A goroutine runs one git command per step; edits, notifications, *)
(* other devices and crashes interleave between the steps.                 *)
(***************************************************************************)
EXTENDS GitRepo, Sequences

CONSTANTS
    Callers,        \* goroutines that run manual operations
    Ticker,         \* the goroutine of SyncManager.runLoop
    NoHolder        \* the OperationLock is free

ASSUME ProcAssumption ==
    /\ Ticker \notin Callers
    /\ NoHolder \notin Callers \cup {Ticker}

\* Reasons that do not stand for one edit: "startup: ..." of ReconcileOnStartup
\* and "indexed ..." of a vault scan or of the reindex after a pull.
Marker == "indexed"

ASSUME MarkerAssumption == Marker \notin Edits

Procs == Callers \cup {Ticker}

VARIABLES
    app,            \* "up", "closing" (Shutdown has run) or "down"
    cfg,            \* GitSyncConfig: autoCommit stands for Enabled && AutoCommit
    unnotified,     \* edits written whose NotifyChange call has not run yet
    reasons,        \* SyncManager.reasons
    needsPush,      \* SyncManager.needsPush
    failureKey,     \* SyncManager.lastFailureKey ("" is "healthy" here)
    intervalPassed, \* time.Since(lastCommitTime) >= CommitInterval
    reconcile,      \* the startup goroutine has not run ReconcileOnStartup yet
    lock,           \* OperationLock.holder
    pc,             \* next step of each goroutine
    consumed,       \* len(reasons) of the snapshot a sync cycle works on
    willPush,       \* gitCfg.AutoPush && hasRemote as read by the cycle
    moved,          \* the pull of a manual operation brought in remote commits
    result,         \* SyncStatus of the cycle that is about to finish
    recorded        \* history: edits whose NotifyChange was accepted in this session

managerVars == <<unnotified, reasons, needsPush, failureKey, intervalPassed, recorded>>
localVars == <<consumed, willPush, moved, result>>
vars == <<repoVars, managerVars, localVars, app, cfg, reconcile, lock, pc>>

Reasons == Edits \cup {Marker}

Statuses == {"no_changes", "committed", "synced", "push_failed", "conflict", "error"}

AutoSteps == {"sync", "add", "status", "commit", "push", "pull", "rebase",
              "push2", "reindex", "retry"}
ManualSteps == {"mAdd", "mStatus", "mCommit", "mPull", "mRebase", "mPush",
                "gPull", "gRebase", "gPush", "mReindex"}
Rebasing == {"rebase", "mRebase", "gRebase"}
Steps == {"idle"} \cup AutoSteps \cup ManualSteps

ManagerTypeOK ==
    /\ app \in {"up", "closing", "down"}
    /\ cfg \in [autoCommit : BOOLEAN, autoPush : BOOLEAN]
    /\ unnotified \in SUBSET Edits
    /\ reasons \in Seq(Reasons)
    /\ needsPush \in BOOLEAN
    /\ failureKey \in {"healthy", "conflict", "push_failed", "error"}
    /\ intervalPassed \in BOOLEAN
    /\ reconcile \in BOOLEAN
    /\ recorded \in SUBSET Edits

ProcTypeOK ==
    /\ lock \in Procs \cup {NoHolder}
    /\ pc \in [Procs -> Steps]
    /\ consumed \in [Procs -> Nat]
    /\ willPush \in [Procs -> BOOLEAN]
    /\ moved \in [Procs -> BOOLEAN]
    /\ result \in [Procs -> Statuses]

TypeOK == RepoTypeOK /\ ManagerTypeOK /\ ProcTypeOK

Init ==
    /\ RepoInit
    /\ app = "up"
    /\ cfg = [autoCommit |-> TRUE, autoPush |-> TRUE]
    /\ unnotified = {}
    /\ reasons = <<>>
    /\ needsPush = FALSE
    /\ failureKey = "healthy"
    /\ intervalPassed = TRUE
    /\ reconcile = TRUE
    /\ lock = NoHolder
    /\ pc = [p \in Procs |-> "idle"]
    /\ consumed = [p \in Procs |-> 0]
    /\ willPush = [p \in Procs |-> FALSE]
    /\ moved = [p \in Procs |-> FALSE]
    /\ result = [p \in Procs |-> "no_changes"]
    /\ recorded = {}

----------------------------------------------------------------------------
(* OperationLock and program counters. *)

\* MUTANT of TryAcquire: the holder is not looked at.
TryAcquireUnchecked(p) == lock' = p

TryAcquire(p) ==
    /\ lock = NoHolder
    /\ lock' = p

Release == lock' = NoHolder

Goto(p, from, to) ==
    /\ pc[p] = from
    /\ pc' = [pc EXCEPT ![p] = to]

\* The local variables of a handler go out of scope when it returns.
DropLocals(p) ==
    /\ consumed' = [consumed EXCEPT ![p] = 0]
    /\ willPush' = [willPush EXCEPT ![p] = FALSE]
    /\ moved' = [moved EXCEPT ![p] = FALSE]
    /\ result' = [result EXCEPT ![p] = "no_changes"]

\* A step inside an operation that keeps the lock and leaves the manager alone.
Within == UNCHANGED <<managerVars, app, cfg, reconcile, lock>>

----------------------------------------------------------------------------
(* SyncManager: notifications and bookkeeping. *)

\* reasons after NotifyChange(r)
Notified(r) ==
    IF app = "up" /\ cfg.autoCommit THEN Append(reasons, r) ELSE reasons

\* MUTANT of ClearPendingState: the whole queue is dropped.
ClearPendingStateAll(n) == <<>>

\* reasons after clearPendingState(n, _): the first n are dropped
ClearPendingState(n) ==
    IF n >= Len(reasons) THEN <<>> ELSE SubSeq(reasons, n + 1, Len(reasons))

\* MUTANT of FailureKey: healthy outcomes keep their own name.
FailureKeyRaw(st) == st

\* failureKey
FailureKey(st) ==
    IF st \in {"conflict", "push_failed", "error"} THEN st ELSE "healthy"

\* A service writes a note: document save, journal entry, tag or asset change.
SaveNote(e) ==
    /\ app # "down"
    /\ WriteNote(e)
    /\ unnotified' = unnotified \cup {e}
    /\ UNCHANGED <<reasons, needsPush, failureKey, intervalPassed, recorded,
                   localVars, app, cfg, reconcile, lock, pc>>

\* The NotifyChange call that follows the write.
NotifyChange(e) ==
    /\ app # "down"
    /\ e \in unnotified
    /\ unnotified' = unnotified \ {e}
    /\ reasons' = Notified(e)
    /\ recorded' = IF app = "up" /\ cfg.autoCommit THEN recorded \cup {e} ELSE recorded
    /\ UNCHANGED <<repoVars, needsPush, failureKey, intervalPassed,
                   localVars, app, cfg, reconcile, lock, pc>>

----------------------------------------------------------------------------
(* SyncManager: one automatic cycle. *)

\* performSync, retryPush and their caller return: notify, then release.
Finish(p, st) ==
    /\ failureKey' = FailureKey(st)
    /\ pc' = [pc EXCEPT ![p] = "idle"]
    /\ Release
    /\ DropLocals(p)
    /\ UNCHANGED <<unnotified, recorded, app, cfg, reconcile>>

\* ... with an outcome that leaves reasons, needsPush and the clock alone
FinishUnchanged(p, st) ==
    /\ Finish(p, st)
    /\ UNCHANGED <<reasons, needsPush, intervalPassed>>

\* MUTANT of SyncDue: only pending changes start a cycle.
SyncDuePending == cfg.autoCommit /\ intervalPassed /\ reasons # <<>>

\* The checks checkAndSync makes, with the lock already in its hands.
SyncDue == cfg.autoCommit /\ intervalPassed /\ (reasons # <<>> \/ needsPush)

\* checkAndSync.  A tick that finds the lock taken or no sync due changes
\* nothing and is not a step.
Tick ==
    /\ app = "up"
    /\ SyncDue
    /\ TryAcquire(Ticker)
    /\ Goto(Ticker, "idle", IF reasons # <<>> THEN "sync" ELSE "retry")
    /\ consumed' = [consumed EXCEPT ![Ticker] = Len(reasons)]
    /\ UNCHANGED <<repoVars, managerVars, willPush, moved, result, app, cfg, reconcile>>

\* ForceSync: the same cycle without the configuration and interval checks.
ForceSync(c) ==
    /\ app # "down"
    /\ reasons # <<>>
    /\ Event("manual")
    /\ TryAcquire(c)
    /\ Goto(c, "idle", "sync")
    /\ consumed' = [consumed EXCEPT ![c] = Len(reasons)]
    /\ UNCHANGED <<managerVars, willPush, moved, result, app, cfg, reconcile>>

\* performSync up to the pre-sync backup and SelfHeal (both best-effort).
PerformSyncBegin(p) ==
    \/ /\ gitOp = "none"
       /\ Goto(p, "sync", "add")
       /\ \/ /\ Fetch \/ CommandFails("fetch")
             /\ willPush' = [willPush EXCEPT ![p] = cfg.autoPush]
          \/ /\ CommandFails("remote")
             /\ willPush' = [willPush EXCEPT ![p] = FALSE]
       /\ Within
       /\ UNCHANGED <<consumed, moved, result>>
    \/ /\ pc[p] = "sync"
       /\ gitOp # "none"
       /\ FinishUnchanged(p, "conflict")
       /\ UNCHANGED repoVars

PerformSyncAdd(p) ==
    \/ /\ Goto(p, "add", "status")
       /\ Add
       /\ Within
       /\ UNCHANGED localVars
    \/ /\ pc[p] = "add"
       /\ CommandFails("add")
       /\ FinishUnchanged(p, "error")

PerformSyncStatus(p) ==
    \/ /\ Clean /\ willPush[p] /\ HasUnpushedCommits
       /\ Goto(p, "status", "push")
       /\ reasons' = ClearPendingState(consumed[p])
       /\ UNCHANGED <<repoVars, localVars, unnotified, needsPush, failureKey,
                      intervalPassed, recorded, app, cfg, reconcile, lock>>
    \/ /\ pc[p] = "status"
       /\ Clean
       /\ \/ ~(willPush[p] /\ HasUnpushedCommits) /\ UNCHANGED repoVars
          \/ willPush[p] /\ CommandFails("remote")
       /\ reasons' = ClearPendingState(consumed[p])
       /\ needsPush' = FALSE
       /\ Finish(p, "no_changes")
       /\ UNCHANGED intervalPassed
    \/ /\ ~Clean
       /\ Goto(p, "status", "commit")
       /\ Within
       /\ UNCHANGED <<repoVars, localVars>>
    \/ /\ pc[p] = "status"
       /\ CommandFails("status")
       /\ FinishUnchanged(p, "error")

PerformSyncCommit(p) ==
    \/ /\ willPush[p]
       /\ Goto(p, "commit", "push")
       /\ Commit
       /\ reasons' = ClearPendingState(consumed[p])
       /\ intervalPassed' = FALSE
       /\ UNCHANGED <<localVars, unnotified, needsPush, failureKey, recorded,
                      app, cfg, reconcile, lock>>
    \/ /\ pc[p] = "commit"
       /\ ~willPush[p]
       /\ Commit
       /\ reasons' = ClearPendingState(consumed[p])
       /\ intervalPassed' = FALSE
       /\ Finish(p, "committed")
       /\ UNCHANGED needsPush
    \/ /\ pc[p] = "commit"
       /\ CommitNothing
       /\ reasons' = ClearPendingState(consumed[p])
       /\ Finish(p, "no_changes")
       /\ UNCHANGED <<needsPush, intervalPassed>>
    \/ /\ pc[p] = "commit"
       /\ CommandFails("commit")
       /\ FinishUnchanged(p, "error")

RetryPush(p) ==
    \/ /\ pc[p] = "retry"
       /\ gitOp # "none"
       /\ FinishUnchanged(p, "conflict")
       /\ UNCHANGED repoVars
    \/ /\ pc[p] = "retry"
       /\ gitOp = "none"
       /\ \/ ~(cfg.autoPush /\ HasUnpushedCommits) /\ UNCHANGED repoVars
          \/ CommandFails("remote")
       /\ needsPush' = FALSE
       /\ Finish(p, "no_changes")
       /\ UNCHANGED <<reasons, intervalPassed>>
    \/ /\ gitOp = "none" /\ cfg.autoPush /\ HasUnpushedCommits
       /\ Goto(p, "retry", "push")
       /\ Within
       /\ UNCHANGED <<repoVars, localVars>>

----------------------------------------------------------------------------
(* pushWithRebaseRetry, and setNeedsPush(st == PushFailed) in its callers. *)

\* MUTANT of FinishPush: a failed push is not remembered.
FinishPushForgets(p, st) ==
    /\ needsPush' = FALSE
    /\ Finish(p, st)
    /\ UNCHANGED <<reasons, intervalPassed>>

FinishPush(p, st) ==
    /\ needsPush' = (st = "push_failed")
    /\ Finish(p, st)
    /\ UNCHANGED <<reasons, intervalPassed>>

FirstPush(p) ==
    \/ pc[p] = "push" /\ Push /\ FinishPush(p, "synced")
    \/ pc[p] = "push" /\ PushFails /\ FinishPush(p, "push_failed")
    \/ /\ Goto(p, "push", "pull")
       /\ PushNonFastForward
       /\ Within
       /\ UNCHANGED localVars

\* The remote was ahead a moment ago, so there is something to integrate.
PullRebase(p) ==
    \/ /\ pc[p] = "pull"
       /\ PullRefused \/ CommandFails("pull")
       /\ FinishPush(p, "push_failed")
    \/ /\ Goto(p, "pull", "rebase")
       /\ PullBegins
       /\ Within
       /\ UNCHANGED localVars

FinishRebase(p) ==
    \/ /\ Goto(p, "rebase", "push2")
       /\ RebaseDone
       /\ Within
       /\ UNCHANGED localVars
    \/ pc[p] = "rebase" /\ RebaseConflict /\ FinishPush(p, "conflict")
    \/ pc[p] = "rebase" /\ RebaseTimesOut /\ FinishPush(p, "push_failed")

SecondPush(p) ==
    /\ Goto(p, "push2", "reindex")
    /\ \/ Push /\ result' = [result EXCEPT ![p] = "synced"]
       \/ /\ PushFails \/ PushNonFastForward
          /\ result' = [result EXCEPT ![p] = "push_failed"]
    /\ Within
    /\ UNCHANGED <<consumed, willPush, moved>>

\* The deferred reindexFunc: IndexDocument notifies for every note it indexes.
ReindexAfterPull(p) ==
    /\ pc[p] = "reindex"
    /\ reasons' \in {reasons, Notified(Marker)}
    /\ needsPush' = (result[p] = "push_failed")
    /\ Finish(p, result[p])
    /\ UNCHANGED <<repoVars, intervalPassed>>

----------------------------------------------------------------------------
(* system.Service: SyncNow, GitPush and GitPull. *)

\* beginGitOperation, then the step the operation starts with.
BeginGitOperation(c, first) ==
    /\ app # "down"
    /\ Event("manual")
    /\ TryAcquire(c)
    /\ Goto(c, "idle", first)
    /\ UNCHANGED <<managerVars, localVars, app, cfg, reconcile>>

\* A manual operation returns; the SyncManager is not told.
Return(c) ==
    /\ pc' = [pc EXCEPT ![c] = "idle"]
    /\ Release
    /\ DropLocals(c)
    /\ UNCHANGED <<managerVars, app, cfg, reconcile>>

\* MUTANT of SyncNow: InProgressOperation is not asked.
SyncNowUnchecked(c) == BeginGitOperation(c, "mAdd")

SyncNow(c) == gitOp = "none" /\ BeginGitOperation(c, "mAdd")
GitPush(c) == BeginGitOperation(c, "gPush")
GitPull(c) == BeginGitOperation(c, "gPull")

SyncNowAdd(c) ==
    \/ Goto(c, "mAdd", "mStatus") /\ Add /\ Within /\ UNCHANGED localVars
    \/ pc[c] = "mAdd" /\ CommandFails("add") /\ Return(c)

SyncNowStatus(c) ==
    \/ /\ Goto(c, "mStatus", IF Clean THEN "mPull" ELSE "mCommit")
       /\ Within
       /\ UNCHANGED <<repoVars, localVars>>
    \/ pc[c] = "mStatus" /\ CommandFails("status") /\ Return(c)

SyncNowCommit(c) ==
    \/ /\ Goto(c, "mCommit", "mPull")
       /\ Commit \/ CommitNothing
       /\ Within
       /\ UNCHANGED localVars
    \/ pc[c] = "mCommit" /\ CommandFails("commit") /\ Return(c)

\* Not configured, or not answering: SyncNow stops after the commit.
SyncNowPull(c) ==
    \/ /\ pc[c] = "mPull"
       /\ PullRefused \/ CommandFails("pull") \/ CommandFails("remote")
       /\ Return(c)
    \/ /\ Goto(c, "mPull", "mPush")
       /\ PullNoRef \/ PullUpToDate
       /\ Within
       /\ UNCHANGED localVars
    \/ Goto(c, "mPull", "mRebase") /\ PullBegins /\ Within /\ UNCHANGED localVars

SyncNowRebase(c) ==
    \/ /\ Goto(c, "mRebase", "mPush")
       /\ RebaseDone
       /\ moved' = [moved EXCEPT ![c] = TRUE]
       /\ Within
       /\ UNCHANGED <<consumed, willPush, result>>
    \/ pc[c] = "mRebase" /\ (RebaseConflict \/ RebaseTimesOut) /\ Return(c)

SyncNowPush(c) ==
    /\ Goto(c, "mPush", "mReindex")
    /\ Push \/ PushFails \/ PushNonFastForward
    /\ Within
    /\ UNCHANGED localVars

GitPushPush(c) ==
    /\ pc[c] = "gPush"
    /\ Push \/ PushFails \/ PushNonFastForward
    /\ Return(c)

GitPullPull(c) ==
    \/ /\ pc[c] = "gPull"
       /\ PullRefused \/ CommandFails("pull") \/ PullNoRef \/ PullUpToDate
       /\ Return(c)
    \/ Goto(c, "gPull", "gRebase") /\ PullBegins /\ Within /\ UNCHANGED localVars

GitPullRebase(c) ==
    \/ /\ Goto(c, "gRebase", "mReindex")
       /\ RebaseDone
       /\ moved' = [moved EXCEPT ![c] = TRUE]
       /\ Within
       /\ UNCHANGED <<consumed, willPush, result>>
    \/ pc[c] = "gRebase" /\ (RebaseConflict \/ RebaseTimesOut) /\ Return(c)

\* ReindexAfterSyncPull when the pull moved HEAD, then the operation returns.
ManualReindex(c) ==
    /\ pc[c] = "mReindex"
    /\ reasons' \in IF moved[c] THEN {reasons, Notified(Marker)} ELSE {reasons}
    /\ pc' = [pc EXCEPT ![c] = "idle"]
    /\ Release
    /\ DropLocals(c)
    /\ UNCHANGED <<repoVars, unnotified, needsPush, failureKey, intervalPassed,
                   recorded, app, cfg, reconcile>>

----------------------------------------------------------------------------
(* Start, stop, configuration, time, and the world outside. *)

\* ReconcileOnStartup runs in its own goroutine, holding the lock for one
\* `git status`.  It gives up when the lock is taken, if only by a tick that is
\* about to find that no sync is due.
ReconcileOnStartup ==
    /\ app # "down"
    /\ reconcile
    /\ reconcile' = FALSE
    /\ \/ /\ lock = NoHolder /\ cfg.autoCommit
          /\ ~Clean \/ (cfg.autoPush /\ HasUnpushedCommits)
          /\ reasons' = Notified(Marker)
          /\ UNCHANGED repoVars
       \/ /\ \/ lock # NoHolder \/ (app = "up" /\ ~SyncDue)
             \/ ~cfg.autoCommit
             \/ Clean /\ ~(cfg.autoPush /\ HasUnpushedCommits)
          /\ UNCHANGED <<reasons, repoVars>>
       \/ /\ lock = NoHolder /\ cfg.autoCommit
          /\ CommandFails("status")
          /\ UNCHANGED reasons
    /\ UNCHANGED <<unnotified, needsPush, failureKey, intervalPassed, recorded,
                   localVars, app, cfg, lock, pc>>

\* SetGitSyncConfig, called from the settings page at any moment.
SetGitSyncConfig ==
    /\ app # "down"
    /\ Event("config")
    /\ cfg' \in [autoCommit : BOOLEAN, autoPush : BOOLEAN] \ {cfg}
    /\ UNCHANGED <<managerVars, localVars, app, reconcile, lock, pc>>

\* The commit interval elapses.
IntervalElapses ==
    /\ ~intervalPassed
    /\ intervalPassed' = TRUE
    /\ UNCHANGED <<repoVars, unnotified, reasons, needsPush, failureKey, recorded,
                   localVars, app, cfg, reconcile, lock, pc>>

\* Shutdown closes the manager and does not wait for a cycle in flight.
Shutdown ==
    /\ app = "up"
    /\ app' = "closing"
    /\ UNCHANGED <<repoVars, managerVars, localVars, cfg, reconcile, lock, pc>>

\* os.Exit, or a crash: what is in memory is gone, what is on disk stays, a
\* rebase under way stays unfinished.
Exit ==
    /\ app # "down"
    /\ Event("restart")
    /\ app' = "down"
    /\ unnotified' = {} /\ reasons' = <<>> /\ recorded' = {}
    /\ needsPush' = FALSE /\ failureKey' = "healthy"
    /\ reconcile' = FALSE
    /\ lock' = NoHolder
    /\ pc' = [p \in Procs |-> "idle"]
    /\ consumed' = [p \in Procs |-> 0]
    /\ willPush' = [p \in Procs |-> FALSE]
    /\ moved' = [p \in Procs |-> FALSE]
    /\ result' = [p \in Procs |-> "no_changes"]
    /\ UNCHANGED <<intervalPassed, cfg>>

\* app.New: NewSyncManager, the startup goroutine, and a vault scan that
\* indexes every note and so notifies for every note.
Start ==
    /\ app = "down"
    /\ app' = "up"
    /\ reconcile' = TRUE
    /\ reasons' = IF cfg.autoCommit /\ tree # {} THEN <<Marker>> ELSE <<>>
    /\ UNCHANGED <<repoVars, unnotified, needsPush, failureKey, intervalPassed,
                   recorded, localVars, cfg, lock, pc>>

\* A note is edited with another program while the application is not running.
EditWhileDown(e) ==
    /\ app = "down"
    /\ WriteNote(e)
    /\ UNCHANGED <<managerVars, localVars, app, cfg, reconcile, lock, pc>>

OtherDevicePushes(e) ==
    /\ RemoteMoves(e)
    /\ UNCHANGED <<managerVars, localVars, app, cfg, reconcile, lock, pc>>

\* The user finishes or aborts an operation that was left unfinished.
ResolveOperation ==
    /\ gitOp # "none"
    /\ \A p \in Procs : pc[p] \notin Rebasing
    /\ RebaseDone \/ Abort
    /\ UNCHANGED <<managerVars, localVars, app, cfg, reconcile, lock, pc>>

----------------------------------------------------------------------------

AutoStep(p) ==
    \/ PerformSyncBegin(p) \/ PerformSyncAdd(p) \/ PerformSyncStatus(p)
    \/ PerformSyncCommit(p) \/ RetryPush(p) \/ FirstPush(p) \/ PullRebase(p)
    \/ FinishRebase(p) \/ SecondPush(p) \/ ReindexAfterPull(p)

ManualStep(c) ==
    \/ SyncNowAdd(c) \/ SyncNowStatus(c) \/ SyncNowCommit(c) \/ SyncNowPull(c)
    \/ SyncNowRebase(c) \/ SyncNowPush(c) \/ GitPushPush(c) \/ GitPullPull(c)
    \/ GitPullRebase(c) \/ ManualReindex(c)

Next ==
    \/ \E e \in Edits : SaveNote(e) \/ NotifyChange(e) \/ EditWhileDown(e)
    \/ \E e \in RemoteEdits : OtherDevicePushes(e)
    \/ Tick
    \/ \E c \in Callers : ForceSync(c) \/ SyncNow(c) \/ GitPush(c) \/ GitPull(c)
    \/ \E p \in Procs : AutoStep(p)
    \/ \E c \in Callers : ManualStep(c)
    \/ ReconcileOnStartup \/ SetGitSyncConfig \/ IntervalElapses
    \/ Shutdown \/ Exit \/ Start \/ ResolveOperation

Spec == Init /\ [][Next]_vars

\* The goroutines run, the clock advances, NotifyChange follows the write it is
\* for, and the user resolves what the application reports as unresolved.
Fairness ==
    /\ \A p \in Procs : WF_vars(AutoStep(p))
    /\ \A c \in Callers : WF_vars(ManualStep(c))
    /\ \A e \in Edits : WF_vars(NotifyChange(e))
    /\ WF_vars(Tick)
    /\ WF_vars(IntervalElapses)
    /\ WF_vars(ResolveOperation)

FairSpec == Spec /\ Fairness

----------------------------------------------------------------------------
(* Properties. *)

\* The OperationLock of oplock.go keeps the automatic cycle and the manual
\* operations apart: at most one goroutine is inside a git operation, and it is
\* the one that holds the lock.
OneGitOperation ==
    \A p \in Procs : pc[p] # "idle" <=> lock = p

\* clearPendingState forgets a reason only when the change it announced is
\* safe: an edit whose NotifyChange was accepted is in a local commit, or still
\* has a reason pending, however notifications, cycles, failures, manual
\* operations and pulls interleave.  (Edits that a rebase abort removed from
\* disk are the exception, see AbortKeepsWorkingTree.)
NoRecordedChangeDropped ==
    \A e \in recorded :
        \/ e \in head \cup wiped
        \/ \E i \in 1..Len(reasons) : reasons[i] = e

\* "Never stage/commit while a merge/rebase/etc. is unfinished" (performSync and
\* SyncNow): the check made when the operation starts still holds when git add
\* and git commit run, commands later.
NoCommitDuringOperation ==
    \A p \in Procs :
        pc[p] \in {"add", "status", "commit", "mAdd", "mStatus", "mCommit"}
            => gitOp = "none"

\* "In every failure case the local commit is intact" (pushWithRebaseRetry):
\* whatever a push, a pull, an abort, a timeout or a crash does, what the local
\* branch or the remote contains stays there.
CommitsIntact ==
    [][head \subseteq head' /\ remote \subseteq remote']_vars

\* A commit that did not reach the remote is somebody's job: while the
\* application is idle, either needsPush is set, or a reason is pending whose
\* cycle will find it, or a notification is on its way, or the user was told of
\* a conflict.  ("retry just the push ... so the commit doesn't stay stranded
\* locally", checkAndSync.)
UnpushedIsTracked ==
    (app = "up" /\ lock = NoHolder /\ cfg.autoPush /\ ~(head \subseteq remote))
        => \/ needsPush
           \/ reasons # <<>>
           \/ unnotified # {}
           \/ failureKey = "conflict"

\* PullRebase reports a conflict with "Rebase was aborted; your working tree is
\* unchanged": the abort removes no edit from the working tree.
AbortKeepsWorkingTree ==
    [][(\E p \in Procs : pc[p] \in Rebasing /\ RebaseConflict)
          => tree \subseteq tree']_vars

\* Every change that NotifyChange accepted is eventually committed, as long as
\* the session lasts and auto-commit stays on.
RecordedIsCommitted ==
    \A e \in Edits :
        e \in recorded ~> \/ e \in head \cup wiped
                          \/ app # "up"
                          \/ ~cfg.autoCommit

\* Every local commit is eventually published, unless the user is told of a
\* conflict or the session ends.
CommitIsPublished ==
    \A e \in Edits :
        (e \in head /\ app = "up") ~> \/ e \in remote
                                      \/ failureKey = "conflict"
                                      \/ app # "up"

----------------------------------------------------------------------------
(* What the safety properties rest on.                                     *)

\* What is committed is staged, and what is staged is on disk.
RepoOrder == head \subseteq index /\ index \subseteq tree /\ untracked \subseteq tree

\* A change is announced only after it was written: a reason that waits, or a
\* notification on its way, is about something on disk.
AnnouncedIsWritten ==
    /\ unnotified \subseteq tree \cup wiped
    /\ \A i \in 1..Len(reasons) : reasons[i] \in Edits => reasons[i] \in tree \cup wiped

\* The reasons a cycle has read are still the first ones of the queue when it
\* clears them, and from `git add` on the index holds what they announce.
Snapshot ==
    \A p \in Procs :
        /\ pc[p] \in {"sync", "add", "status", "commit"} => consumed[p] <= Len(reasons)
        /\ pc[p] \in {"status", "commit"} =>
              \A i \in 1..consumed[p] : reasons[i] \in Edits => reasons[i] \in index \cup wiped

\* Nothing is left in memory while the application is not running.
NothingWhileDown == app = "down" => reasons = <<>> /\ recorded = {} /\ lock = NoHolder

\* The inductive invariant behind OneGitOperation, NoCommitDuringOperation and
\* NoRecordedChangeDropped: every step of every goroutine preserves it.
SyncInvariant ==
    /\ TypeOK
    /\ OneGitOperation
    /\ NoCommitDuringOperation
    /\ RepoOrder
    /\ AnnouncedIsWritten
    /\ Snapshot
    /\ NothingWhileDown
    /\ NoRecordedChangeDropped
============================================================================
