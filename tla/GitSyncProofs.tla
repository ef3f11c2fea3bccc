--------------------------- MODULE GitSyncProofs ---------------------------
(***************************************************************************)
(* Proofs about GitSync, for every set of edits, callers, faults and       *)
(* budgets.  Git commands keep the repository in order, and every step     *)
(* keeps the types.  The lock keeps operations apart, the queue of reasons *)
(* changes in four ways only, and the snapshot of a cycle stays valid      *)
(* because nobody else can clear the queue or restage while the cycle      *)
(* holds the lock.  On top of that, an unpublished commit is known to the  *)
(* manager whenever nothing runs, in the setting that Configured describes.*)
(***************************************************************************)
EXTENDS GitSync, TLAPS

USE RepoAssumption, ProcAssumption, MarkerAssumption

(***************************************************************************)
(* The repository on its own.                                              *)
(***************************************************************************)

\* Every git command keeps the repository's variables in their types.
LEMMA RepoTypes ==
    ASSUME RepoTypeOK, [RepoNext]_repoVars
    PROVE  RepoTypeOK'
BY DEF RepoTypeOK, RepoNext, repoVars, CommandFails, Event, Spend, Fetch, Add, Commit, Push,
       PushFails, PullUpToDate, PullBegins, RebaseDone, Abort, WriteNote, RemoteMoves

\* Every git command keeps HEAD within the index and the index within the tree.
LEMMA RepoOrderKept ==
    ASSUME RepoOrder, [RepoNext]_repoVars
    PROVE  RepoOrder'
BY Zenon DEF RepoOrder, RepoNext, repoVars, CommandFails, Event, Fetch, Add, Commit, Push,
       PushFails, PullUpToDate, PullBegins, RebaseDone, Abort, WriteNote, RemoteMoves

\* No git command takes a commit off the local branch or off the remote.
LEMMA CommitsKept ==
    ASSUME RepoOrder, [RepoNext]_repoVars
    PROVE  head \subseteq head' /\ remote \subseteq remote'
BY Zenon DEF RepoOrder, RepoNext, repoVars, CommandFails, Event, Fetch, Add, Commit, Push,
       PushFails, PullUpToDate, PullBegins, RebaseDone, Abort, WriteNote, RemoteMoves

\* What leaves the working tree is recorded in wiped.
LEMMA WrittenKept ==
    ASSUME [RepoNext]_repoVars
    PROVE  /\ tree \cup wiped \subseteq (tree \cup wiped)'
           /\ wiped \subseteq wiped'
BY Zenon DEF RepoNext, repoVars, CommandFails, Event, Fetch, Add, Commit, Push,
       PushFails, PullUpToDate, PullBegins, RebaseDone, Abort, WriteNote, RemoteMoves

\* A command that fails is a step of the repository.
LEMMA FailureIsRepoStep ==
    ASSUME NEW c, CommandFails(c)
    PROVE  RepoNext
<1>1. c \in Faults
  BY Zenon DEF CommandFails
<1> QED
  BY <1>1, Zenon DEF RepoNext

\* So is an event outside it.
LEMMA EventIsRepoStep ==
    ASSUME NEW k \in {"fault", "restart", "manual", "config"}, Event(k)
    PROVE  RepoNext
BY Zenon DEF RepoNext

\* Every step of the application is, for the repository, one git command or
\* nothing.
LEMMA RepoSteps ==
    [Next]_vars => [RepoNext]_repoVars
<1> SUFFICES ASSUME [Next]_vars
             PROVE  [RepoNext]_repoVars
  BY Zenon
<1> USE DEF CommitNothing, PushNonFastForward, PullRefused, PullNoRef, RebaseConflict, RebaseTimesOut
<1>1. ASSUME NEW e \in Edits, SaveNote(e) PROVE [RepoNext]_repoVars
  BY <1>1, Zenon DEF SaveNote, RepoNext
<1>2. ASSUME NEW e \in Edits, NotifyChange(e) PROVE [RepoNext]_repoVars
  BY <1>2, Zenon DEF NotifyChange, RepoNext
<1>3. ASSUME NEW e \in Edits, EditWhileDown(e) PROVE [RepoNext]_repoVars
  BY <1>3, Zenon DEF EditWhileDown, RepoNext
<1>4. ASSUME NEW e \in RemoteEdits, OtherDevicePushes(e) PROVE [RepoNext]_repoVars
  BY <1>4, Zenon DEF OtherDevicePushes, RepoNext
<1>5. CASE Tick
  BY <1>5, Zenon DEF Tick, RepoNext
<1>6. ASSUME NEW c \in Callers, ForceSync(c) PROVE [RepoNext]_repoVars
  BY <1>6, EventIsRepoStep, Zenon DEF ForceSync
<1>7. ASSUME NEW c \in Callers, SyncNow(c) PROVE [RepoNext]_repoVars
  BY <1>7, EventIsRepoStep, Zenon DEF SyncNow, BeginGitOperation
<1>8. ASSUME NEW c \in Callers, GitPush(c) PROVE [RepoNext]_repoVars
  BY <1>8, EventIsRepoStep, Zenon DEF GitPush, BeginGitOperation
<1>9. ASSUME NEW c \in Callers, GitPull(c) PROVE [RepoNext]_repoVars
  BY <1>9, EventIsRepoStep, Zenon DEF GitPull, BeginGitOperation
<1>10. ASSUME NEW p \in Procs, PerformSyncBegin(p) PROVE [RepoNext]_repoVars
  BY <1>10, FailureIsRepoStep, Zenon DEF PerformSyncBegin, RepoNext
<1>11. ASSUME NEW p \in Procs, PerformSyncAdd(p) PROVE [RepoNext]_repoVars
  BY <1>11, FailureIsRepoStep, Zenon DEF PerformSyncAdd, RepoNext
<1>12. ASSUME NEW p \in Procs, PerformSyncStatus(p) PROVE [RepoNext]_repoVars
  BY <1>12, FailureIsRepoStep, Zenon DEF PerformSyncStatus, RepoNext
<1>13. ASSUME NEW p \in Procs, PerformSyncCommit(p) PROVE [RepoNext]_repoVars
  BY <1>13, FailureIsRepoStep, Zenon DEF PerformSyncCommit, RepoNext
<1>14. ASSUME NEW p \in Procs, RetryPush(p) PROVE [RepoNext]_repoVars
  BY <1>14, FailureIsRepoStep, Zenon DEF RetryPush, RepoNext
<1>15. ASSUME NEW p \in Procs, FirstPush(p) PROVE [RepoNext]_repoVars
  BY <1>15, Zenon DEF FirstPush, RepoNext
<1>16. ASSUME NEW p \in Procs, PullRebase(p) PROVE [RepoNext]_repoVars
  BY <1>16, FailureIsRepoStep, Zenon DEF PullRebase, RepoNext
<1>17. ASSUME NEW p \in Procs, FinishRebase(p) PROVE [RepoNext]_repoVars
  BY <1>17, FailureIsRepoStep, Zenon DEF FinishRebase, RepoNext
<1>18. ASSUME NEW p \in Procs, SecondPush(p) PROVE [RepoNext]_repoVars
  BY <1>18, Zenon DEF SecondPush, RepoNext
<1>19. ASSUME NEW p \in Procs, ReindexAfterPull(p) PROVE [RepoNext]_repoVars
  BY <1>19, Zenon DEF ReindexAfterPull, RepoNext
<1>20. ASSUME NEW c \in Callers, SyncNowAdd(c) PROVE [RepoNext]_repoVars
  BY <1>20, FailureIsRepoStep, Zenon DEF SyncNowAdd, RepoNext
<1>21. ASSUME NEW c \in Callers, SyncNowStatus(c) PROVE [RepoNext]_repoVars
  BY <1>21, FailureIsRepoStep, Zenon DEF SyncNowStatus, RepoNext
<1>22. ASSUME NEW c \in Callers, SyncNowCommit(c) PROVE [RepoNext]_repoVars
  BY <1>22, FailureIsRepoStep, Zenon DEF SyncNowCommit, RepoNext
<1>23. ASSUME NEW c \in Callers, SyncNowPull(c) PROVE [RepoNext]_repoVars
  BY <1>23, FailureIsRepoStep, Zenon DEF SyncNowPull, RepoNext
<1>24. ASSUME NEW c \in Callers, SyncNowRebase(c) PROVE [RepoNext]_repoVars
  BY <1>24, FailureIsRepoStep, Zenon DEF SyncNowRebase, RepoNext
<1>25. ASSUME NEW c \in Callers, SyncNowPush(c) PROVE [RepoNext]_repoVars
  BY <1>25, Zenon DEF SyncNowPush, RepoNext
<1>26. ASSUME NEW c \in Callers, GitPushPush(c) PROVE [RepoNext]_repoVars
  BY <1>26, Zenon DEF GitPushPush, RepoNext
<1>27. ASSUME NEW c \in Callers, GitPullPull(c) PROVE [RepoNext]_repoVars
  BY <1>27, FailureIsRepoStep, Zenon DEF GitPullPull, RepoNext
<1>28. ASSUME NEW c \in Callers, GitPullRebase(c) PROVE [RepoNext]_repoVars
  BY <1>28, FailureIsRepoStep, Zenon DEF GitPullRebase, RepoNext
<1>29. ASSUME NEW c \in Callers, ManualReindex(c) PROVE [RepoNext]_repoVars
  BY <1>29, Zenon DEF ManualReindex, RepoNext
<1>30. CASE ReconcileOnStartup
  BY <1>30, FailureIsRepoStep, Zenon DEF ReconcileOnStartup, RepoNext
<1>31. CASE SetGitSyncConfig
  BY <1>31, EventIsRepoStep, Zenon DEF SetGitSyncConfig
<1>32. CASE IntervalElapses
  BY <1>32, Zenon DEF IntervalElapses, RepoNext
<1>33. CASE Shutdown
  BY <1>33, Zenon DEF Shutdown, RepoNext
<1>34. CASE Exit
  BY <1>34, EventIsRepoStep, Zenon DEF Exit
<1>35. CASE Start
  BY <1>35, Zenon DEF Start, RepoNext
<1>36. CASE ResolveOperation
  BY <1>36, Zenon DEF ResolveOperation, RepoNext
<1>37. CASE UNCHANGED vars
  BY <1>37, Zenon DEF vars
<1> QED
  BY <1>1, <1>2, <1>3, <1>4, <1>5, <1>6, <1>7, <1>8, <1>9, <1>10, <1>11, <1>12,
     <1>13, <1>14, <1>15, <1>16, <1>17, <1>18, <1>19, <1>20, <1>21, <1>22, <1>23,
     <1>24, <1>25, <1>26, <1>27, <1>28, <1>29, <1>30, <1>31, <1>32, <1>33, <1>34,
     <1>35, <1>36, <1>37, Zenon DEF Next, AutoStep, ManualStep

(***************************************************************************)
(* Type correctness.                                                       *)
(***************************************************************************)

\* clearPendingState leaves a queue of reasons.
LEMMA ClearType ==
    ASSUME reasons \in Seq(Reasons), NEW n \in Nat
    PROVE  ClearPendingState(n) \in Seq(Reasons)
BY DEF ClearPendingState

\* NotifyChange leaves a queue of reasons.
LEMMA NotifiedType ==
    ASSUME reasons \in Seq(Reasons), NEW r \in Reasons
    PROVE  Notified(r) \in Seq(Reasons)
BY DEF Notified

\* The queues that start, stop and reindexing make.
LEMMA MarkerType ==
    Marker \in Reasons /\ <<>> \in Seq(Reasons) /\ <<Marker>> \in Seq(Reasons)
BY DEF Reasons

\* A queue to which NotifyChange has added a reason is not empty, nor is what
\* clearPendingState leaves of a queue that is longer than the snapshot.
LEMMA QueueNotEmpty ==
    ASSUME NEW S, NEW s \in Seq(S)
    PROVE  /\ \A e \in S : Append(s, e) # <<>>
           /\ \A n \in Nat : n < Len(s) => SubSeq(s, n + 1, Len(s)) # <<>>
<1>1. ASSUME NEW e \in S PROVE Append(s, e) # <<>>
  <2>1. Len(Append(s, e)) = Len(s) + 1 /\ Len(s) \in Nat
    BY SMT
  <2> QED
    BY <2>1, SMT
<1>2. ASSUME NEW n \in Nat, n < Len(s) PROVE SubSeq(s, n + 1, Len(s)) # <<>>
  <2>1. Len(SubSeq(s, n + 1, Len(s))) = Len(s) - n /\ Len(s) - n # 0
    BY <1>2, SMT
  <2>2. Len(<<>>) = 0
    BY Zenon
  <2> QED
    BY <2>1, <2>2, Zenon
<1> QED
  BY <1>1, <1>2, Zenon

\* The initial state is well typed.
LEMMA TypeInit == Init => TypeOK
<1> SUFFICES ASSUME Init PROVE TypeOK
  BY Zenon
<1>1. RepoTypeOK
  BY Zenon DEF Init, RepoInit, RepoTypeOK
<1>2. cfg \in [autoCommit : BOOLEAN, autoPush : BOOLEAN]
  BY Zenon DEF Init
<1>3. reasons \in Seq(Reasons)
  BY MarkerType, Zenon DEF Init
<1>4. ManagerTypeOK
  BY <1>2, <1>3, Zenon DEF Init, ManagerTypeOK
<1>5. /\ pc \in [Procs -> Steps]
      /\ consumed \in [Procs -> Nat]
      /\ willPush \in [Procs -> BOOLEAN]
      /\ moved \in [Procs -> BOOLEAN]
      /\ result \in [Procs -> Statuses]
  BY Zenon DEF Init, Steps, Statuses
<1>6. ProcTypeOK
  BY <1>5, Zenon DEF Init, ProcTypeOK
<1> QED
  BY <1>1, <1>4, <1>6, Zenon DEF TypeOK

\* The names of the steps.
LEMMA StepNames ==
    /\ {"idle", "sync", "add", "status", "commit", "push", "pull", "rebase",
        "push2", "reindex", "retry"} \subseteq Steps
    /\ {"mAdd", "mStatus", "mCommit", "mPull", "mRebase", "mPush", "gPull",
        "gRebase", "gPush", "mReindex"} \subseteq Steps
BY Zenon DEF Steps, AutoSteps, ManualSteps

\* A goroutine moves from one step of its operation to the next.
LEMMA GotoTypes ==
    ASSUME ProcTypeOK, NEW p \in Procs, NEW from, NEW to \in Steps,
           Goto(p, from, to), UNCHANGED <<lock, localVars>>
    PROVE  ProcTypeOK'
BY Zenon DEF ProcTypeOK, Goto, localVars

\* An operation returns.
LEMMA ReturnTypes ==
    ASSUME ProcTypeOK, NEW p \in Procs,
           pc' = [pc EXCEPT ![p] = "idle"], Release, DropLocals(p)
    PROVE  ProcTypeOK'
<1>1. /\ pc' \in [Procs -> Steps]
      /\ consumed' \in [Procs -> Nat]
      /\ result' \in [Procs -> Statuses]
  BY Zenon DEF ProcTypeOK, DropLocals, Steps, Statuses
<1>2. willPush' \in [Procs -> BOOLEAN] /\ moved' \in [Procs -> BOOLEAN]
  BY Zenon DEF ProcTypeOK, DropLocals
<1> QED
  BY <1>1, <1>2, Zenon DEF ProcTypeOK, Release

\* Locks, program counters and local variables.
LEMMA ProcTypes ==
    TypeOK /\ [Next]_vars => ProcTypeOK'
<1> SUFFICES ASSUME TypeOK, [Next]_vars
             PROVE  ProcTypeOK'
  BY Zenon
<1> USE DEF TypeOK, Procs
<1>1. ASSUME NEW e \in Edits, SaveNote(e) PROVE ProcTypeOK'
  BY <1>1, Zenon DEF SaveNote, ProcTypeOK, localVars
<1>2. ASSUME NEW e \in Edits, NotifyChange(e) PROVE ProcTypeOK'
  BY <1>2, Zenon DEF NotifyChange, ProcTypeOK, localVars
<1>3. ASSUME NEW e \in Edits, EditWhileDown(e) PROVE ProcTypeOK'
  BY <1>3, Zenon DEF EditWhileDown, ProcTypeOK, localVars
<1>4. ASSUME NEW e \in RemoteEdits, OtherDevicePushes(e) PROVE ProcTypeOK'
  BY <1>4, Zenon DEF OtherDevicePushes, ProcTypeOK, localVars
<1>5. CASE Tick
  BY <1>5, StepNames DEF Tick, TryAcquire, Goto, ProcTypeOK, ManagerTypeOK
<1>6. ASSUME NEW c \in Callers, ForceSync(c) PROVE ProcTypeOK'
  BY <1>6, StepNames DEF ForceSync, TryAcquire, Goto, ProcTypeOK, ManagerTypeOK
<1>7. ASSUME NEW c \in Callers, SyncNow(c) PROVE ProcTypeOK'
  BY <1>7, StepNames, Zenon DEF SyncNow, BeginGitOperation, TryAcquire, Goto, ProcTypeOK,
     localVars
<1>8. ASSUME NEW c \in Callers, GitPush(c) PROVE ProcTypeOK'
  BY <1>8, StepNames, Zenon DEF GitPush, BeginGitOperation, TryAcquire, Goto, ProcTypeOK,
     localVars
<1>9. ASSUME NEW c \in Callers, GitPull(c) PROVE ProcTypeOK'
  BY <1>9, StepNames, Zenon DEF GitPull, BeginGitOperation, TryAcquire, Goto, ProcTypeOK,
     localVars
<1>10. ASSUME NEW p \in Procs, PerformSyncBegin(p) PROVE ProcTypeOK'
  <2>1. CASE /\ Goto(p, "sync", "add")
             /\ willPush' \in {[willPush EXCEPT ![p] = b] : b \in BOOLEAN}
             /\ UNCHANGED <<lock, consumed, moved, result>>
    <3>1. willPush' \in [Procs -> BOOLEAN]
      BY <2>1 DEF ProcTypeOK
    <3>2. pc' \in [Procs -> Steps]
      BY <2>1, StepNames, Zenon DEF ProcTypeOK, Goto
    <3> QED
      BY <2>1, <3>1, <3>2, Zenon DEF ProcTypeOK
  <2>2. CASE Finish(p, "conflict")
    BY <2>2, ReturnTypes, Zenon DEF Finish
  <2>3. cfg.autoPush \in BOOLEAN
    BY Zenon DEF ManagerTypeOK
  <2> QED
    BY <1>10, <2>1, <2>2, <2>3, Zenon DEF PerformSyncBegin, Within, FinishUnchanged
<1>11. ASSUME NEW p \in Procs, PerformSyncAdd(p) PROVE ProcTypeOK'
  BY <1>11, StepNames, GotoTypes, ReturnTypes, Zenon DEF PerformSyncAdd, FinishUnchanged,
     Finish, Within
<1>12. ASSUME NEW p \in Procs, PerformSyncStatus(p) PROVE ProcTypeOK'
  BY <1>12, StepNames, GotoTypes, ReturnTypes, Zenon DEF PerformSyncStatus,
     FinishUnchanged, Finish, Within
<1>13. ASSUME NEW p \in Procs, PerformSyncCommit(p) PROVE ProcTypeOK'
  BY <1>13, StepNames, GotoTypes, ReturnTypes, Zenon DEF PerformSyncCommit,
     FinishUnchanged, Finish, Within
<1>14. ASSUME NEW p \in Procs, RetryPush(p) PROVE ProcTypeOK'
  BY <1>14, StepNames, GotoTypes, ReturnTypes, Zenon DEF RetryPush, FinishUnchanged,
     Finish, Within
<1>15. ASSUME NEW p \in Procs, FirstPush(p) PROVE ProcTypeOK'
  BY <1>15, StepNames, GotoTypes, ReturnTypes, Zenon DEF FirstPush, FinishPush, Finish,
     Within
<1>16. ASSUME NEW p \in Procs, PullRebase(p) PROVE ProcTypeOK'
  BY <1>16, StepNames, GotoTypes, ReturnTypes, Zenon DEF PullRebase, FinishPush, Finish,
     Within
<1>17. ASSUME NEW p \in Procs, FinishRebase(p) PROVE ProcTypeOK'
  BY <1>17, StepNames, GotoTypes, ReturnTypes, Zenon DEF FinishRebase, FinishPush, Finish,
     Within
<1>18. ASSUME NEW p \in Procs, SecondPush(p) PROVE ProcTypeOK'
  BY <1>18, StepNames, Zenon DEF SecondPush, Goto, Within, ProcTypeOK, Statuses
<1>19. ASSUME NEW p \in Procs, ReindexAfterPull(p) PROVE ProcTypeOK'
  BY <1>19, ReturnTypes, Zenon DEF ReindexAfterPull, Finish
<1>20. ASSUME NEW c \in Callers, SyncNowAdd(c) PROVE ProcTypeOK'
  BY <1>20, StepNames, GotoTypes, ReturnTypes, Zenon DEF SyncNowAdd, Return, Within
<1>21. ASSUME NEW c \in Callers, SyncNowStatus(c) PROVE ProcTypeOK'
  BY <1>21, StepNames, GotoTypes, ReturnTypes, Zenon DEF SyncNowStatus, Return, Within
<1>22. ASSUME NEW c \in Callers, SyncNowCommit(c) PROVE ProcTypeOK'
  BY <1>22, StepNames, GotoTypes, ReturnTypes, Zenon DEF SyncNowCommit, Return, Within
<1>23. ASSUME NEW c \in Callers, SyncNowPull(c) PROVE ProcTypeOK'
  BY <1>23, StepNames, GotoTypes, ReturnTypes, Zenon DEF SyncNowPull, Return, Within
<1>24. ASSUME NEW c \in Callers, SyncNowRebase(c) PROVE ProcTypeOK'
  <2>1. CASE /\ Goto(c, "mRebase", "mPush")
             /\ moved' = [moved EXCEPT ![c] = TRUE]
             /\ UNCHANGED <<lock, consumed, willPush, result>>
    <3>1. moved' \in [Procs -> BOOLEAN]
      BY <2>1, Zenon DEF ProcTypeOK
    <3>2. pc' \in [Procs -> Steps]
      BY <2>1, StepNames, Zenon DEF ProcTypeOK, Goto
    <3> QED
      BY <2>1, <3>1, <3>2, Zenon DEF ProcTypeOK
  <2>2. CASE Return(c)
    BY <2>2, ReturnTypes, Zenon DEF Return
  <2> QED
    BY <1>24, <2>1, <2>2, Zenon DEF SyncNowRebase, Within
<1>25. ASSUME NEW c \in Callers, SyncNowPush(c) PROVE ProcTypeOK'
  BY <1>25, StepNames, GotoTypes, Zenon DEF SyncNowPush, Within
<1>26. ASSUME NEW c \in Callers, GitPushPush(c) PROVE ProcTypeOK'
  BY <1>26, ReturnTypes, Zenon DEF GitPushPush, Return
<1>27. ASSUME NEW c \in Callers, GitPullPull(c) PROVE ProcTypeOK'
  BY <1>27, StepNames, GotoTypes, ReturnTypes, Zenon DEF GitPullPull, Return, Within
<1>28. ASSUME NEW c \in Callers, GitPullRebase(c) PROVE ProcTypeOK'
  <2>1. CASE /\ Goto(c, "gRebase", "mReindex")
             /\ moved' = [moved EXCEPT ![c] = TRUE]
             /\ UNCHANGED <<lock, consumed, willPush, result>>
    <3>1. moved' \in [Procs -> BOOLEAN]
      BY <2>1, Zenon DEF ProcTypeOK
    <3>2. pc' \in [Procs -> Steps]
      BY <2>1, StepNames, Zenon DEF ProcTypeOK, Goto
    <3> QED
      BY <2>1, <3>1, <3>2, Zenon DEF ProcTypeOK
  <2>2. CASE Return(c)
    BY <2>2, ReturnTypes, Zenon DEF Return
  <2> QED
    BY <1>28, <2>1, <2>2, Zenon DEF GitPullRebase, Within
<1>29. ASSUME NEW c \in Callers, ManualReindex(c) PROVE ProcTypeOK'
  BY <1>29, ReturnTypes, Zenon DEF ManualReindex
<1>30. CASE ReconcileOnStartup
  BY <1>30, Zenon DEF ReconcileOnStartup, ProcTypeOK, localVars
<1>31. CASE SetGitSyncConfig
  BY <1>31, Zenon DEF SetGitSyncConfig, ProcTypeOK, localVars
<1>32. CASE IntervalElapses
  BY <1>32, Zenon DEF IntervalElapses, ProcTypeOK, localVars
<1>33. CASE Shutdown
  BY <1>33, Zenon DEF Shutdown, ProcTypeOK, localVars
<1>34. CASE Exit
  BY <1>34, StepNames, Zenon DEF Exit, ProcTypeOK, Statuses
<1>35. CASE Start
  BY <1>35, Zenon DEF Start, ProcTypeOK, localVars
<1>36. CASE ResolveOperation
  BY <1>36, Zenon DEF ResolveOperation, ProcTypeOK, localVars
<1>37. CASE UNCHANGED vars
  BY <1>37, Zenon DEF vars, ProcTypeOK, localVars
<1> QED
  BY <1>1, <1>2, <1>3, <1>4, <1>5, <1>6, <1>7, <1>8, <1>9, <1>10, <1>11, <1>12,
     <1>13, <1>14, <1>15, <1>16, <1>17, <1>18, <1>19, <1>20, <1>21, <1>22, <1>23,
     <1>24, <1>25, <1>26, <1>27, <1>28, <1>29, <1>30, <1>31, <1>32, <1>33, <1>34,
     <1>35, <1>36, <1>37, Zenon DEF Next, AutoStep, ManualStep

\* A cycle returns.
LEMMA FinishManager ==
    ASSUME ManagerTypeOK, NEW p, NEW st, Finish(p, st), reasons' \in Seq(Reasons),
           needsPush' \in BOOLEAN, intervalPassed' \in BOOLEAN
    PROVE  ManagerTypeOK'
BY Zenon DEF ManagerTypeOK, Finish, FailureKey

\* A step that only adds to, clears or keeps the reasons.
LEMMA ReasonsManager ==
    ASSUME ManagerTypeOK, reasons' \in Seq(Reasons), intervalPassed' \in BOOLEAN,
           UNCHANGED <<unnotified, needsPush, failureKey, recorded, app, cfg, reconcile>>
    PROVE  ManagerTypeOK'
BY Zenon DEF ManagerTypeOK

\* The state of the SyncManager and the session.
LEMMA ManagerTypes ==
    TypeOK /\ [Next]_vars => ManagerTypeOK'
<1> SUFFICES ASSUME TypeOK, [Next]_vars
             PROVE  ManagerTypeOK'
  BY Zenon
<1> USE DEF TypeOK
<1>1. ASSUME NEW e \in Edits, SaveNote(e) PROVE ManagerTypeOK'
  BY <1>1, Zenon DEF SaveNote, ManagerTypeOK, ProcTypeOK, managerVars
<1>2. ASSUME NEW e \in Edits, NotifyChange(e) PROVE ManagerTypeOK'
  <2>1. Notified(e) \in Seq(Reasons)
    BY <1>2, NotifiedType, Zenon DEF Reasons, ManagerTypeOK
  <2>2. unnotified' \in SUBSET Edits /\ recorded' \in SUBSET Edits
    BY <1>2, Zenon DEF NotifyChange, ManagerTypeOK
  <2> QED
    BY <1>2, <2>1, <2>2, Zenon DEF NotifyChange, ManagerTypeOK
<1>3. ASSUME NEW e \in Edits, EditWhileDown(e) PROVE ManagerTypeOK'
  BY <1>3, Zenon DEF EditWhileDown, ManagerTypeOK, ProcTypeOK, managerVars
<1>4. ASSUME NEW e \in RemoteEdits, OtherDevicePushes(e) PROVE ManagerTypeOK'
  BY <1>4, Zenon DEF OtherDevicePushes, ManagerTypeOK, ProcTypeOK, managerVars
<1>5. CASE Tick
  BY <1>5, Zenon DEF Tick, ManagerTypeOK, ProcTypeOK, managerVars
<1>6. ASSUME NEW c \in Callers, ForceSync(c) PROVE ManagerTypeOK'
  BY <1>6, Zenon DEF ForceSync, ManagerTypeOK, ProcTypeOK, managerVars
<1>7. ASSUME NEW c \in Callers, SyncNow(c) PROVE ManagerTypeOK'
  BY <1>7, Zenon DEF SyncNow, BeginGitOperation, ManagerTypeOK, ProcTypeOK, managerVars
<1>8. ASSUME NEW c \in Callers, GitPush(c) PROVE ManagerTypeOK'
  BY <1>8, Zenon DEF GitPush, BeginGitOperation, ManagerTypeOK, ProcTypeOK, managerVars
<1>9. ASSUME NEW c \in Callers, GitPull(c) PROVE ManagerTypeOK'
  BY <1>9, Zenon DEF GitPull, BeginGitOperation, ManagerTypeOK, ProcTypeOK, managerVars
<1>10. ASSUME NEW p \in Procs, PerformSyncBegin(p) PROVE ManagerTypeOK'
  BY <1>10, FinishManager, Zenon DEF PerformSyncBegin, FinishUnchanged, Within,
     ManagerTypeOK, ProcTypeOK, managerVars
<1>11. ASSUME NEW p \in Procs, PerformSyncAdd(p) PROVE ManagerTypeOK'
  BY <1>11, FinishManager, Zenon DEF PerformSyncAdd, FinishUnchanged, Within,
     ManagerTypeOK, ProcTypeOK, managerVars
<1>12. ASSUME NEW p \in Procs, PerformSyncStatus(p) PROVE ManagerTypeOK'
  <2>1. ClearPendingState(consumed[p]) \in Seq(Reasons)
    BY ClearType, Zenon DEF ManagerTypeOK, ProcTypeOK
  <2>2. ASSUME NEW st, Finish(p, st), reasons' \in Seq(Reasons),
               needsPush' \in BOOLEAN, intervalPassed' \in BOOLEAN
        PROVE  ManagerTypeOK'
    BY <2>2, FinishManager, Zenon
  <2>3. CASE /\ reasons' \in Seq(Reasons) /\ intervalPassed' \in BOOLEAN
             /\ UNCHANGED <<unnotified, needsPush, failureKey, recorded, app, cfg, reconcile>>
    BY <2>3, ReasonsManager, Zenon
  <2>4. reasons \in Seq(Reasons) /\ needsPush \in BOOLEAN /\ intervalPassed \in BOOLEAN
    BY Zenon DEF ManagerTypeOK
  <2> QED
    BY <1>12, <2>1, <2>2, <2>3, <2>4, Zenon DEF PerformSyncStatus, Within, FinishUnchanged, managerVars
<1>13. ASSUME NEW p \in Procs, PerformSyncCommit(p) PROVE ManagerTypeOK'
  <2>1. ClearPendingState(consumed[p]) \in Seq(Reasons)
    BY ClearType, Zenon DEF ManagerTypeOK, ProcTypeOK
  <2>2. ASSUME NEW st, Finish(p, st), reasons' \in Seq(Reasons),
               needsPush' \in BOOLEAN, intervalPassed' \in BOOLEAN
        PROVE  ManagerTypeOK'
    BY <2>2, FinishManager, Zenon
  <2>3. CASE /\ reasons' \in Seq(Reasons) /\ intervalPassed' \in BOOLEAN
             /\ UNCHANGED <<unnotified, needsPush, failureKey, recorded, app, cfg, reconcile>>
    BY <2>3, ReasonsManager, Zenon
  <2>4. reasons \in Seq(Reasons) /\ needsPush \in BOOLEAN /\ intervalPassed \in BOOLEAN
    BY Zenon DEF ManagerTypeOK
  <2> QED
    BY <1>13, <2>1, <2>2, <2>3, <2>4, Zenon DEF PerformSyncCommit, Within, FinishUnchanged, managerVars
<1>14. ASSUME NEW p \in Procs, RetryPush(p) PROVE ManagerTypeOK'
  BY <1>14, FinishManager, Zenon DEF RetryPush, FinishUnchanged, Within, ManagerTypeOK,
     ProcTypeOK, managerVars
<1>15. ASSUME NEW p \in Procs, FirstPush(p) PROVE ManagerTypeOK'
  BY <1>15, FinishManager, Zenon DEF FirstPush, FinishPush, Within, ManagerTypeOK,
     ProcTypeOK, managerVars
<1>16. ASSUME NEW p \in Procs, PullRebase(p) PROVE ManagerTypeOK'
  BY <1>16, FinishManager, Zenon DEF PullRebase, FinishPush, Within, ManagerTypeOK,
     ProcTypeOK, managerVars
<1>17. ASSUME NEW p \in Procs, FinishRebase(p) PROVE ManagerTypeOK'
  BY <1>17, FinishManager, ZenonT(30) DEF FinishRebase, FinishPush, Within, ManagerTypeOK,
     ProcTypeOK, managerVars
<1>18. ASSUME NEW p \in Procs, SecondPush(p) PROVE ManagerTypeOK'
  BY <1>18, Zenon DEF SecondPush, Within, ManagerTypeOK, ProcTypeOK, managerVars
<1>19. ASSUME NEW p \in Procs, ReindexAfterPull(p) PROVE ManagerTypeOK'
  BY <1>19, NotifiedType, MarkerType, FinishManager DEF ReindexAfterPull,
     ManagerTypeOK, ProcTypeOK, managerVars
<1>20. ASSUME NEW c \in Callers, SyncNowAdd(c) PROVE ManagerTypeOK'
  BY <1>20, Zenon DEF SyncNowAdd, Return, Within, ManagerTypeOK, ProcTypeOK, managerVars
<1>21. ASSUME NEW c \in Callers, SyncNowStatus(c) PROVE ManagerTypeOK'
  BY <1>21, Zenon DEF SyncNowStatus, Return, Within, ManagerTypeOK, ProcTypeOK, managerVars
<1>22. ASSUME NEW c \in Callers, SyncNowCommit(c) PROVE ManagerTypeOK'
  BY <1>22, Zenon DEF SyncNowCommit, Return, Within, ManagerTypeOK, ProcTypeOK, managerVars
<1>23. ASSUME NEW c \in Callers, SyncNowPull(c) PROVE ManagerTypeOK'
  BY <1>23, Zenon DEF SyncNowPull, Return, Within, ManagerTypeOK, ProcTypeOK, managerVars
<1>24. ASSUME NEW c \in Callers, SyncNowRebase(c) PROVE ManagerTypeOK'
  BY <1>24, Zenon DEF SyncNowRebase, Return, Within, ManagerTypeOK, ProcTypeOK, managerVars
<1>25. ASSUME NEW c \in Callers, SyncNowPush(c) PROVE ManagerTypeOK'
  BY <1>25, Zenon DEF SyncNowPush, Within, ManagerTypeOK, ProcTypeOK, managerVars
<1>26. ASSUME NEW c \in Callers, GitPushPush(c) PROVE ManagerTypeOK'
  BY <1>26, Zenon DEF GitPushPush, Return, ManagerTypeOK, ProcTypeOK, managerVars
<1>27. ASSUME NEW c \in Callers, GitPullPull(c) PROVE ManagerTypeOK'
  BY <1>27, Zenon DEF GitPullPull, Return, Within, ManagerTypeOK, ProcTypeOK, managerVars
<1>28. ASSUME NEW c \in Callers, GitPullRebase(c) PROVE ManagerTypeOK'
  BY <1>28, Zenon DEF GitPullRebase, Return, Within, ManagerTypeOK, ProcTypeOK, managerVars
<1>29. ASSUME NEW c \in Callers, ManualReindex(c) PROVE ManagerTypeOK'
  BY <1>29, NotifiedType, MarkerType, ReasonsManager DEF ManualReindex,
     ManagerTypeOK, ProcTypeOK, managerVars
<1>30. CASE ReconcileOnStartup
  <2>1. reasons' \in Seq(Reasons)
    BY <1>30, NotifiedType, MarkerType, Zenon DEF ReconcileOnStartup, ManagerTypeOK
  <2> QED
    BY <1>30, <2>1, Zenon DEF ReconcileOnStartup, ManagerTypeOK
<1>31. CASE SetGitSyncConfig
  BY <1>31, Zenon DEF SetGitSyncConfig, ManagerTypeOK, ProcTypeOK, managerVars
<1>32. CASE IntervalElapses
  BY <1>32, Zenon DEF IntervalElapses, ManagerTypeOK, ProcTypeOK, managerVars
<1>33. CASE Shutdown
  BY <1>33, Zenon DEF Shutdown, ManagerTypeOK, ProcTypeOK, managerVars
<1>34. CASE Exit
  BY <1>34, MarkerType, Zenon DEF Exit, ManagerTypeOK, ProcTypeOK, managerVars
<1>35. CASE Start
  BY <1>35, MarkerType, Zenon DEF Start, ManagerTypeOK, ProcTypeOK, managerVars
<1>36. CASE ResolveOperation
  BY <1>36, Zenon DEF ResolveOperation, ManagerTypeOK, ProcTypeOK, managerVars
<1>37. CASE UNCHANGED vars
  BY <1>37, Zenon DEF vars, ManagerTypeOK, managerVars
<1> QED
  BY <1>1, <1>2, <1>3, <1>4, <1>5, <1>6, <1>7, <1>8, <1>9, <1>10, <1>11, <1>12,
     <1>13, <1>14, <1>15, <1>16, <1>17, <1>18, <1>19, <1>20, <1>21, <1>22, <1>23,
     <1>24, <1>25, <1>26, <1>27, <1>28, <1>29, <1>30, <1>31, <1>32, <1>33, <1>34,
     <1>35, <1>36, <1>37, ZenonT(30) DEF Next, AutoStep, ManualStep

\* Every step preserves the types.
LEMMA TypeStep == TypeOK /\ [Next]_vars => TypeOK'
BY RepoSteps, RepoTypes, ManagerTypes, ProcTypes, Zenon DEF TypeOK

\* The variables of the repository, the SyncManager, the lock and the goroutines
\* keep their types in every behaviour, for any number of callers and edits.
THEOREM TypeCorrect == Spec => []TypeOK
<1>1. Init => TypeOK
  BY TypeInit, Zenon
<1>2. TypeOK /\ [Next]_vars => TypeOK'
  BY TypeStep, Zenon
<1> QED
  BY <1>1, <1>2, PTL DEF Spec

(***************************************************************************)
(* The lock: one git operation at a time.                                  *)
(***************************************************************************)

\* Who is inside an operation holds the lock, so everybody else is idle.
LEMMA OthersIdle ==
    ASSUME OneGitOperation, NEW p \in Procs, pc[p] # "idle", NEW q \in Procs, q # p
    PROVE  pc[q] = "idle" /\ lock = p
BY Zenon DEF OneGitOperation

\* A free lock means that nobody is inside an operation.
LEMMA AllIdle ==
    ASSUME OneGitOperation, lock = NoHolder, NEW q \in Procs
    PROVE  pc[q] = "idle"
BY Zenon DEF OneGitOperation, Procs

\* The holder moves on.
LEMMA GotoLock ==
    ASSUME ProcTypeOK, OneGitOperation, NEW p \in Procs, NEW from, NEW to,
           Goto(p, from, to), from # "idle", to # "idle", lock' = lock
    PROVE  OneGitOperation'
BY Zenon DEF ProcTypeOK, OneGitOperation, Goto

\* The holder returns.
LEMMA ReleaseLock ==
    ASSUME ProcTypeOK, OneGitOperation, NEW p \in Procs, pc[p] # "idle",
           pc' = [pc EXCEPT ![p] = "idle"], Release
    PROVE  OneGitOperation'
BY Zenon DEF ProcTypeOK, OneGitOperation, Release, Procs

\* A goroutine enters.
LEMMA AcquireLock ==
    ASSUME ProcTypeOK, OneGitOperation, NEW p \in Procs, NEW to,
           TryAcquire(p), Goto(p, "idle", to), to # "idle"
    PROVE  OneGitOperation'
BY Zenon DEF ProcTypeOK, OneGitOperation, TryAcquire, Goto, Procs

\* Every step keeps git operations apart.
LEMMA LockStep ==
    TypeOK /\ OneGitOperation /\ [Next]_vars => OneGitOperation'
<1> SUFFICES ASSUME TypeOK, OneGitOperation, [Next]_vars
             PROVE  OneGitOperation'
  BY Zenon
<1> USE DEF TypeOK
<1>1. ASSUME NEW e \in Edits, SaveNote(e) PROVE OneGitOperation'
  BY <1>1, Zenon DEF SaveNote, OneGitOperation
<1>2. ASSUME NEW e \in Edits, NotifyChange(e) PROVE OneGitOperation'
  BY <1>2, Zenon DEF NotifyChange, OneGitOperation
<1>3. ASSUME NEW e \in Edits, EditWhileDown(e) PROVE OneGitOperation'
  BY <1>3, Zenon DEF EditWhileDown, OneGitOperation
<1>4. ASSUME NEW e \in RemoteEdits, OtherDevicePushes(e) PROVE OneGitOperation'
  BY <1>4, Zenon DEF OtherDevicePushes, OneGitOperation
<1>5. CASE Tick
  BY <1>5, AcquireLock, Zenon DEF Tick, Procs
<1>6. ASSUME NEW c \in Callers, ForceSync(c) PROVE OneGitOperation'
  BY <1>6, AcquireLock, Zenon DEF ForceSync, Procs
<1>7. ASSUME NEW c \in Callers, SyncNow(c) PROVE OneGitOperation'
  BY <1>7, AcquireLock, Zenon DEF SyncNow, BeginGitOperation, Procs
<1>8. ASSUME NEW c \in Callers, GitPush(c) PROVE OneGitOperation'
  BY <1>8, AcquireLock, Zenon DEF GitPush, BeginGitOperation, Procs
<1>9. ASSUME NEW c \in Callers, GitPull(c) PROVE OneGitOperation'
  BY <1>9, AcquireLock, Zenon DEF GitPull, BeginGitOperation, Procs
<1>10. ASSUME NEW p \in Procs, PerformSyncBegin(p) PROVE OneGitOperation'
  BY <1>10, GotoLock, ReleaseLock, Zenon DEF PerformSyncBegin, FinishUnchanged, Finish,
     Within
<1>11. ASSUME NEW p \in Procs, PerformSyncAdd(p) PROVE OneGitOperation'
  BY <1>11, GotoLock, ReleaseLock, ZenonT(30) DEF PerformSyncAdd, FinishUnchanged, Finish,
     Within
<1>12. ASSUME NEW p \in Procs, PerformSyncStatus(p) PROVE OneGitOperation'
  BY <1>12, GotoLock, ReleaseLock, ZenonT(30) DEF PerformSyncStatus, FinishUnchanged, Finish,
     Within
<1>13. ASSUME NEW p \in Procs, PerformSyncCommit(p) PROVE OneGitOperation'
  BY <1>13, GotoLock, ReleaseLock, Zenon DEF PerformSyncCommit, FinishUnchanged, Finish,
     Within
<1>14. ASSUME NEW p \in Procs, RetryPush(p) PROVE OneGitOperation'
  BY <1>14, GotoLock, ReleaseLock, Zenon DEF RetryPush, FinishUnchanged, Finish, Within
<1>15. ASSUME NEW p \in Procs, FirstPush(p) PROVE OneGitOperation'
  BY <1>15, GotoLock, ReleaseLock, Zenon DEF FirstPush, FinishPush, Finish, Within
<1>16. ASSUME NEW p \in Procs, PullRebase(p) PROVE OneGitOperation'
  BY <1>16, GotoLock, ReleaseLock, Zenon DEF PullRebase, FinishPush, Finish, Within
<1>17. ASSUME NEW p \in Procs, FinishRebase(p) PROVE OneGitOperation'
  BY <1>17, GotoLock, ReleaseLock, Zenon DEF FinishRebase, FinishPush, Finish, Within
<1>18. ASSUME NEW p \in Procs, SecondPush(p) PROVE OneGitOperation'
  BY <1>18, GotoLock, Zenon DEF SecondPush, Within
<1>19. ASSUME NEW p \in Procs, ReindexAfterPull(p) PROVE OneGitOperation'
  BY <1>19, ReleaseLock, Zenon DEF ReindexAfterPull, Finish
<1>20. ASSUME NEW c \in Callers, SyncNowAdd(c) PROVE OneGitOperation'
  BY <1>20, GotoLock, ReleaseLock, Zenon DEF SyncNowAdd, Return, Within, Procs
<1>21. ASSUME NEW c \in Callers, SyncNowStatus(c) PROVE OneGitOperation'
  BY <1>21, GotoLock, ReleaseLock, Zenon DEF SyncNowStatus, Return, Within, Procs
<1>22. ASSUME NEW c \in Callers, SyncNowCommit(c) PROVE OneGitOperation'
  BY <1>22, GotoLock, ReleaseLock, Zenon DEF SyncNowCommit, Return, Within, Procs
<1>23. ASSUME NEW c \in Callers, SyncNowPull(c) PROVE OneGitOperation'
  BY <1>23, GotoLock, ReleaseLock, Zenon DEF SyncNowPull, Return, Within, Procs
<1>24. ASSUME NEW c \in Callers, SyncNowRebase(c) PROVE OneGitOperation'
  BY <1>24, GotoLock, ReleaseLock, Zenon DEF SyncNowRebase, Return, Within, Procs
<1>25. ASSUME NEW c \in Callers, SyncNowPush(c) PROVE OneGitOperation'
  BY <1>25, GotoLock, Zenon DEF SyncNowPush, Within, Procs
<1>26. ASSUME NEW c \in Callers, GitPushPush(c) PROVE OneGitOperation'
  BY <1>26, ReleaseLock, Zenon DEF GitPushPush, Return, Procs
<1>27. ASSUME NEW c \in Callers, GitPullPull(c) PROVE OneGitOperation'
  BY <1>27, GotoLock, ReleaseLock, Zenon DEF GitPullPull, Return, Within, Procs
<1>28. ASSUME NEW c \in Callers, GitPullRebase(c) PROVE OneGitOperation'
  BY <1>28, GotoLock, ReleaseLock, Zenon DEF GitPullRebase, Return, Within, Procs
<1>29. ASSUME NEW c \in Callers, ManualReindex(c) PROVE OneGitOperation'
  BY <1>29, ReleaseLock, ZenonT(30) DEF ManualReindex, Procs
<1>30. CASE ReconcileOnStartup
  BY <1>30, Zenon DEF ReconcileOnStartup, OneGitOperation
<1>31. CASE SetGitSyncConfig
  BY <1>31, Zenon DEF SetGitSyncConfig, OneGitOperation
<1>32. CASE IntervalElapses
  BY <1>32, Zenon DEF IntervalElapses, OneGitOperation
<1>33. CASE Shutdown
  BY <1>33, Zenon DEF Shutdown, OneGitOperation
<1>34. CASE Exit
  BY <1>34, Zenon DEF Exit, OneGitOperation, Procs
<1>35. CASE Start
  BY <1>35, Zenon DEF Start, OneGitOperation
<1>36. CASE ResolveOperation
  BY <1>36, Zenon DEF ResolveOperation, OneGitOperation
<1>37. CASE UNCHANGED vars
  BY <1>37, Zenon DEF vars, OneGitOperation
<1> QED
  BY <1>1, <1>2, <1>3, <1>4, <1>5, <1>6, <1>7, <1>8, <1>9, <1>10, <1>11, <1>12,
     <1>13, <1>14, <1>15, <1>16, <1>17, <1>18, <1>19, <1>20, <1>21, <1>22, <1>23,
     <1>24, <1>25, <1>26, <1>27, <1>28, <1>29, <1>30, <1>31, <1>32, <1>33, <1>34,
     <1>35, <1>36, <1>37, Zenon DEF Next, AutoStep, ManualStep

\* A step of the lock holder that leads out of staging and committing.
LEMMA NotCommitting ==
    ASSUME ProcTypeOK, OneGitOperation, NEW p \in Procs, pc[p] # "idle", NEW to,
           to \notin {"add", "status", "commit", "mAdd", "mStatus", "mCommit"},
           pc' = [pc EXCEPT ![p] = to]
    PROVE  NoCommitDuringOperation'
BY OthersIdle, Zenon DEF ProcTypeOK, NoCommitDuringOperation

\* A step after which no operation is unfinished.
LEMMA NothingUnfinished ==
    ASSUME gitOp' = "none"
    PROVE  NoCommitDuringOperation'
BY Zenon DEF NoCommitDuringOperation

\* A goroutine enters while nobody is inside an operation.
LEMMA EnterElsewhere ==
    ASSUME ProcTypeOK, OneGitOperation, NEW p \in Procs, NEW to,
           to \notin {"add", "status", "commit", "mAdd", "mStatus", "mCommit"},
           TryAcquire(p), Goto(p, "idle", to)
    PROVE  NoCommitDuringOperation'
BY AllIdle, ZenonT(30) DEF ProcTypeOK, NoCommitDuringOperation, TryAcquire, Goto

\* Every step keeps staging and committing away from unfinished operations.
LEMMA OperationStep ==
    TypeOK /\ OneGitOperation /\ NoCommitDuringOperation /\ [Next]_vars
        => NoCommitDuringOperation'
<1> SUFFICES ASSUME TypeOK, OneGitOperation, NoCommitDuringOperation, [Next]_vars
             PROVE  NoCommitDuringOperation'
  BY Zenon
<1> USE DEF TypeOK
<1>1. ASSUME NEW e \in Edits, SaveNote(e) PROVE NoCommitDuringOperation'
  BY <1>1, Zenon DEF SaveNote, NoCommitDuringOperation, WriteNote
<1>2. ASSUME NEW e \in Edits, NotifyChange(e) PROVE NoCommitDuringOperation'
  BY <1>2, Zenon DEF NotifyChange, NoCommitDuringOperation, repoVars
<1>3. ASSUME NEW e \in Edits, EditWhileDown(e) PROVE NoCommitDuringOperation'
  BY <1>3, Zenon DEF EditWhileDown, NoCommitDuringOperation, WriteNote
<1>4. ASSUME NEW e \in RemoteEdits, OtherDevicePushes(e) PROVE NoCommitDuringOperation'
  BY <1>4, Zenon DEF OtherDevicePushes, NoCommitDuringOperation, RemoteMoves
<1>5. CASE Tick
  BY <1>5, EnterElsewhere, Zenon DEF Tick, Procs
<1>6. ASSUME NEW c \in Callers, ForceSync(c) PROVE NoCommitDuringOperation'
  BY <1>6, EnterElsewhere, Zenon DEF ForceSync, Procs
<1>7. ASSUME NEW c \in Callers, SyncNow(c) PROVE NoCommitDuringOperation'
  BY <1>7, NothingUnfinished, Zenon DEF SyncNow, BeginGitOperation, Event
<1>8. ASSUME NEW c \in Callers, GitPush(c) PROVE NoCommitDuringOperation'
  BY <1>8, EnterElsewhere, Zenon DEF GitPush, BeginGitOperation, Procs
<1>9. ASSUME NEW c \in Callers, GitPull(c) PROVE NoCommitDuringOperation'
  BY <1>9, EnterElsewhere, Zenon DEF GitPull, BeginGitOperation, Procs
<1>10. ASSUME NEW p \in Procs, PerformSyncBegin(p) PROVE NoCommitDuringOperation'
  BY <1>10, NotCommitting, NothingUnfinished, Zenon DEF PerformSyncBegin, FinishUnchanged,
     Finish, Fetch, CommandFails
<1>11. ASSUME NEW p \in Procs, PerformSyncAdd(p) PROVE NoCommitDuringOperation'
  BY <1>11, NotCommitting, NothingUnfinished, ZenonT(30) DEF PerformSyncAdd,
     NoCommitDuringOperation, Goto, FinishUnchanged, Finish, repoVars, Add
<1>12. ASSUME NEW p \in Procs, PerformSyncStatus(p) PROVE NoCommitDuringOperation'
  BY <1>12, NotCommitting, NothingUnfinished, ZenonT(30) DEF PerformSyncStatus,
     NoCommitDuringOperation, Goto, FinishUnchanged, Finish, repoVars
<1>13. ASSUME NEW p \in Procs, PerformSyncCommit(p) PROVE NoCommitDuringOperation'
  BY <1>13, NotCommitting, ZenonT(30) DEF PerformSyncCommit, Goto, FinishUnchanged, Finish
<1>14. ASSUME NEW p \in Procs, RetryPush(p) PROVE NoCommitDuringOperation'
  BY <1>14, NotCommitting, Zenon DEF RetryPush, Goto, FinishUnchanged, Finish
<1>15. ASSUME NEW p \in Procs, FirstPush(p) PROVE NoCommitDuringOperation'
  BY <1>15, NotCommitting DEF FirstPush, Goto, FinishPush, Finish
<1>16. ASSUME NEW p \in Procs, PullRebase(p) PROVE NoCommitDuringOperation'
  BY <1>16, NotCommitting DEF PullRebase, Goto, FinishPush, Finish
<1>17. ASSUME NEW p \in Procs, FinishRebase(p) PROVE NoCommitDuringOperation'
  BY <1>17, NotCommitting DEF FinishRebase, Goto, FinishPush, Finish
<1>18. ASSUME NEW p \in Procs, SecondPush(p) PROVE NoCommitDuringOperation'
  BY <1>18, NotCommitting, Zenon DEF SecondPush, Goto
<1>19. ASSUME NEW p \in Procs, ReindexAfterPull(p) PROVE NoCommitDuringOperation'
  BY <1>19, NotCommitting, Zenon DEF ReindexAfterPull, Finish
<1>20. ASSUME NEW c \in Callers, SyncNowAdd(c) PROVE NoCommitDuringOperation'
  BY <1>20, NotCommitting, NothingUnfinished, Zenon DEF SyncNowAdd,
     NoCommitDuringOperation, Goto, Return, Procs, repoVars, Add
<1>21. ASSUME NEW c \in Callers, SyncNowStatus(c) PROVE NoCommitDuringOperation'
  BY <1>21, NotCommitting, NothingUnfinished, Zenon DEF SyncNowStatus,
     NoCommitDuringOperation, Goto, Return, Procs, repoVars
<1>22. ASSUME NEW c \in Callers, SyncNowCommit(c) PROVE NoCommitDuringOperation'
  BY <1>22, NotCommitting, Zenon DEF SyncNowCommit, Goto, Return, Procs
<1>23. ASSUME NEW c \in Callers, SyncNowPull(c) PROVE NoCommitDuringOperation'
  BY <1>23, NotCommitting, Zenon DEF SyncNowPull, Goto, Return, Procs
<1>24. ASSUME NEW c \in Callers, SyncNowRebase(c) PROVE NoCommitDuringOperation'
  BY <1>24, NotCommitting, Zenon DEF SyncNowRebase, Goto, Return, Procs
<1>25. ASSUME NEW c \in Callers, SyncNowPush(c) PROVE NoCommitDuringOperation'
  BY <1>25, NotCommitting, Zenon DEF SyncNowPush, Goto, Procs
<1>26. ASSUME NEW c \in Callers, GitPushPush(c) PROVE NoCommitDuringOperation'
  BY <1>26, NotCommitting, Zenon DEF GitPushPush, Return, Procs
<1>27. ASSUME NEW c \in Callers, GitPullPull(c) PROVE NoCommitDuringOperation'
  BY <1>27, NotCommitting, Zenon DEF GitPullPull, Goto, Return, Procs
<1>28. ASSUME NEW c \in Callers, GitPullRebase(c) PROVE NoCommitDuringOperation'
  BY <1>28, NotCommitting, Zenon DEF GitPullRebase, Goto, Return, Procs
<1>29. ASSUME NEW c \in Callers, ManualReindex(c) PROVE NoCommitDuringOperation'
  BY <1>29, NotCommitting, ZenonT(30) DEF ManualReindex, Procs
<1>30. CASE ReconcileOnStartup
  BY <1>30, Zenon DEF ReconcileOnStartup, NoCommitDuringOperation, CommandFails, repoVars
<1>31. CASE SetGitSyncConfig
  BY <1>31, Zenon DEF SetGitSyncConfig, NoCommitDuringOperation, Event
<1>32. CASE IntervalElapses
  BY <1>32, Zenon DEF IntervalElapses, NoCommitDuringOperation, repoVars
<1>33. CASE Shutdown
  BY <1>33, Zenon DEF Shutdown, NoCommitDuringOperation, repoVars
<1>34. CASE Exit
  BY <1>34, Zenon DEF Exit, NoCommitDuringOperation
<1>35. CASE Start
  BY <1>35, Zenon DEF Start, NoCommitDuringOperation, repoVars
<1>36. CASE ResolveOperation
  BY <1>36, NothingUnfinished, Zenon DEF ResolveOperation, RebaseDone, Abort
<1>37. CASE UNCHANGED vars
  BY <1>37, ZenonT(30) DEF vars, repoVars, NoCommitDuringOperation
<1> QED
  BY <1>1, <1>2, <1>3, <1>4, <1>5, <1>6, <1>7, <1>8, <1>9, <1>10, <1>11, <1>12,
     <1>13, <1>14, <1>15, <1>16, <1>17, <1>18, <1>19, <1>20, <1>21, <1>22, <1>23,
     <1>24, <1>25, <1>26, <1>27, <1>28, <1>29, <1>30, <1>31, <1>32, <1>33, <1>34,
     <1>35, <1>36, <1>37, ZenonT(30) DEF Next, AutoStep, ManualStep

(***************************************************************************)
(* The queue of reasons.                                                   *)
(***************************************************************************)

\* A step leaves the queue alone,
Untouched == reasons' = reasons /\ recorded' = recorded

\* or appends a reason: that of an edit that was written, or the marker,
Announced ==
    \E r \in unnotified \cup {Marker} :
        /\ reasons' = Append(reasons, r)
        /\ recorded' \subseteq recorded \cup {r}

\* or, in a cycle that has staged and committed what it read, clears its share,
Cleared ==
    \E p \in Procs :
        /\ pc[p] \in {"status", "commit"}
        /\ reasons' = ClearPendingState(consumed[p])
        /\ recorded' = recorded
        /\ index \subseteq head'

\* or begins or ends a session.
Reset == recorded' = {} /\ reasons' \in {<<>>, <<Marker>>}

QueueChange == Untouched \/ Announced \/ Cleared \/ Reset

\* Every step changes the queue in one of these ways.
LEMMA QueueStep ==
    NothingWhileDown /\ [Next]_vars => QueueChange
<1> SUFFICES ASSUME NothingWhileDown, [Next]_vars
             PROVE  QueueChange
  BY Zenon
<1> USE DEF QueueChange
<1>1. ASSUME NEW e \in Edits, SaveNote(e) PROVE QueueChange
  BY <1>1, Zenon DEF SaveNote, Untouched
<1>2. ASSUME NEW e \in Edits, NotifyChange(e) PROVE QueueChange
  BY <1>2, Zenon DEF NotifyChange, Notified, Untouched, Announced
<1>3. ASSUME NEW e \in Edits, EditWhileDown(e) PROVE QueueChange
  BY <1>3, Zenon DEF EditWhileDown, managerVars, Untouched
<1>4. ASSUME NEW e \in RemoteEdits, OtherDevicePushes(e) PROVE QueueChange
  BY <1>4, Zenon DEF OtherDevicePushes, managerVars, Untouched
<1>5. CASE Tick
  BY <1>5, Zenon DEF Tick, managerVars, Untouched
<1>6. ASSUME NEW c \in Callers, ForceSync(c) PROVE QueueChange
  BY <1>6, Zenon DEF ForceSync, managerVars, Untouched
<1>7. ASSUME NEW c \in Callers, SyncNow(c) PROVE QueueChange
  BY <1>7, Zenon DEF SyncNow, BeginGitOperation, managerVars, Untouched
<1>8. ASSUME NEW c \in Callers, GitPush(c) PROVE QueueChange
  BY <1>8, Zenon DEF GitPush, BeginGitOperation, managerVars, Untouched
<1>9. ASSUME NEW c \in Callers, GitPull(c) PROVE QueueChange
  BY <1>9, Zenon DEF GitPull, BeginGitOperation, managerVars, Untouched
<1>10. ASSUME NEW p \in Procs, PerformSyncBegin(p) PROVE QueueChange
  BY <1>10, Zenon DEF PerformSyncBegin, FinishUnchanged, Finish, Within, managerVars,
     Untouched
<1>11. ASSUME NEW p \in Procs, PerformSyncAdd(p) PROVE QueueChange
  BY <1>11, ZenonT(30) DEF PerformSyncAdd, FinishUnchanged, Finish, Within, managerVars,
     Untouched
<1>12. ASSUME NEW p \in Procs, PerformSyncStatus(p) PROVE QueueChange
  BY <1>12, ZenonT(30) DEF PerformSyncStatus, Goto, Clean, Within, Finish, FinishUnchanged,
     managerVars, repoVars, CommandFails, Untouched, Cleared
<1>13. ASSUME NEW p \in Procs, PerformSyncCommit(p) PROVE QueueChange
  BY <1>13, Zenon DEF PerformSyncCommit, Goto, Commit, CommitNothing, Finish,
     FinishUnchanged, managerVars, repoVars, Untouched, Cleared
<1>14. ASSUME NEW p \in Procs, RetryPush(p) PROVE QueueChange
  BY <1>14, Zenon DEF RetryPush, FinishUnchanged, Finish, Within, managerVars, Untouched
<1>15. ASSUME NEW p \in Procs, FirstPush(p) PROVE QueueChange
  BY <1>15, Zenon DEF FirstPush, FinishPush, Finish, Within, managerVars, Untouched
<1>16. ASSUME NEW p \in Procs, PullRebase(p) PROVE QueueChange
  BY <1>16, Zenon DEF PullRebase, FinishPush, Finish, Within, managerVars, Untouched
<1>17. ASSUME NEW p \in Procs, FinishRebase(p) PROVE QueueChange
  BY <1>17, Zenon DEF FinishRebase, FinishPush, Finish, Within, managerVars, Untouched
<1>18. ASSUME NEW p \in Procs, SecondPush(p) PROVE QueueChange
  BY <1>18, Zenon DEF SecondPush, Within, managerVars, Untouched
<1>19. ASSUME NEW p \in Procs, ReindexAfterPull(p) PROVE QueueChange
  BY <1>19, Zenon DEF ReindexAfterPull, Notified, Untouched, Announced, Finish
<1>20. ASSUME NEW c \in Callers, SyncNowAdd(c) PROVE QueueChange
  BY <1>20, Zenon DEF SyncNowAdd, Within, Return, managerVars, Untouched
<1>21. ASSUME NEW c \in Callers, SyncNowStatus(c) PROVE QueueChange
  BY <1>21, Zenon DEF SyncNowStatus, Within, Return, managerVars, Untouched
<1>22. ASSUME NEW c \in Callers, SyncNowCommit(c) PROVE QueueChange
  BY <1>22, Zenon DEF SyncNowCommit, Within, Return, managerVars, Untouched
<1>23. ASSUME NEW c \in Callers, SyncNowPull(c) PROVE QueueChange
  BY <1>23, Zenon DEF SyncNowPull, Within, Return, managerVars, Untouched
<1>24. ASSUME NEW c \in Callers, SyncNowRebase(c) PROVE QueueChange
  BY <1>24, Zenon DEF SyncNowRebase, Within, Return, managerVars, Untouched
<1>25. ASSUME NEW c \in Callers, SyncNowPush(c) PROVE QueueChange
  BY <1>25, Zenon DEF SyncNowPush, Within, managerVars, Untouched
<1>26. ASSUME NEW c \in Callers, GitPushPush(c) PROVE QueueChange
  BY <1>26, Zenon DEF GitPushPush, Return, managerVars, Untouched
<1>27. ASSUME NEW c \in Callers, GitPullPull(c) PROVE QueueChange
  BY <1>27, Zenon DEF GitPullPull, Within, Return, managerVars, Untouched
<1>28. ASSUME NEW c \in Callers, GitPullRebase(c) PROVE QueueChange
  BY <1>28, ZenonT(30) DEF GitPullRebase, Within, Return, managerVars, Untouched
<1>29. ASSUME NEW c \in Callers, ManualReindex(c) PROVE QueueChange
  BY <1>29, Zenon DEF ManualReindex, Notified, Untouched, Announced
<1>30. CASE ReconcileOnStartup
  BY <1>30, Zenon DEF ReconcileOnStartup, Notified, Untouched, Announced
<1>31. CASE SetGitSyncConfig
  BY <1>31, Zenon DEF SetGitSyncConfig, managerVars, Untouched
<1>32. CASE IntervalElapses
  BY <1>32, Zenon DEF IntervalElapses, Untouched
<1>33. CASE Shutdown
  BY <1>33, Zenon DEF Shutdown, managerVars, Untouched
<1>34. CASE Exit
  BY <1>34, Zenon DEF Exit, Reset
<1>35. CASE Start
  BY <1>35, Zenon DEF Start, Reset, NothingWhileDown
<1>36. CASE ResolveOperation
  BY <1>36, Zenon DEF ResolveOperation, managerVars, Untouched
<1>37. CASE UNCHANGED vars
  BY <1>37, Zenon DEF vars, managerVars, Untouched
<1> QED
  BY <1>1, <1>2, <1>3, <1>4, <1>5, <1>6, <1>7, <1>8, <1>9, <1>10, <1>11, <1>12,
     <1>13, <1>14, <1>15, <1>16, <1>17, <1>18, <1>19, <1>20, <1>21, <1>22, <1>23,
     <1>24, <1>25, <1>26, <1>27, <1>28, <1>29, <1>30, <1>31, <1>32, <1>33, <1>34,
     <1>35, <1>36, <1>37, ZenonT(30) DEF Next, AutoStep, ManualStep

\* What clearPendingState keeps is the tail of the queue.
LEMMA ClearKeepsTail ==
    ASSUME reasons \in Seq(Reasons), NEW n \in Nat
    PROVE  LET s == ClearPendingState(n)
           IN  /\ \A i \in 1..Len(s) : i + n \in 1..Len(reasons) /\ s[i] = reasons[i + n]
               /\ \A i \in 1..Len(reasons) : i > n => i - n \in 1..Len(s) /\ s[i - n] = reasons[i]
BY DEF ClearPendingState

\* No step of the queue loses a recorded change.
LEMMA RecordedStep ==
    TypeOK /\ RepoOrder /\ Snapshot /\ NothingWhileDown /\ NoRecordedChangeDropped
       /\ [Next]_vars => NoRecordedChangeDropped'
<1> SUFFICES ASSUME TypeOK, RepoOrder, Snapshot, NothingWhileDown,
                    NoRecordedChangeDropped, [Next]_vars,
                    NEW e \in recorded'
             PROVE  \/ e \in (head \cup wiped)'
                    \/ \E i \in 1..Len(reasons') : reasons'[i] = e
  BY Zenon DEF NoRecordedChangeDropped
<1> reasons \in Seq(Reasons) /\ recorded \subseteq Edits
  BY Zenon DEF TypeOK, ManagerTypeOK
<1>1. head \cup wiped \subseteq (head \cup wiped)'
  BY RepoSteps, CommitsKept, WrittenKept, Zenon
<1>2. CASE Untouched
  BY <1>1, <1>2, Zenon DEF Untouched, NoRecordedChangeDropped
<1>3. CASE Announced
  <2>1. PICK r \in unnotified \cup {Marker} :
            reasons' = Append(reasons, r) /\ recorded' \subseteq recorded \cup {r}
    BY <1>3, Zenon DEF Announced
  <2>2. r \in Reasons
    BY <2>1, Zenon DEF TypeOK, ManagerTypeOK, Reasons
  <2>3. /\ Len(reasons') = Len(reasons) + 1
        /\ reasons'[Len(reasons) + 1] = r
        /\ \A i \in 1..Len(reasons) : reasons'[i] = reasons[i]
    BY <2>1, <2>2
  <2>4. CASE e = r
    BY <2>3, <2>4, SMTT(30)
  <2>5. CASE e \in recorded
    BY <1>1, <2>3, <2>5 DEF NoRecordedChangeDropped
  <2> QED
    BY <2>1, <2>4, <2>5, Zenon
<1>4. CASE Cleared
  <2>1. PICK p \in Procs : /\ pc[p] \in {"status", "commit"}
                           /\ reasons' = ClearPendingState(consumed[p])
                           /\ recorded' = recorded
                           /\ index \subseteq head'
    BY <1>4, Zenon DEF Cleared
  <2>2. consumed[p] \in Nat
    BY Zenon DEF TypeOK, ProcTypeOK
  <2>3. CASE e \in head \cup wiped
    BY <1>1, <2>3, Zenon
  <2>4. ASSUME NEW i \in 1..Len(reasons), reasons[i] = e
        PROVE  \/ e \in (head \cup wiped)'
               \/ \E j \in 1..Len(reasons') : reasons'[j] = e
    <3>1. CASE i <= consumed[p]
      <4>1. i \in 1..consumed[p]
        BY <2>2, <3>1
      <4>2. e \in index \cup wiped
        BY <2>1, <2>4, <4>1, ZenonT(30) DEF Snapshot
      <4> QED
        BY <1>1, <2>1, <4>2, Zenon
    <3>2. CASE i > consumed[p]
      <4>1. /\ i - consumed[p] \in 1..Len(reasons')
            /\ reasons'[i - consumed[p]] = reasons[i]
        BY <2>1, <2>2, <3>2, ClearKeepsTail, ZenonT(30)
      <4> QED
        BY <2>4, <4>1, Zenon
    <3> QED
      BY <2>2, <3>1, <3>2
  <2> QED
    BY <2>1, <2>3, <2>4, ZenonT(30) DEF NoRecordedChangeDropped
<1>5. CASE Reset
  BY <1>5, Zenon DEF Reset
<1> QED
  BY <1>2, <1>3, <1>4, <1>5, QueueStep, Zenon DEF QueueChange

\* Only a write puts an edit on the way to NotifyChange.
LEMMA UnnotifiedStep ==
    [Next]_vars => unnotified' \subseteq unnotified \cup tree'
<1> SUFFICES ASSUME [Next]_vars
             PROVE  unnotified' \subseteq unnotified \cup tree'
  BY Zenon
<1>1. ASSUME NEW e \in Edits, SaveNote(e) PROVE unnotified' \subseteq unnotified \cup tree'
  BY <1>1, Zenon DEF SaveNote, WriteNote, AnnouncedIsWritten
<1>2. ASSUME NEW e \in Edits, NotifyChange(e) PROVE unnotified' \subseteq unnotified \cup tree'
  BY <1>2, Zenon DEF NotifyChange
<1>3. ASSUME NEW e \in Edits, EditWhileDown(e) PROVE unnotified' \subseteq unnotified \cup tree'
  BY <1>3, Zenon DEF EditWhileDown, managerVars
<1>4. ASSUME NEW e \in RemoteEdits, OtherDevicePushes(e) PROVE unnotified' \subseteq unnotified \cup tree'
  BY <1>4, Zenon DEF OtherDevicePushes, managerVars
<1>5. CASE Tick
  BY <1>5, Zenon DEF Tick, managerVars
<1>6. ASSUME NEW c \in Callers, ForceSync(c) PROVE unnotified' \subseteq unnotified \cup tree'
  BY <1>6, Zenon DEF ForceSync, managerVars
<1>7. ASSUME NEW c \in Callers, SyncNow(c) PROVE unnotified' \subseteq unnotified \cup tree'
  BY <1>7, Zenon DEF SyncNow, BeginGitOperation, managerVars
<1>8. ASSUME NEW c \in Callers, GitPush(c) PROVE unnotified' \subseteq unnotified \cup tree'
  BY <1>8, Zenon DEF GitPush, BeginGitOperation, managerVars
<1>9. ASSUME NEW c \in Callers, GitPull(c) PROVE unnotified' \subseteq unnotified \cup tree'
  BY <1>9, Zenon DEF GitPull, BeginGitOperation, managerVars
<1>10. ASSUME NEW p \in Procs, PerformSyncBegin(p) PROVE unnotified' \subseteq unnotified \cup tree'
  BY <1>10, Zenon DEF PerformSyncBegin, FinishUnchanged, Finish, Within, managerVars
<1>11. ASSUME NEW p \in Procs, PerformSyncAdd(p) PROVE unnotified' \subseteq unnotified \cup tree'
  BY <1>11, ZenonT(30) DEF PerformSyncAdd, FinishUnchanged, Finish, Within, managerVars
<1>12. ASSUME NEW p \in Procs, PerformSyncStatus(p) PROVE unnotified' \subseteq unnotified \cup tree'
  BY <1>12, ZenonT(30) DEF PerformSyncStatus, FinishUnchanged, Finish, Within, managerVars
<1>13. ASSUME NEW p \in Procs, PerformSyncCommit(p) PROVE unnotified' \subseteq unnotified \cup tree'
  BY <1>13, ZenonT(30) DEF PerformSyncCommit, FinishUnchanged, Finish, Within, managerVars
<1>14. ASSUME NEW p \in Procs, RetryPush(p) PROVE unnotified' \subseteq unnotified \cup tree'
  BY <1>14, Zenon DEF RetryPush, FinishUnchanged, Finish, Within, managerVars
<1>15. ASSUME NEW p \in Procs, FirstPush(p) PROVE unnotified' \subseteq unnotified \cup tree'
  BY <1>15, Zenon DEF FirstPush, FinishPush, Finish, Within, managerVars
<1>16. ASSUME NEW p \in Procs, PullRebase(p) PROVE unnotified' \subseteq unnotified \cup tree'
  BY <1>16, Zenon DEF PullRebase, FinishPush, Finish, Within, managerVars
<1>17. ASSUME NEW p \in Procs, FinishRebase(p) PROVE unnotified' \subseteq unnotified \cup tree'
  BY <1>17, Zenon DEF FinishRebase, FinishPush, Finish, Within, managerVars
<1>18. ASSUME NEW p \in Procs, SecondPush(p) PROVE unnotified' \subseteq unnotified \cup tree'
  BY <1>18, Zenon DEF SecondPush, Within, managerVars
<1>19. ASSUME NEW p \in Procs, ReindexAfterPull(p) PROVE unnotified' \subseteq unnotified \cup tree'
  BY <1>19, Zenon DEF ReindexAfterPull, Finish
<1>20. ASSUME NEW c \in Callers, SyncNowAdd(c) PROVE unnotified' \subseteq unnotified \cup tree'
  BY <1>20, Zenon DEF SyncNowAdd, Within, Return, managerVars
<1>21. ASSUME NEW c \in Callers, SyncNowStatus(c) PROVE unnotified' \subseteq unnotified \cup tree'
  BY <1>21, Zenon DEF SyncNowStatus, Within, Return, managerVars
<1>22. ASSUME NEW c \in Callers, SyncNowCommit(c) PROVE unnotified' \subseteq unnotified \cup tree'
  BY <1>22, Zenon DEF SyncNowCommit, Within, Return, managerVars
<1>23. ASSUME NEW c \in Callers, SyncNowPull(c) PROVE unnotified' \subseteq unnotified \cup tree'
  BY <1>23, Zenon DEF SyncNowPull, Within, Return, managerVars
<1>24. ASSUME NEW c \in Callers, SyncNowRebase(c) PROVE unnotified' \subseteq unnotified \cup tree'
  BY <1>24, Zenon DEF SyncNowRebase, Within, Return, managerVars
<1>25. ASSUME NEW c \in Callers, SyncNowPush(c) PROVE unnotified' \subseteq unnotified \cup tree'
  BY <1>25, Zenon DEF SyncNowPush, Within, managerVars
<1>26. ASSUME NEW c \in Callers, GitPushPush(c) PROVE unnotified' \subseteq unnotified \cup tree'
  BY <1>26, Zenon DEF GitPushPush, Return, managerVars
<1>27. ASSUME NEW c \in Callers, GitPullPull(c) PROVE unnotified' \subseteq unnotified \cup tree'
  BY <1>27, Zenon DEF GitPullPull, Within, Return, managerVars
<1>28. ASSUME NEW c \in Callers, GitPullRebase(c) PROVE unnotified' \subseteq unnotified \cup tree'
  BY <1>28, ZenonT(30) DEF GitPullRebase, Within, Return, managerVars
<1>29. ASSUME NEW c \in Callers, ManualReindex(c) PROVE unnotified' \subseteq unnotified \cup tree'
  BY <1>29, Zenon DEF ManualReindex
<1>30. CASE ReconcileOnStartup
  BY <1>30, Zenon DEF ReconcileOnStartup
<1>31. CASE SetGitSyncConfig
  BY <1>31, Zenon DEF SetGitSyncConfig, managerVars
<1>32. CASE IntervalElapses
  BY <1>32, Zenon DEF IntervalElapses
<1>33. CASE Shutdown
  BY <1>33, Zenon DEF Shutdown, managerVars
<1>34. CASE Exit
  BY <1>34, Zenon DEF Exit
<1>35. CASE Start
  BY <1>35, Zenon DEF Start
<1>36. CASE ResolveOperation
  BY <1>36, Zenon DEF ResolveOperation, managerVars
<1>37. CASE UNCHANGED vars
  BY <1>37, Zenon DEF vars, managerVars
<1> QED
  BY <1>1, <1>2, <1>3, <1>4, <1>5, <1>6, <1>7, <1>8, <1>9, <1>10, <1>11, <1>12,
     <1>13, <1>14, <1>15, <1>16, <1>17, <1>18, <1>19, <1>20, <1>21, <1>22, <1>23,
     <1>24, <1>25, <1>26, <1>27, <1>28, <1>29, <1>30, <1>31, <1>32, <1>33, <1>34,
     <1>35, <1>36, <1>37, ZenonT(30) DEF Next, AutoStep, ManualStep

\* What waits in the queue, or is about to enter it, is on disk.
LEMMA WrittenStep ==
    TypeOK /\ AnnouncedIsWritten /\ NothingWhileDown /\ [Next]_vars => AnnouncedIsWritten'
<1> SUFFICES ASSUME TypeOK, AnnouncedIsWritten, NothingWhileDown, [Next]_vars
             PROVE  AnnouncedIsWritten'
  BY Zenon
<1> reasons \in Seq(Reasons)
  BY Zenon DEF TypeOK, ManagerTypeOK
<1>1. tree \cup wiped \subseteq (tree \cup wiped)'
  BY RepoSteps, WrittenKept, Zenon
<1>2. unnotified' \subseteq (tree \cup wiped)'
  BY <1>1, UnnotifiedStep, Zenon DEF AnnouncedIsWritten
<1> SUFFICES ASSUME NEW i \in 1..Len(reasons'), reasons'[i] \in Edits
             PROVE  reasons'[i] \in (tree \cup wiped)'
  BY <1>2, Zenon DEF AnnouncedIsWritten
<1>3. CASE Untouched
  BY <1>1, <1>3, Zenon DEF Untouched, AnnouncedIsWritten
<1>4. CASE Announced
  <2>1. PICK r \in unnotified \cup {Marker} : reasons' = Append(reasons, r)
    BY <1>4, Zenon DEF Announced
  <2>2. r \in Reasons
    BY <2>1, Zenon DEF TypeOK, ManagerTypeOK, Reasons
  <2>3. CASE i \in 1..Len(reasons)
    <3>1. reasons'[i] = reasons[i]
      BY <2>1, <2>2, <2>3
    <3> QED
      BY <1>1, <2>3, <3>1, Zenon DEF AnnouncedIsWritten
  <2>4. CASE i = Len(reasons) + 1
    <3>1. reasons'[i] = r
      BY <2>1, <2>2, <2>4
    <3>2. r \in unnotified
      BY <2>1, <3>1, Zenon
    <3> QED
      BY <1>1, <3>1, <3>2, Zenon DEF AnnouncedIsWritten
  <2>5. Len(reasons') = Len(reasons) + 1
    BY <2>1, <2>2
  <2> QED
    BY <2>3, <2>4, <2>5
<1>5. CASE Cleared
  <2>1. PICK p \in Procs : reasons' = ClearPendingState(consumed[p])
    BY <1>5, Zenon DEF Cleared
  <2>2. consumed[p] \in Nat
    BY ZenonT(30) DEF TypeOK, ProcTypeOK
  <2>3. PICK j \in 1..Len(reasons) : reasons'[i] = reasons[j]
    BY <2>1, <2>2, ClearKeepsTail, SMTT(30)
  <2> QED
    BY <1>1, <2>3, Zenon DEF AnnouncedIsWritten
<1>6. CASE Reset
  BY <1>6 DEF Reset
<1> QED
  BY <1>3, <1>4, <1>5, <1>6, QueueStep, Zenon DEF QueueChange

(***************************************************************************)
(* The snapshot a cycle works on.                                          *)
(***************************************************************************)

\* A step of the lock holder that leads out of the part that uses the snapshot.
LEMMA SnapshotUsed ==
    ASSUME ProcTypeOK, OneGitOperation, NEW p \in Procs, pc[p] # "idle", NEW to,
           to \notin {"sync", "add", "status", "commit"}, pc' = [pc EXCEPT ![p] = to]
    PROVE  Snapshot'
BY OthersIdle, Zenon DEF ProcTypeOK, Snapshot

\* Nobody is inside an operation after the step, or only somebody who needs none.
LEMMA EnterWithoutSnapshot ==
    ASSUME ProcTypeOK, OneGitOperation, NEW p \in Procs, NEW to,
           to \notin {"sync", "add", "status", "commit"}, TryAcquire(p), Goto(p, "idle", to)
    PROVE  Snapshot'
BY AllIdle, Zenon DEF ProcTypeOK, Snapshot, TryAcquire, Goto

\* A cycle begins with the whole queue.
LEMMA EnterWithSnapshot ==
    ASSUME TypeOK, OneGitOperation, NEW p \in Procs, NEW to \in {"sync", "retry"},
           TryAcquire(p), Goto(p, "idle", to), reasons' = reasons,
           consumed' = [consumed EXCEPT ![p] = Len(reasons)]
    PROVE  Snapshot'
<1>1. pc' = [pc EXCEPT ![p] = to] /\ \A q \in Procs : pc[q] = "idle"
  BY AllIdle, Zenon DEF TryAcquire, Goto
<1>2. Len(reasons) \in Nat
  BY DEF TypeOK, ManagerTypeOK
<1> QED
  BY <1>1, <1>2 DEF TypeOK, ProcTypeOK, Snapshot

\* NotifyChange appends at the end: the reasons before it keep their places.
LEMMA AppendGrows ==
    ASSUME NEW S, NEW s \in Seq(S), NEW r \in S, NEW t \in {s, Append(s, r)}
    PROVE  /\ Len(t) \in Nat /\ Len(s) \in Nat /\ Len(s) <= Len(t)
           /\ \A i \in 1..Len(s) : t[i] = s[i]
           /\ t = Append(s, r) => Len(t) = Len(s) + 1 /\ t[Len(s) + 1] = r
BY SMT

\* An appended reason leaves the ones before it alone.
LEMMA QueueGrows ==
    ASSUME TypeOK, NEW r \in Reasons, reasons' \in {reasons, Append(reasons, r)}
    PROVE  /\ Len(reasons') \in Nat /\ Len(reasons) \in Nat
           /\ Len(reasons) <= Len(reasons')
           /\ \A i \in 1..Len(reasons) : reasons'[i] = reasons[i]
<1>1. reasons \in Seq(Reasons)
  BY Zenon DEF TypeOK, ManagerTypeOK
<1> QED
  BY <1>1, AppendGrows, SMTT(30)

\* A step outside the cycles: they stand still, the queue may grow.
LEMMA SnapshotStays ==
    ASSUME TypeOK, Snapshot, NEW r \in Reasons, reasons' \in {reasons, Append(reasons, r)},
           UNCHANGED <<pc, consumed>>, index' = index, wiped \subseteq wiped'
    PROVE  Snapshot'
<1> SUFFICES ASSUME NEW p \in Procs,
                    pc[p] \in {"sync", "add", "status", "commit"}
             PROVE  /\ consumed[p] <= Len(reasons')
                    /\ pc[p] \in {"status", "commit"} =>
                          \A i \in 1..consumed[p] :
                              reasons'[i] \in Edits => reasons'[i] \in index \cup wiped'
  BY Zenon DEF Snapshot
<1>1. consumed[p] \in Nat /\ consumed[p] <= Len(reasons)
  BY Zenon DEF TypeOK, ProcTypeOK, Snapshot
<1>2. consumed[p] <= Len(reasons')
  BY <1>1, QueueGrows
<1>3. ASSUME pc[p] \in {"status", "commit"}, NEW i \in 1..consumed[p], reasons'[i] \in Edits
      PROVE  reasons'[i] \in index \cup wiped'
  <2>1. reasons'[i] = reasons[i]
    <3>1. i \in 1..Len(reasons)
      <4>1. Len(reasons) \in Nat
        BY QueueGrows, Zenon
      <4> QED
        BY <1>1, <4>1, SMT
    <3> QED
      BY <3>1, QueueGrows, Zenon
  <2> QED
    BY <1>3, <2>1, Zenon DEF Snapshot
<1> QED
  BY <1>2, <1>3, ZenonT(30)

\* Every step preserves the snapshot of the cycle in flight.
LEMMA SnapshotStep ==
    SyncInvariant /\ [Next]_vars => Snapshot'
<1> SUFFICES ASSUME SyncInvariant, [Next]_vars
             PROVE  Snapshot'
  BY Zenon
<1> USE DEF SyncInvariant, TypeOK
<1>1. ASSUME NEW e \in Edits, SaveNote(e) PROVE Snapshot'
  BY <1>1, MarkerType, SnapshotStays, Zenon DEF SaveNote, localVars, WriteNote
<1>2. ASSUME NEW e \in Edits, NotifyChange(e) PROVE Snapshot'
  <2>1. e \in Reasons /\ reasons' \in {reasons, Append(reasons, e)}
    BY <1>2, Zenon DEF NotifyChange, Notified, Reasons
  <2> QED
    BY <1>2, <2>1, SnapshotStays, Zenon DEF NotifyChange, repoVars, localVars
<1>3. ASSUME NEW e \in Edits, EditWhileDown(e) PROVE Snapshot'
  BY <1>3, MarkerType, SnapshotStays, Zenon DEF EditWhileDown, localVars, WriteNote,
     managerVars
<1>4. ASSUME NEW e \in RemoteEdits, OtherDevicePushes(e) PROVE Snapshot'
  BY <1>4, MarkerType, SnapshotStays, Zenon DEF OtherDevicePushes, localVars, RemoteMoves,
     managerVars
<1>5. CASE Tick
  BY <1>5, EnterWithSnapshot, Zenon DEF Tick, Procs, managerVars
<1>6. ASSUME NEW c \in Callers, ForceSync(c) PROVE Snapshot'
  BY <1>6, EnterWithSnapshot, Zenon DEF ForceSync, Procs, managerVars
<1>7. ASSUME NEW c \in Callers, SyncNow(c) PROVE Snapshot'
  BY <1>7, EnterWithoutSnapshot, Zenon DEF SyncNow, BeginGitOperation, Procs
<1>8. ASSUME NEW c \in Callers, GitPush(c) PROVE Snapshot'
  BY <1>8, EnterWithoutSnapshot, Zenon DEF GitPush, BeginGitOperation, Procs
<1>9. ASSUME NEW c \in Callers, GitPull(c) PROVE Snapshot'
  BY <1>9, EnterWithoutSnapshot, Zenon DEF GitPull, BeginGitOperation, Procs
<1>10. ASSUME NEW p \in Procs, PerformSyncBegin(p) PROVE Snapshot'
  <2>1. CASE pc[p] = "sync" /\ FinishUnchanged(p, "conflict")
    BY <2>1, SnapshotUsed, Zenon DEF FinishUnchanged, Finish
  <2>2. CASE Goto(p, "sync", "add") /\ UNCHANGED <<reasons, consumed>>
    <3>1. \A q \in Procs : q # p => pc[q] = "idle"
      BY <2>2, OthersIdle, Zenon DEF Goto
    <3>2. pc' = [pc EXCEPT ![p] = "add"] /\ consumed[p] <= Len(reasons)
      BY <2>2, Zenon DEF Goto, Snapshot
    <3> QED
      BY <2>2, <3>1, <3>2, Zenon DEF ProcTypeOK, Snapshot
  <2> QED
    BY <1>10, <2>1, <2>2, Zenon DEF PerformSyncBegin, Within, managerVars
<1>11. ASSUME NEW p \in Procs, PerformSyncAdd(p) PROVE Snapshot'
  <2>1. CASE pc[p] = "add" /\ FinishUnchanged(p, "error")
    BY <2>1, SnapshotUsed, ZenonT(30) DEF FinishUnchanged, Finish
  <2>2. CASE Goto(p, "add", "status") /\ Add /\ UNCHANGED <<reasons, consumed>>
    <3>1. \A q \in Procs : q # p => pc[q] = "idle"
      BY <2>2, OthersIdle, Zenon DEF Goto
    <3>2. pc' = [pc EXCEPT ![p] = "status"] /\ consumed[p] <= Len(reasons)
      BY <2>2, Zenon DEF Goto, Snapshot
    <3>3. \A i \in 1..consumed[p] : reasons[i] \in Edits => reasons[i] \in (index \cup wiped)'
      <4>1. consumed[p] \in Nat /\ Len(reasons) \in Nat
        BY SMTT(30) DEF ManagerTypeOK, ProcTypeOK
      <4> QED
        BY <2>2, <3>2, <4>1 DEF Add, AnnouncedIsWritten
    <3> QED
      BY <2>2, <3>1, <3>2, <3>3, Zenon DEF ProcTypeOK, Snapshot
  <2> QED
    BY <1>11, <2>1, <2>2, Zenon DEF PerformSyncAdd, Within, managerVars, localVars
<1>12. ASSUME NEW p \in Procs, PerformSyncStatus(p) PROVE Snapshot'
  <2>1. CASE \/ pc[p] = "status" /\ \E st \in {"no_changes", "error"} : Finish(p, st)
             \/ Goto(p, "status", "push")
    BY <2>1, SnapshotUsed, ZenonT(30) DEF Finish, Goto
  <2>2. CASE Goto(p, "status", "commit") /\ UNCHANGED <<reasons, consumed, index, wiped>>
    <3>1. \A q \in Procs : q # p => pc[q] = "idle"
      BY <2>2, OthersIdle, Zenon DEF Goto
    <3>2. /\ pc' = [pc EXCEPT ![p] = "commit"]
          /\ consumed[p] <= Len(reasons)
          /\ \A i \in 1..consumed[p] : reasons[i] \in Edits => reasons[i] \in index \cup wiped
      BY <2>2, ZenonT(30) DEF Goto, Snapshot
    <3> QED
      BY <2>2, <3>1, <3>2, Zenon DEF ProcTypeOK, Snapshot
  <2> QED
    BY <1>12, <2>1, <2>2, ZenonT(30)
       DEF PerformSyncStatus, FinishUnchanged, Within, managerVars, localVars, repoVars
<1>13. ASSUME NEW p \in Procs, PerformSyncCommit(p) PROVE Snapshot'
  BY <1>13, SnapshotUsed, Zenon DEF PerformSyncCommit, Goto, FinishUnchanged, Finish
<1>14. ASSUME NEW p \in Procs, RetryPush(p) PROVE Snapshot'
  BY <1>14, SnapshotUsed, Zenon DEF RetryPush, Goto, FinishUnchanged, Finish
<1>15. ASSUME NEW p \in Procs, FirstPush(p) PROVE Snapshot'
  BY <1>15, SnapshotUsed DEF FirstPush, Goto, FinishPush, Finish
<1>16. ASSUME NEW p \in Procs, PullRebase(p) PROVE Snapshot'
  BY <1>16, SnapshotUsed DEF PullRebase, Goto, FinishPush, Finish
<1>17. ASSUME NEW p \in Procs, FinishRebase(p) PROVE Snapshot'
  BY <1>17, SnapshotUsed, SMTT(30) DEF FinishRebase, Goto, FinishPush, Finish
<1>18. ASSUME NEW p \in Procs, SecondPush(p) PROVE Snapshot'
  BY <1>18, SnapshotUsed, Zenon DEF SecondPush, Goto
<1>19. ASSUME NEW p \in Procs, ReindexAfterPull(p) PROVE Snapshot'
  BY <1>19, SnapshotUsed, Zenon DEF ReindexAfterPull, Finish
<1>20. ASSUME NEW c \in Callers, SyncNowAdd(c) PROVE Snapshot'
  BY <1>20, SnapshotUsed, Zenon DEF SyncNowAdd, Goto, Return, Procs
<1>21. ASSUME NEW c \in Callers, SyncNowStatus(c) PROVE Snapshot'
  BY <1>21, SnapshotUsed, Zenon DEF SyncNowStatus, Goto, Return, Procs
<1>22. ASSUME NEW c \in Callers, SyncNowCommit(c) PROVE Snapshot'
  BY <1>22, SnapshotUsed, Zenon DEF SyncNowCommit, Goto, Return, Procs
<1>23. ASSUME NEW c \in Callers, SyncNowPull(c) PROVE Snapshot'
  BY <1>23, SnapshotUsed, Zenon DEF SyncNowPull, Goto, Return, Procs
<1>24. ASSUME NEW c \in Callers, SyncNowRebase(c) PROVE Snapshot'
  BY <1>24, SnapshotUsed, Zenon DEF SyncNowRebase, Goto, Return, Procs
<1>25. ASSUME NEW c \in Callers, SyncNowPush(c) PROVE Snapshot'
  BY <1>25, SnapshotUsed, Zenon DEF SyncNowPush, Goto, Procs
<1>26. ASSUME NEW c \in Callers, GitPushPush(c) PROVE Snapshot'
  BY <1>26, SnapshotUsed, Zenon DEF GitPushPush, Return, Procs
<1>27. ASSUME NEW c \in Callers, GitPullPull(c) PROVE Snapshot'
  BY <1>27, SnapshotUsed, Zenon DEF GitPullPull, Goto, Return, Procs
<1>28. ASSUME NEW c \in Callers, GitPullRebase(c) PROVE Snapshot'
  BY <1>28, SnapshotUsed, Zenon DEF GitPullRebase, Goto, Return, Procs
<1>29. ASSUME NEW c \in Callers, ManualReindex(c) PROVE Snapshot'
  BY <1>29, SnapshotUsed, Zenon DEF ManualReindex, Procs
<1>30. CASE ReconcileOnStartup
  <2>1. reasons' \in {reasons, Append(reasons, Marker)}
    BY <1>30, ZenonT(30) DEF ReconcileOnStartup, Notified
  <2>2. index' = index /\ wiped' = wiped
    BY <1>30, Zenon DEF ReconcileOnStartup, repoVars, CommandFails
  <2> QED
    BY <1>30, <2>1, <2>2, MarkerType, SnapshotStays, Zenon DEF ReconcileOnStartup, localVars
<1>31. CASE SetGitSyncConfig
  BY <1>31, MarkerType, SnapshotStays, Zenon DEF SetGitSyncConfig, localVars, Event,
     managerVars
<1>32. CASE IntervalElapses
  BY <1>32, MarkerType, SnapshotStays, Zenon DEF IntervalElapses, localVars, repoVars
<1>33. CASE Shutdown
  BY <1>33, MarkerType, SnapshotStays, ZenonT(30) DEF Shutdown, localVars, repoVars, managerVars
<1>34. CASE Exit
  BY <1>34, ZenonT(30) DEF Exit, Snapshot
<1>35. CASE Start
  BY <1>35, AllIdle, ZenonT(30) DEF Start, NothingWhileDown, Snapshot
<1>36. CASE ResolveOperation
  <2>1. \A p \in Procs : pc[p] \notin {"add", "status", "commit"}
    BY <1>36, ZenonT(30) DEF ResolveOperation, NoCommitDuringOperation
  <2> QED
    BY <1>36, <2>1, Zenon DEF ResolveOperation, Snapshot, managerVars, localVars
<1>37. CASE UNCHANGED vars
  BY <1>37, MarkerType, SnapshotStays, Zenon DEF vars, repoVars, managerVars, localVars
<1> QED
  BY <1>1, <1>2, <1>3, <1>4, <1>5, <1>6, <1>7, <1>8, <1>9, <1>10, <1>11, <1>12,
     <1>13, <1>14, <1>15, <1>16, <1>17, <1>18, <1>19, <1>20, <1>21, <1>22, <1>23,
     <1>24, <1>25, <1>26, <1>27, <1>28, <1>29, <1>30, <1>31, <1>32, <1>33, <1>34,
     <1>35, <1>36, <1>37, ZenonT(30) DEF Next, AutoStep, ManualStep

\* Operations run only while the application does.
LEMMA HolderIsUp ==
    ASSUME OneGitOperation, NothingWhileDown, NEW p \in Procs, pc[p] # "idle"
    PROVE  app # "down"
BY ZenonT(30) DEF OneGitOperation, NothingWhileDown, Procs

\* Every step leaves nothing behind in memory when the application ends.
LEMMA DownStep ==
    OneGitOperation /\ NothingWhileDown /\ [Next]_vars => NothingWhileDown'
<1> SUFFICES ASSUME OneGitOperation, NothingWhileDown, [Next]_vars
             PROVE  NothingWhileDown'
  BY Zenon
<1> USE DEF NothingWhileDown
<1>1. ASSUME NEW e \in Edits, SaveNote(e) PROVE NothingWhileDown'
  BY <1>1, Zenon DEF SaveNote
<1>2. ASSUME NEW e \in Edits, NotifyChange(e) PROVE NothingWhileDown'
  BY <1>2, Zenon DEF NotifyChange
<1>3. ASSUME NEW e \in Edits, EditWhileDown(e) PROVE NothingWhileDown'
  BY <1>3, Zenon DEF EditWhileDown, managerVars
<1>4. ASSUME NEW e \in RemoteEdits, OtherDevicePushes(e) PROVE NothingWhileDown'
  BY <1>4, Zenon DEF OtherDevicePushes, managerVars
<1>5. CASE Tick
  BY <1>5, Zenon DEF Tick
<1>6. ASSUME NEW c \in Callers, ForceSync(c) PROVE NothingWhileDown'
  BY <1>6, Zenon DEF ForceSync
<1>7. ASSUME NEW c \in Callers, SyncNow(c) PROVE NothingWhileDown'
  BY <1>7, Zenon DEF SyncNow, BeginGitOperation
<1>8. ASSUME NEW c \in Callers, GitPush(c) PROVE NothingWhileDown'
  BY <1>8, Zenon DEF GitPush, BeginGitOperation
<1>9. ASSUME NEW c \in Callers, GitPull(c) PROVE NothingWhileDown'
  BY <1>9, Zenon DEF GitPull, BeginGitOperation
<1>10. ASSUME NEW p \in Procs, PerformSyncBegin(p) PROVE NothingWhileDown'
  BY <1>10, HolderIsUp, Zenon DEF PerformSyncBegin, Goto, FinishUnchanged, Finish, Within
<1>11. ASSUME NEW p \in Procs, PerformSyncAdd(p) PROVE NothingWhileDown'
  BY <1>11, HolderIsUp, Zenon DEF PerformSyncAdd, Goto, FinishUnchanged, Finish, Within
<1>12. ASSUME NEW p \in Procs, PerformSyncStatus(p) PROVE NothingWhileDown'
  BY <1>12, HolderIsUp, ZenonT(30) DEF PerformSyncStatus, Goto, FinishUnchanged, Finish, Within
<1>13. ASSUME NEW p \in Procs, PerformSyncCommit(p) PROVE NothingWhileDown'
  BY <1>13, HolderIsUp, Zenon DEF PerformSyncCommit, Goto, FinishUnchanged, Finish, Within
<1>14. ASSUME NEW p \in Procs, RetryPush(p) PROVE NothingWhileDown'
  BY <1>14, HolderIsUp, ZenonT(30) DEF RetryPush, Goto, FinishUnchanged, Finish, Within
<1>15. ASSUME NEW p \in Procs, FirstPush(p) PROVE NothingWhileDown'
  BY <1>15, HolderIsUp, ZenonT(30) DEF FirstPush, Goto, FinishPush, Finish, Within
<1>16. ASSUME NEW p \in Procs, PullRebase(p) PROVE NothingWhileDown'
  BY <1>16, HolderIsUp, ZenonT(30) DEF PullRebase, Goto, FinishPush, Finish, Within
<1>17. ASSUME NEW p \in Procs, FinishRebase(p) PROVE NothingWhileDown'
  BY <1>17, HolderIsUp, ZenonT(30) DEF FinishRebase, Goto, FinishPush, Finish, Within
<1>18. ASSUME NEW p \in Procs, SecondPush(p) PROVE NothingWhileDown'
  BY <1>18, HolderIsUp, ZenonT(30) DEF SecondPush, Goto, Within
<1>19. ASSUME NEW p \in Procs, ReindexAfterPull(p) PROVE NothingWhileDown'
  BY <1>19, HolderIsUp, ZenonT(30) DEF ReindexAfterPull, Finish
<1>20. ASSUME NEW c \in Callers, SyncNowAdd(c) PROVE NothingWhileDown'
  BY <1>20, HolderIsUp, Zenon DEF SyncNowAdd, Goto, Return, Within, Procs
<1>21. ASSUME NEW c \in Callers, SyncNowStatus(c) PROVE NothingWhileDown'
  BY <1>21, HolderIsUp, Zenon DEF SyncNowStatus, Goto, Return, Within, Procs
<1>22. ASSUME NEW c \in Callers, SyncNowCommit(c) PROVE NothingWhileDown'
  BY <1>22, HolderIsUp, Zenon DEF SyncNowCommit, Goto, Return, Within, Procs
<1>23. ASSUME NEW c \in Callers, SyncNowPull(c) PROVE NothingWhileDown'
  BY <1>23, HolderIsUp, Zenon DEF SyncNowPull, Goto, Return, Within, Procs
<1>24. ASSUME NEW c \in Callers, SyncNowRebase(c) PROVE NothingWhileDown'
  BY <1>24, HolderIsUp, Zenon DEF SyncNowRebase, Goto, Return, Within, Procs
<1>25. ASSUME NEW c \in Callers, SyncNowPush(c) PROVE NothingWhileDown'
  BY <1>25, HolderIsUp, Zenon DEF SyncNowPush, Goto, Within, Procs
<1>26. ASSUME NEW c \in Callers, GitPushPush(c) PROVE NothingWhileDown'
  BY <1>26, HolderIsUp, Zenon DEF GitPushPush, Return, Procs
<1>27. ASSUME NEW c \in Callers, GitPullPull(c) PROVE NothingWhileDown'
  BY <1>27, HolderIsUp, Zenon DEF GitPullPull, Goto, Return, Within, Procs
<1>28. ASSUME NEW c \in Callers, GitPullRebase(c) PROVE NothingWhileDown'
  BY <1>28, HolderIsUp, ZenonT(30) DEF GitPullRebase, Goto, Return, Within, Procs
<1>29. ASSUME NEW c \in Callers, ManualReindex(c) PROVE NothingWhileDown'
  BY <1>29, HolderIsUp, ZenonT(30) DEF ManualReindex, Procs
<1>30. CASE ReconcileOnStartup
  BY <1>30, Zenon DEF ReconcileOnStartup
<1>31. CASE SetGitSyncConfig
  BY <1>31, Zenon DEF SetGitSyncConfig
<1>32. CASE IntervalElapses
  BY <1>32, Zenon DEF IntervalElapses
<1>33. CASE Shutdown
  BY <1>33, Zenon DEF Shutdown
<1>34. CASE Exit
  BY <1>34, Zenon DEF Exit
<1>35. CASE Start
  BY <1>35, Zenon DEF Start
<1>36. CASE ResolveOperation
  BY <1>36, Zenon DEF ResolveOperation, managerVars
<1>37. CASE UNCHANGED vars
  BY <1>37, Zenon DEF vars, managerVars
<1> QED
  BY <1>1, <1>2, <1>3, <1>4, <1>5, <1>6, <1>7, <1>8, <1>9, <1>10, <1>11, <1>12,
     <1>13, <1>14, <1>15, <1>16, <1>17, <1>18, <1>19, <1>20, <1>21, <1>22, <1>23,
     <1>24, <1>25, <1>26, <1>27, <1>28, <1>29, <1>30, <1>31, <1>32, <1>33, <1>34,
     <1>35, <1>36, <1>37, ZenonT(30) DEF Next, AutoStep, ManualStep

(***************************************************************************)
(* The theorems.                                                           *)
(***************************************************************************)

\* The invariant holds initially.
LEMMA InvariantInit == Init => SyncInvariant
<1> SUFFICES ASSUME Init PROVE SyncInvariant
  BY Zenon
<1>1. TypeOK
  BY TypeInit, Zenon
<1>2. OneGitOperation
  BY Zenon DEF Init, OneGitOperation, Procs
<1>3. NoCommitDuringOperation
  BY ZenonT(30) DEF Init, NoCommitDuringOperation
<1>4. RepoOrder
  BY Zenon DEF Init, RepoInit, RepoOrder
<1>5. AnnouncedIsWritten
  BY DEF Init, AnnouncedIsWritten
<1>6. Snapshot
  BY Zenon DEF Init, Snapshot, Procs
<1>7. NothingWhileDown
  BY Zenon DEF Init, NothingWhileDown
<1>8. NoRecordedChangeDropped
  BY Zenon DEF Init, NoRecordedChangeDropped
<1> QED
  BY <1>1, <1>2, <1>3, <1>4, <1>5, <1>6, <1>7, <1>8, Zenon DEF SyncInvariant

\* Every step preserves it.
LEMMA InvariantStep == SyncInvariant /\ [Next]_vars => SyncInvariant'
<1> SUFFICES ASSUME SyncInvariant, [Next]_vars PROVE SyncInvariant'
  BY Zenon
<1>1. RepoOrder'
  BY RepoSteps, RepoOrderKept, Zenon DEF SyncInvariant
<1>2. TypeOK' /\ OneGitOperation' /\ NoCommitDuringOperation'
  BY TypeStep, LockStep, OperationStep, Zenon DEF SyncInvariant
<1>3. AnnouncedIsWritten' /\ NothingWhileDown' /\ NoRecordedChangeDropped'
  BY WrittenStep, DownStep, RecordedStep, Zenon DEF SyncInvariant
<1> QED
  BY <1>1, <1>2, <1>3, SnapshotStep, Zenon DEF SyncInvariant

\* The inductive invariant of automatic and manual sync holds in every state.
THEOREM Invariance == Spec => []SyncInvariant
<1>1. Init => SyncInvariant
  BY InvariantInit, Zenon
<1>2. SyncInvariant /\ [Next]_vars => SyncInvariant'
  BY InvariantStep, Zenon
<1> QED
  BY <1>1, <1>2, PTL DEF Spec

\* oplock.go: never two git operations at once, and the one that runs holds the
\* lock, for any number of goroutines that call manual operations.
THEOREM MutualExclusion == Spec => []OneGitOperation
<1>1. SyncInvariant => OneGitOperation
  BY Zenon DEF SyncInvariant
<1> QED
  BY <1>1, Invariance, PTL

\* performSync and SyncNow: the InProgressOperation check made at the start
\* protects git add and git commit, although other commands run in between.
THEOREM NeverCommitsDuringOperation == Spec => []NoCommitDuringOperation
<1>1. SyncInvariant => NoCommitDuringOperation
  BY Zenon DEF SyncInvariant
<1> QED
  BY <1>1, Invariance, PTL

\* clearPendingState: a change that NotifyChange accepted keeps its reason until
\* it is committed.
THEOREM ChangesAreNotDropped == Spec => []NoRecordedChangeDropped
<1>1. SyncInvariant => NoRecordedChangeDropped
  BY Zenon DEF SyncInvariant
<1> QED
  BY <1>1, Invariance, PTL

\* pushWithRebaseRetry: no step of any cycle, manual operation, crash or other
\* device takes a commit off the local branch or off the remote.
THEOREM CommitsStay == Spec => CommitsIntact
<1>1. SyncInvariant /\ [Next]_vars => [head \subseteq head' /\ remote \subseteq remote']_vars
  BY RepoSteps, CommitsKept, Zenon DEF SyncInvariant
<1> QED
  BY <1>1, Invariance, PTL DEF Spec, CommitsIntact

(***************************************************************************)
(* Unpublished commits.                                                    *)
(***************************************************************************)

\* The setting in which an unpublished commit is never forgotten: the branch has
\* an upstream, no untracked file outside the synchronised paths makes git status
\* report changes that git commit does not find, asking git for its remotes does
\* not fail, and the settings stay as they are.
Configured == HasUpstream /\ ~Stray /\ "remote" \notin Faults /\ Budget["config"] = 0

PushSteps == {"push", "pull", "rebase", "push2", "reindex"}

\* A change is waiting to be committed.
Waiting == reasons # <<>> \/ unnotified # {}

\* It was, or will be, announced after the cycle of p read the queue.
Later(p, e) ==
    e \in unnotified \/ \E i \in 1..Len(reasons) : i > consumed[p] /\ reasons[i] = e

\* What the cycle of p relies on: it will push, has reasons, commits only when
\* there is something to commit, and when it clears its share of the queue
\* whatever it has not staged is in the rest.
CycleTracks(p) ==
    /\ pc[p] \in {"add", "status", "commit"} => willPush[p]
    /\ pc[p] \in {"sync", "add", "status", "commit"} => reasons # <<>>
    /\ pc[p] = "commit" => ~(tree \subseteq head)
    /\ pc[p] = "reindex" => result[p] = "push_failed" \/ head \subseteq remote
    /\ app = "up" /\ pc[p] \in {"status", "commit"} => \A e \in tree \ index : Later(p, e)

\* What is not committed waits for a cycle, and what is not published is known,
\* or being pushed.
UncommittedWaits == app = "up" /\ ~(tree \subseteq head) => Waiting

UnpublishedIsKnown ==
    app = "up" /\ ~(head \subseteq remote) =>
        \/ needsPush \/ Waiting \/ failureKey = "conflict"
        \/ \E p \in Procs : pc[p] \in PushSteps

TrackInvariant ==
    /\ cfg.autoCommit /\ cfg.autoPush
    /\ tracking \subseteq remote
    /\ \A p \in Procs : CycleTracks(p)
    /\ UncommittedWaits
    /\ UnpublishedIsKnown

\* The invariant gives the property: an idle application pushes nothing.
LEMMA KnownIsTracked ==
    ASSUME OneGitOperation, TrackInvariant
    PROVE  UnpushedIsTracked
<1>1. lock = NoHolder => \A p \in Procs : pc[p] = "idle"
  BY AllIdle, ZenonT(30)
<1> QED
  BY <1>1, Zenon DEF TrackInvariant, UnpublishedIsKnown, Waiting, PushSteps, UnpushedIsTracked

\* The application starts with an empty repository.
LEMMA TrackStarts == Init => TrackInvariant
BY DEF Init, RepoInit, TrackInvariant, CycleTracks, UncommittedWaits, UnpublishedIsKnown

\* A git command of a manual operation publishes, or leaves unpublished what was,
\* and commits only what was on disk and uncommitted.
RepoTracks ==
    /\ tracking' \subseteq remote'
    /\ ~(tree' \subseteq head') => ~(tree \subseteq head)
    /\ ~(head' \subseteq remote') => ~(head \subseteq remote) \/ ~(tree \subseteq head)

\* A command that changes none of these.
LEMMA UnchangedTracks ==
    ASSUME tracking \subseteq remote, UNCHANGED <<tree, head, tracking, remote>>
    PROVE  RepoTracks
BY Zenon DEF RepoTracks

\* Every git command of the model, the failed ones included.
LEMMA CommandTracks ==
    ASSUME tracking \subseteq remote, RepoOrder,
           \/ \E c : CommandFails(c)
           \/ UNCHANGED repoVars
           \/ Fetch \/ Add \/ Commit
           \/ Push \/ PushFails
           \/ PullUpToDate \/ PullBegins \/ RebaseDone \/ Abort
    PROVE  RepoTracks
<1>1. CASE \E c : CommandFails(c)
  BY <1>1, UnchangedTracks, Zenon DEF CommandFails
<1>2. CASE UNCHANGED repoVars
  BY <1>2, UnchangedTracks, Zenon DEF repoVars
<1>3. CASE Fetch
  BY <1>3, Zenon DEF Fetch, RepoTracks
<1>4. CASE Add
  BY <1>4, UnchangedTracks, Zenon DEF Add
<1>5. CASE Commit
  BY <1>5, Zenon DEF Commit, RepoTracks, RepoOrder
<1>6. CASE Push
  BY <1>6, ZenonT(30) DEF Push, RepoTracks
<1>7. CASE PushFails
  BY <1>7, Zenon DEF PushFails, RepoTracks, repoVars
<1>8. CASE PullUpToDate
  BY <1>8, Zenon DEF PullUpToDate, RepoTracks
<1>9. CASE PullBegins
  BY <1>9, Zenon DEF PullBegins, RepoTracks
<1>10. CASE RebaseDone
  BY <1>10, Zenon DEF RebaseDone, RepoTracks
<1>11. CASE Abort
  BY <1>11, Zenon DEF Abort, RepoTracks, RepoOrder
<1> QED
  BY <1>1, <1>2, <1>3, <1>4, <1>5, <1>6, <1>7, <1>8, <1>9, <1>10, <1>11, Zenon

\* A step of the lock holder: the others are idle and have no cycle.
LEMMA HolderTracks ==
    ASSUME ProcTypeOK, OneGitOperation, NEW p \in Procs, pc[p] # "idle", NEW to,
           pc' = [pc EXCEPT ![p] = to], cfg' = cfg, TrackInvariant,
           tracking' \subseteq remote', CycleTracks(p)', UncommittedWaits', UnpublishedIsKnown'
    PROVE  TrackInvariant'
<1>1. \A q \in Procs : q # p => pc'[q] = "idle"
  BY OthersIdle, ZenonT(30) DEF ProcTypeOK
<1>2. \A q \in Procs : q # p => CycleTracks(q)'
  BY <1>1, ZenonT(30) DEF CycleTracks
<1> QED
  BY <1>2, Zenon DEF TrackInvariant

\* The holder returns.
LEMMA ReturnTracks ==
    ASSUME ProcTypeOK, OneGitOperation, NEW p \in Procs, pc[p] # "idle",
           pc' = [pc EXCEPT ![p] = "idle"], cfg' = cfg, TrackInvariant,
           tracking' \subseteq remote', UncommittedWaits',
           app' = "up" /\ ~(head' \subseteq remote') =>
               needsPush' \/ Waiting' \/ failureKey' = "conflict"
    PROVE  TrackInvariant'
<1>1. pc'[p] = "idle"
  BY ZenonT(30) DEF ProcTypeOK
<1>2. CycleTracks(p)' /\ UnpublishedIsKnown'
  BY <1>1, ZenonT(30) DEF CycleTracks, UnpublishedIsKnown
<1> QED
  BY <1>2, HolderTracks, Zenon

\* A step of a manual operation: the SyncManager is not told of anything, but
\* whatever is committed was waiting already.
LEMMA ManualTracks ==
    ASSUME ProcTypeOK, OneGitOperation, NEW c \in Procs, pc[c] \in ManualSteps, NEW to,
           to \in ManualSteps \cup {"idle"}, pc' = [pc EXCEPT ![c] = to],
           UNCHANGED <<unnotified, needsPush, failureKey, app, cfg>>,
           reasons' = reasons \/ reasons' # <<>>, TrackInvariant, RepoTracks
    PROVE  TrackInvariant'
<1>1. \A p \in Procs : pc[p] \notin PushSteps
  BY OthersIdle, Zenon DEF ManualSteps, PushSteps
<1>2. Waiting => Waiting'
  BY Zenon DEF Waiting
<1>3. UncommittedWaits'
  BY <1>2, Zenon DEF RepoTracks, TrackInvariant, UncommittedWaits
<1>4. UnpublishedIsKnown'
  BY <1>1, <1>2, Zenon DEF RepoTracks, TrackInvariant, UncommittedWaits, UnpublishedIsKnown
<1>5. pc'[c] = to /\ pc[c] # "idle"
  BY ZenonT(30) DEF ProcTypeOK, ManualSteps
<1>6. CycleTracks(c)'
  BY <1>5, Zenon DEF CycleTracks, ManualSteps
<1> QED
  BY <1>3, <1>4, <1>5, <1>6, HolderTracks, Zenon DEF RepoTracks

\* Every step of a manual operation.
LEMMA ManualStepTracks ==
    ASSUME SyncInvariant, TrackInvariant, NEW c \in Callers, ManualStep(c)
    PROVE  TrackInvariant'
<1> c \in Procs /\ ProcTypeOK /\ OneGitOperation /\ RepoOrder /\ tracking \subseteq remote
  BY Zenon DEF SyncInvariant, TypeOK, Procs, TrackInvariant
<1> DEFINE Moves(to) ==
             /\ pc[c] \in ManualSteps /\ pc' = [pc EXCEPT ![c] = to]
             /\ UNCHANGED <<unnotified, needsPush, failureKey, app, cfg>>
<1>1. CASE SyncNowAdd(c)
  <2>1. \E to \in ManualSteps \cup {"idle"} : Moves(to) /\ reasons' = reasons
    BY <1>1, Zenon DEF SyncNowAdd, Goto, Return, Within, managerVars, ManualSteps
  <2>2. RepoTracks
    BY <1>1, CommandTracks, ZenonT(30) DEF SyncNowAdd
  <2> QED
    BY <2>1, <2>2, ManualTracks, ZenonT(30)
<1>2. CASE SyncNowStatus(c)
  <2>1. \E to \in ManualSteps \cup {"idle"} : Moves(to) /\ reasons' = reasons
    BY <1>2, Zenon DEF SyncNowStatus, Goto, Return, Within, managerVars, ManualSteps
  <2>2. RepoTracks
    BY <1>2, CommandTracks, ZenonT(30) DEF SyncNowStatus, repoVars
  <2> QED
    BY <2>1, <2>2, ManualTracks, Zenon
<1>3. CASE SyncNowCommit(c)
  <2>1. \E to \in ManualSteps \cup {"idle"} : Moves(to) /\ reasons' = reasons
    BY <1>3, Zenon DEF SyncNowCommit, Goto, Return, Within, managerVars, ManualSteps
  <2>2. RepoTracks
    BY <1>3, CommandTracks, ZenonT(30) DEF SyncNowCommit, CommitNothing
  <2> QED
    BY <2>1, <2>2, ManualTracks, Zenon
<1>4. CASE SyncNowPull(c)
  <2>1. \E to \in ManualSteps \cup {"idle"} : Moves(to) /\ reasons' = reasons
    BY <1>4, Zenon DEF SyncNowPull, Goto, Return, Within, managerVars, ManualSteps
  <2>2. RepoTracks
    BY <1>4, CommandTracks, ZenonT(30) DEF SyncNowPull, PullRefused, PullNoRef
  <2> QED
    BY <2>1, <2>2, ManualTracks, Zenon
<1>5. CASE SyncNowRebase(c)
  <2>1. \E to \in ManualSteps \cup {"idle"} : Moves(to) /\ reasons' = reasons
    BY <1>5, Zenon DEF SyncNowRebase, Goto, Return, Within, managerVars, ManualSteps
  <2>2. RepoTracks
    BY <1>5, CommandTracks, Zenon DEF SyncNowRebase, RebaseConflict, RebaseTimesOut
  <2> QED
    BY <2>1, <2>2, ManualTracks, Zenon
<1>6. CASE SyncNowPush(c)
  <2>1. \E to \in ManualSteps \cup {"idle"} : Moves(to) /\ reasons' = reasons
    BY <1>6, Zenon DEF SyncNowPush, Goto, Return, Within, managerVars, ManualSteps
  <2>2. RepoTracks
    BY <1>6, CommandTracks, Zenon DEF SyncNowPush, PushNonFastForward
  <2> QED
    BY <2>1, <2>2, ManualTracks, Zenon
<1>7. CASE GitPushPush(c)
  <2>1. \E to \in ManualSteps \cup {"idle"} : Moves(to) /\ reasons' = reasons
    BY <1>7, Zenon DEF GitPushPush, Goto, Return, Within, managerVars, ManualSteps
  <2>2. RepoTracks
    BY <1>7, CommandTracks, ZenonT(30) DEF GitPushPush, PushNonFastForward
  <2> QED
    BY <2>1, <2>2, ManualTracks, Zenon
<1>8. CASE GitPullPull(c)
  <2>1. \E to \in ManualSteps \cup {"idle"} : Moves(to) /\ reasons' = reasons
    BY <1>8, Zenon DEF GitPullPull, Goto, Return, Within, managerVars, ManualSteps
  <2>2. RepoTracks
    BY <1>8, CommandTracks, ZenonT(30) DEF GitPullPull, PullRefused, PullNoRef
  <2> QED
    BY <2>1, <2>2, ManualTracks, Zenon
<1>9. CASE GitPullRebase(c)
  <2>1. \E to \in ManualSteps \cup {"idle"} : Moves(to) /\ reasons' = reasons
    BY <1>9, Zenon DEF GitPullRebase, Goto, Return, Within, managerVars, ManualSteps
  <2>2. RepoTracks
    BY <1>9, CommandTracks, Zenon DEF GitPullRebase, RebaseConflict, RebaseTimesOut
  <2> QED
    BY <2>1, <2>2, ManualTracks, Zenon
<1>10. CASE ManualReindex(c)
  <2>1. Moves("idle") /\ UNCHANGED repoVars
    BY <1>10, Zenon DEF ManualReindex, ManualSteps
  <2>2. reasons' = reasons \/ reasons' # <<>>
    <3>1. reasons' \in {reasons, Append(reasons, Marker)}
      BY <1>10, ZenonT(30) DEF ManualReindex, Notified
    <3>2. reasons \in Seq(Reasons)
      BY Zenon DEF SyncInvariant, TypeOK, ManagerTypeOK
    <3> QED
      BY <3>1, <3>2, MarkerType, QueueNotEmpty, Zenon
  <2>3. RepoTracks
    BY <2>1, CommandTracks, Zenon
  <2> QED
    BY <2>1, <2>2, <2>3, ManualTracks, Zenon
<1> QED
  BY <1>1, <1>2, <1>3, <1>4, <1>5, <1>6, <1>7, <1>8, <1>9, <1>10, Zenon DEF ManualStep

\* A goroutine enters, with reasons when it begins a cycle.
LEMMA EnterTracks ==
    ASSUME ProcTypeOK, OneGitOperation, NEW p \in Procs, NEW to,
           to \in {"sync", "retry", "mAdd", "gPush", "gPull"}, to = "sync" => reasons # <<>>,
           TryAcquire(p), Goto(p, "idle", to), TrackInvariant,
           UNCHANGED <<reasons, unnotified, needsPush, failureKey, app, cfg,
                       tree, head, tracking, remote>>
    PROVE  TrackInvariant'
<1>1. /\ \A q \in Procs : pc[q] = "idle"
      /\ \A q \in Procs : pc'[q] = IF q = p THEN to ELSE "idle"
  BY AllIdle, ZenonT(30) DEF TryAcquire, Goto, ProcTypeOK
<1>2. \A q \in Procs : CycleTracks(q)'
  BY <1>1, ZenonT(30) DEF CycleTracks
<1>3. UncommittedWaits' /\ UnpublishedIsKnown'
  BY <1>1, ZenonT(30) DEF TrackInvariant, UncommittedWaits, UnpublishedIsKnown, Waiting, PushSteps
<1> QED
  BY <1>2, <1>3, ZenonT(30) DEF TrackInvariant

\* A step of a cycle that still has its reasons.
LEMMA CycleGoesOn ==
    ASSUME ProcTypeOK, OneGitOperation, TrackInvariant, NEW p \in Procs,
           pc[p] \in {"sync", "add", "status", "commit"}, NEW to,
           pc' = [pc EXCEPT ![p] = to], cfg' = cfg, reasons' = reasons,
           tracking' \subseteq remote', CycleTracks(p)'
    PROVE  TrackInvariant'
<1>1. Waiting'
  BY ZenonT(30) DEF TrackInvariant, CycleTracks, Waiting
<1>2. UncommittedWaits' /\ UnpublishedIsKnown'
  BY <1>1, Zenon DEF UncommittedWaits, UnpublishedIsKnown
<1> QED
  BY <1>2, HolderTracks, ZenonT(30)

\* It fails, or finds an unfinished operation: the reasons stay.
LEMMA CycleGivesUp ==
    ASSUME ProcTypeOK, OneGitOperation, TrackInvariant, NEW p \in Procs,
           pc[p] \in {"sync", "add", "status", "commit"}, NEW st, FinishUnchanged(p, st),
           UNCHANGED <<tracking, remote>>
    PROVE  TrackInvariant'
<1>1. pc' = [pc EXCEPT ![p] = "idle"] /\ cfg' = cfg /\ reasons' = reasons
  BY ZenonT(30) DEF FinishUnchanged, Finish
<1>2. CycleTracks(p)'
  BY <1>1, ZenonT(30) DEF CycleTracks, ProcTypeOK
<1> QED
  BY <1>1, <1>2, CycleGoesOn, Zenon DEF TrackInvariant

\* What is announced later outlives the clearing of the queue.
LEMMA LaterWaits ==
    ASSUME TypeOK, NEW p \in Procs, NEW e, Later(p, e),
           reasons' = ClearPendingState(consumed[p]), unnotified' = unnotified
    PROVE  Waiting'
<1>1. reasons \in Seq(Reasons) /\ consumed[p] \in Nat
  BY Zenon DEF TypeOK, ManagerTypeOK, ProcTypeOK
<1>2. CASE e \in unnotified
  BY <1>2, Zenon DEF Waiting
<1>3. ASSUME NEW i \in 1..Len(reasons), i > consumed[p]
      PROVE  Waiting'
  <2>1. consumed[p] < Len(reasons) /\ ~(consumed[p] >= Len(reasons))
    BY <1>1, <1>3
  <2>2. reasons' = SubSeq(reasons, consumed[p] + 1, Len(reasons))
    BY <2>1, Zenon DEF ClearPendingState
  <2>3. reasons' # <<>>
    BY <1>1, <2>1, <2>2, QueueNotEmpty, Zenon
  <2> QED
    BY <2>3, Zenon DEF Waiting
<1> QED
  BY <1>2, <1>3, Zenon DEF Later

\* A pushing step that goes on.
LEMMA PushGoesOn ==
    ASSUME ProcTypeOK, OneGitOperation, TrackInvariant, NEW p \in Procs, pc[p] # "idle",
           NEW to \in PushSteps, pc' = [pc EXCEPT ![p] = to],
           UNCHANGED <<reasons, unnotified, app, cfg>>, RepoTracks,
           to = "reindex" => result'[p] = "push_failed" \/ head' \subseteq remote'
    PROVE  TrackInvariant'
<1>1. pc'[p] = to
  BY ZenonT(30) DEF ProcTypeOK
<1>2. CycleTracks(p)' /\ UnpublishedIsKnown'
  BY <1>1, Zenon DEF CycleTracks, UnpublishedIsKnown, PushSteps
<1>3. UncommittedWaits'
  BY Zenon DEF TrackInvariant, UncommittedWaits, RepoTracks, Waiting
<1> QED
  BY <1>2, <1>3, HolderTracks, Zenon DEF RepoTracks

\* A pushing step that ends with the commits published, the failure remembered or
\* the conflict reported.
LEMMA PushEnds ==
    ASSUME ProcTypeOK, OneGitOperation, TrackInvariant, NEW p \in Procs, pc[p] # "idle",
           NEW st, Finish(p, st), UNCHANGED reasons, RepoTracks,
           needsPush' \/ st = "conflict" \/ head' \subseteq remote'
    PROVE  TrackInvariant'
<1>1. /\ pc' = [pc EXCEPT ![p] = "idle"] /\ failureKey' = FailureKey(st)
      /\ UNCHANGED <<unnotified, app, cfg>>
  BY Zenon DEF Finish
<1>2. st = "conflict" => failureKey' = "conflict"
  BY <1>1, Zenon DEF FailureKey
<1>3. UncommittedWaits'
  BY <1>1, Zenon DEF TrackInvariant, UncommittedWaits, RepoTracks, Waiting
<1> QED
  BY <1>1, <1>2, <1>3, ReturnTracks, Zenon DEF RepoTracks

\* The cycle up to git status.
LEMMA BeginTracks ==
    ASSUME Configured, SyncInvariant, TrackInvariant, NEW p \in Procs,
           PerformSyncBegin(p) \/ PerformSyncAdd(p)
    PROVE  TrackInvariant'
<1> ProcTypeOK /\ OneGitOperation /\ RepoOrder /\ tracking \subseteq remote /\ CycleTracks(p)
  BY Zenon DEF SyncInvariant, TypeOK, TrackInvariant
<1>1. CASE /\ Goto(p, "sync", "add") /\ Within
           /\ Fetch \/ CommandFails("fetch")
           /\ willPush' = [willPush EXCEPT ![p] = cfg.autoPush]
  <2>1. /\ pc' = [pc EXCEPT ![p] = "add"] /\ pc[p] = "sync" /\ cfg' = cfg /\ reasons' = reasons
        /\ willPush'[p]
    BY <1>1, Zenon DEF Goto, Within, managerVars, ProcTypeOK, TrackInvariant
  <2>2. tracking' \subseteq remote'
    BY <1>1, ZenonT(30) DEF Fetch, CommandFails
  <2>3. CycleTracks(p)'
    BY <2>1, ZenonT(30) DEF CycleTracks, ProcTypeOK
  <2> QED
    BY <2>1, <2>2, <2>3, CycleGoesOn, ZenonT(30)
<1>2. CASE CommandFails("remote")
  BY <1>2, Zenon DEF CommandFails, Configured
<1>3. CASE pc[p] = "sync" /\ FinishUnchanged(p, "conflict") /\ UNCHANGED repoVars
  BY <1>3, CycleGivesUp, Zenon DEF repoVars
<1>4. CASE Goto(p, "add", "status") /\ Add /\ Within /\ UNCHANGED localVars
  <2>1. /\ pc' = [pc EXCEPT ![p] = "status"] /\ pc[p] = "add" /\ cfg' = cfg /\ reasons' = reasons
        /\ willPush'[p] = willPush[p] /\ tree' = index' /\ UNCHANGED <<tracking, remote>>
    BY <1>4, Zenon DEF Goto, Within, managerVars, localVars, Add
  <2>2. CycleTracks(p)'
    BY <2>1, ZenonT(30) DEF CycleTracks, ProcTypeOK
  <2> QED
    BY <2>1, <2>2, CycleGoesOn, ZenonT(30)
<1>5. CASE pc[p] = "add" /\ CommandFails("add") /\ FinishUnchanged(p, "error")
  BY <1>5, CycleGivesUp, Zenon DEF CommandFails
<1> QED
  BY <1>1, <1>2, <1>3, <1>4, <1>5, Zenon DEF PerformSyncBegin, PerformSyncAdd

\* git status: a clean tree has nothing uncommitted, and either everything is
\* published or the cycle pushes.
LEMMA StatusTracks ==
    ASSUME Configured, SyncInvariant, TrackInvariant, NEW p \in Procs, PerformSyncStatus(p)
    PROVE  TrackInvariant'
<1> ProcTypeOK /\ OneGitOperation /\ RepoOrder /\ tracking \subseteq remote /\ CycleTracks(p)
  BY Zenon DEF SyncInvariant, TypeOK, TrackInvariant
<1>1. CASE /\ Clean /\ Goto(p, "status", "push")
           /\ UNCHANGED <<repoVars, unnotified, app, cfg>>
  <2>1. /\ pc' = [pc EXCEPT ![p] = "push"] /\ pc[p] = "status" /\ cfg' = cfg
        /\ UNCHANGED <<tree, head, tracking, remote>> /\ tree = head
    BY <1>1, ZenonT(30) DEF Goto, repoVars, Clean
  <2>2. CycleTracks(p)' /\ UnpublishedIsKnown' /\ UncommittedWaits'
    BY <2>1, ZenonT(30) DEF CycleTracks, UnpublishedIsKnown, UncommittedWaits, PushSteps, ProcTypeOK
  <2> QED
    BY <2>1, <2>2, HolderTracks, ZenonT(30)
<1>2. CASE /\ pc[p] = "status" /\ Clean /\ ~(willPush[p] /\ HasUnpushedCommits)
           /\ UNCHANGED repoVars /\ Finish(p, "no_changes")
  <2>1. /\ pc' = [pc EXCEPT ![p] = "idle"] /\ cfg' = cfg
        /\ UNCHANGED <<tree, head, tracking, remote>> /\ tree = head
    BY <1>2, ZenonT(30) DEF Finish, repoVars, Clean
  <2>2. head \subseteq remote
    BY <1>2, ZenonT(30) DEF CycleTracks, HasUnpushedCommits, Configured
  <2> QED
    BY <1>2, <2>1, <2>2, ReturnTracks, Zenon DEF UncommittedWaits
<1>3. CASE CommandFails("remote")
  BY <1>3, Zenon DEF CommandFails, Configured
<1>4. CASE /\ ~Clean /\ Goto(p, "status", "commit") /\ Within /\ UNCHANGED <<repoVars, localVars>>
  <2>1. /\ pc' = [pc EXCEPT ![p] = "commit"] /\ pc[p] = "status"
        /\ UNCHANGED <<cfg, app, reasons, unnotified, willPush, consumed, tree, index, head,
                       tracking, remote>>
    BY <1>4, Zenon DEF Goto, repoVars, Within, managerVars, localVars
  <2>2. ~(tree \subseteq head)
    BY <1>4, ZenonT(30) DEF Clean, Configured, RepoOrder
  <2>3. CycleTracks(p)'
    BY <2>1, <2>2, ZenonT(30) DEF CycleTracks, ProcTypeOK, Later
  <2> QED
    BY <2>1, <2>3, CycleGoesOn, Zenon
<1>5. CASE pc[p] = "status" /\ CommandFails("status") /\ FinishUnchanged(p, "error")
  BY <1>5, CycleGivesUp, Zenon DEF CommandFails
<1> QED
  BY <1>1, <1>2, <1>3, <1>4, <1>5, Zenon DEF PerformSyncStatus

\* git commit: what it leaves uncommitted was announced after the cycle began.
LEMMA CommitTracks ==
    ASSUME Configured, SyncInvariant, TrackInvariant, NEW p \in Procs, PerformSyncCommit(p)
    PROVE  TrackInvariant'
<1> /\ TypeOK /\ ProcTypeOK /\ OneGitOperation /\ RepoOrder
    /\ tracking \subseteq remote /\ CycleTracks(p)
  BY Zenon DEF SyncInvariant, TypeOK, TrackInvariant
<1>1. CASE /\ Goto(p, "commit", "push") /\ Commit
           /\ reasons' = ClearPendingState(consumed[p])
           /\ UNCHANGED <<unnotified, app, cfg>>
  <2>1. /\ pc' = [pc EXCEPT ![p] = "push"] /\ pc[p] = "commit" /\ cfg' = cfg
        /\ UNCHANGED <<app, tree, tracking, remote>> /\ head' = index
    BY <1>1, Zenon DEF Goto, Commit
  <2>2. ASSUME app' = "up", ~(tree' \subseteq head')
        PROVE  Waiting'
    <3>1. PICK e \in tree \ index : Later(p, e)
      BY <2>1, <2>2, ZenonT(30) DEF CycleTracks
    <3> QED
      BY <1>1, <3>1, LaterWaits, ZenonT(30)
  <2>3. CycleTracks(p)' /\ UnpublishedIsKnown'
    BY <2>1, Zenon DEF CycleTracks, UnpublishedIsKnown, PushSteps, ProcTypeOK
  <2>4. UncommittedWaits'
    BY <2>2, ZenonT(30) DEF UncommittedWaits
  <2> QED
    BY <2>1, <2>3, <2>4, HolderTracks, Zenon
<1>2. CASE pc[p] = "commit" /\ ~willPush[p]
  BY <1>2, ZenonT(30) DEF CycleTracks
<1>3. CASE /\ pc[p] = "commit" /\ CommitNothing
           /\ reasons' = ClearPendingState(consumed[p])
           /\ Finish(p, "no_changes")
  <2>1. /\ pc' = [pc EXCEPT ![p] = "idle"] /\ UNCHANGED <<cfg, app, unnotified>>
        /\ UNCHANGED <<tree, head, tracking, remote>> /\ index = head
    BY <1>3, Zenon DEF Finish, CommitNothing, repoVars
  <2>2. ASSUME app' = "up"
        PROVE  Waiting'
    <3>1. PICK e \in tree \ index : Later(p, e)
      BY <1>3, <2>1, <2>2, ZenonT(30) DEF CycleTracks
    <3> QED
      BY <1>3, <2>1, <3>1, LaterWaits, ZenonT(30)
  <2> QED
    BY <1>3, <2>1, <2>2, ReturnTracks, Zenon DEF UncommittedWaits
<1>4. CASE pc[p] = "commit" /\ CommandFails("commit") /\ FinishUnchanged(p, "error")
  BY <1>4, CycleGivesUp, Zenon DEF CommandFails
<1> QED
  BY <1>1, <1>2, <1>3, <1>4, Zenon DEF PerformSyncCommit

\* retryPush gives up on needsPush only when everything is published.
LEMMA RetryTracks ==
    ASSUME Configured, SyncInvariant, TrackInvariant, NEW p \in Procs, RetryPush(p)
    PROVE  TrackInvariant'
<1> /\ ProcTypeOK /\ OneGitOperation /\ RepoOrder
    /\ tracking \subseteq remote /\ cfg.autoPush
  BY Zenon DEF SyncInvariant, TypeOK, TrackInvariant
<1>1. CASE pc[p] = "retry" /\ FinishUnchanged(p, "conflict") /\ UNCHANGED repoVars
  <2>1. RepoTracks
    BY <1>1, CommandTracks, Zenon
  <2> QED
    BY <1>1, <2>1, PushEnds, Zenon DEF FinishUnchanged
<1>2. CASE /\ pc[p] = "retry" /\ ~HasUnpushedCommits /\ UNCHANGED repoVars
           /\ Finish(p, "no_changes") /\ UNCHANGED reasons
  <2>1. RepoTracks
    BY <1>2, CommandTracks, Zenon
  <2>2. head' \subseteq remote'
    BY <1>2, Zenon DEF HasUnpushedCommits, Configured, repoVars
  <2> QED
    BY <1>2, <2>1, <2>2, PushEnds, Zenon
<1>3. CASE CommandFails("remote")
  BY <1>3, Zenon DEF CommandFails, Configured
<1>4. CASE Goto(p, "retry", "push") /\ Within /\ UNCHANGED repoVars
  <2>1. RepoTracks
    BY <1>4, CommandTracks, Zenon
  <2>2. /\ pc[p] = "retry" /\ pc' = [pc EXCEPT ![p] = "push"]
        /\ UNCHANGED <<reasons, unnotified, app, cfg>>
    BY <1>4, ZenonT(30) DEF Goto, Within, managerVars
  <2> QED
    BY <2>1, <2>2, PushGoesOn, Zenon DEF PushSteps
<1> QED
  BY <1>1, <1>2, <1>3, <1>4, Zenon DEF RetryPush

\* pushWithRebaseRetry: whatever happens to the push, the pull and the rebase, the
\* commits are published, the failure is remembered or the conflict reported.
LEMMA PushTracks ==
    ASSUME SyncInvariant, TrackInvariant, NEW p \in Procs,
           FirstPush(p) \/ PullRebase(p) \/ FinishRebase(p) \/ SecondPush(p)
    PROVE  TrackInvariant'
<1> ProcTypeOK /\ OneGitOperation /\ RepoOrder /\ tracking \subseteq remote
  BY Zenon DEF SyncInvariant, TypeOK, TrackInvariant
<1>1. RepoTracks
  BY CommandTracks, Zenon DEF FirstPush, PullRebase, FinishRebase, SecondPush,
     PushNonFastForward, PullRefused, RebaseConflict, RebaseTimesOut
<1>2. CASE pc[p] \in {"pull", "push", "rebase"} /\ FinishPush(p, "push_failed")
  <2>1. pc[p] # "idle" /\ needsPush' /\ Finish(p, "push_failed") /\ UNCHANGED reasons
    BY <1>2, Zenon DEF FinishPush
  <2> QED
    BY <1>1, <2>1, PushEnds, Zenon
<1>3. CASE pc[p] = "rebase" /\ FinishPush(p, "conflict")
  <2>1. pc[p] # "idle" /\ Finish(p, "conflict") /\ UNCHANGED reasons
    BY <1>3, Zenon DEF FinishPush
  <2> QED
    BY <1>1, <2>1, PushEnds, Zenon
<1>4. CASE pc[p] = "push" /\ Push /\ FinishPush(p, "synced")
  <2>1. /\ pc[p] # "idle" /\ Finish(p, "synced") /\ UNCHANGED reasons
        /\ head' \subseteq remote'
    BY <1>4, Zenon DEF FinishPush, Push
  <2> QED
    BY <1>1, <2>1, PushEnds, Zenon
<1>5. CASE /\ Goto(p, "push", "pull") \/ Goto(p, "pull", "rebase") \/ Goto(p, "rebase", "push2")
           /\ Within
  <2>1. PICK to \in {"pull", "rebase", "push2"} :
          /\ pc[p] # "idle" /\ pc' = [pc EXCEPT ![p] = to]
          /\ UNCHANGED <<reasons, unnotified, app, cfg>>
    BY <1>5, Zenon DEF Goto, Within, managerVars
  <2> QED
    BY <1>1, <2>1, PushGoesOn, Zenon DEF PushSteps
<1>6. CASE SecondPush(p)
  <2>1. /\ pc[p] = "push2" /\ pc' = [pc EXCEPT ![p] = "reindex"]
        /\ UNCHANGED <<reasons, unnotified, app, cfg>>
    BY <1>6, ZenonT(30) DEF SecondPush, Goto, Within, managerVars
  <2>2. result'[p] = "push_failed" \/ head' \subseteq remote'
    BY <1>6, Zenon DEF SecondPush, Push, ProcTypeOK
  <2> QED
    BY <1>1, <2>1, <2>2, PushGoesOn, Zenon DEF PushSteps
<1> QED
  BY <1>2, <1>3, <1>4, <1>5, <1>6, Zenon DEF FirstPush, PullRebase, FinishRebase

\* The reindex after a pull ends the push with its result.
LEMMA ReindexTracks ==
    ASSUME SyncInvariant, TrackInvariant, NEW p \in Procs, ReindexAfterPull(p)
    PROVE  TrackInvariant'
<1> ProcTypeOK /\ OneGitOperation /\ tracking \subseteq remote /\ CycleTracks(p)
  BY Zenon DEF SyncInvariant, TypeOK, TrackInvariant
<1>1. /\ pc[p] = "reindex" /\ pc' = [pc EXCEPT ![p] = "idle"]
      /\ UNCHANGED <<unnotified, app, cfg, tree, head, tracking, remote>>
      /\ needsPush' = (result[p] = "push_failed")
      /\ reasons' \in {reasons, Notified(Marker)}
  BY Zenon DEF ReindexAfterPull, Finish, repoVars
<1>2. Waiting => Waiting'
  <2>1. reasons' = reasons \/ reasons' # <<>>
    <3>1. reasons \in Seq(Reasons)
      BY Zenon DEF SyncInvariant, TypeOK, ManagerTypeOK
    <3> QED
      BY <1>1, <3>1, MarkerType, QueueNotEmpty, Zenon DEF Notified
  <2> QED
    BY <1>1, <2>1, ZenonT(30) DEF Waiting
<1>3. UncommittedWaits'
  BY <1>1, <1>2, Zenon DEF TrackInvariant, UncommittedWaits
<1>4. ~(head' \subseteq remote') => needsPush'
  BY <1>1, ZenonT(30) DEF CycleTracks
<1> QED
  BY <1>1, <1>3, <1>4, ReturnTracks, Zenon

\* A note is written: it is on its way to NotifyChange.
LEMMA SaveTracks ==
    ASSUME SyncInvariant, TrackInvariant, NEW e \in Edits, SaveNote(e)
    PROVE  TrackInvariant'
<1>1. /\ e \notin tree /\ tree' = tree \cup {e} /\ unnotified' = unnotified \cup {e}
      /\ UNCHANGED <<index, head, tracking, remote, reasons, consumed, willPush, result,
                     app, cfg, pc>>
  BY Zenon DEF SaveNote, WriteNote, localVars
<1>2. Waiting'
  BY <1>1, ZenonT(30) DEF Waiting
<1>3. ASSUME NEW p \in Procs
      PROVE  CycleTracks(p)'
  BY <1>1, <1>3, ZenonT(30) DEF TrackInvariant, CycleTracks, Later
<1> QED
  BY <1>1, <1>2, <1>3, Zenon DEF TrackInvariant, UncommittedWaits, UnpublishedIsKnown

\* A reason is added, that of e when e was on its way: what came later than a
\* cycle's snapshot still does.
LEMMA LaterGrows ==
    ASSUME SyncInvariant, NEW r \in Reasons, reasons' \in {reasons, Append(reasons, r)},
           UNCHANGED consumed,
           unnotified' = unnotified \/ (unnotified' = unnotified \ {r}
                                          /\ reasons' = Append(reasons, r)),
           NEW p \in Procs, pc[p] \in {"status", "commit"}, NEW e, Later(p, e)
    PROVE  Later(p, e)'
<1>1. /\ Len(reasons') \in Nat /\ Len(reasons) \in Nat /\ Len(reasons) <= Len(reasons')
      /\ \A i \in 1..Len(reasons) : reasons'[i] = reasons[i]
      /\ reasons' = Append(reasons, r) =>
             Len(reasons') = Len(reasons) + 1 /\ reasons'[Len(reasons) + 1] = r
  <2>1. reasons \in Seq(Reasons)
    BY Zenon DEF SyncInvariant, TypeOK, ManagerTypeOK
  <2> QED
    BY <2>1, AppendGrows, SMT
<1>2. consumed[p] \in Nat /\ consumed[p] <= Len(reasons)
  BY ZenonT(30) DEF SyncInvariant, Snapshot, TypeOK, ProcTypeOK
<1>3. ASSUME NEW i \in 1..Len(reasons), i > consumed[p], reasons[i] = e
      PROVE  Later(p, e)'
  BY <1>1, <1>3, SMTT(30) DEF Later
<1>4. CASE e \in unnotified
  <2>1. CASE e \in unnotified'
    BY <2>1, ZenonT(30) DEF Later
  <2>2. CASE e = r /\ reasons' = Append(reasons, r)
    <3>1. /\ Len(reasons) + 1 \in 1..Len(reasons') /\ Len(reasons) + 1 > consumed[p]
          /\ reasons'[Len(reasons) + 1] = e
      BY <1>1, <1>2, <2>2, SMT
    <3> QED
      BY <3>1, Zenon DEF Later
  <2> QED
    BY <1>4, <2>1, <2>2, ZenonT(30)
<1> QED
  BY <1>3, <1>4, ZenonT(30) DEF Later

\* A step outside the operations that leaves the repository alone and may add a
\* reason, that of an edit on its way for instance.
LEMMA QueueTracks ==
    ASSUME SyncInvariant, TrackInvariant, NEW r \in Reasons,
           reasons' \in {reasons, Append(reasons, r)},
           unnotified' = unnotified \/ (unnotified' = unnotified \ {r}
                                          /\ reasons' = Append(reasons, r)),
           UNCHANGED <<consumed, willPush, result, needsPush, failureKey, cfg, pc,
                       tree, index, head, tracking, remote>>,
           app' = app \/ app' # "up"
    PROVE  TrackInvariant'
<1>1. reasons' # <<>> \/ (reasons' = reasons /\ unnotified' = unnotified)
  BY DEF SyncInvariant, TypeOK, ManagerTypeOK
<1>2. (Waiting => Waiting') /\ (reasons # <<>> => reasons' # <<>>)
  BY <1>1, Zenon DEF Waiting
<1>3. UncommittedWaits' /\ UnpublishedIsKnown'
  BY <1>2, ZenonT(30) DEF TrackInvariant, UncommittedWaits, UnpublishedIsKnown
<1>4. ASSUME NEW p \in Procs
      PROVE  CycleTracks(p)'
  <2>1. ASSUME NEW e, Later(p, e), pc[p] \in {"status", "commit"}
        PROVE  Later(p, e)'
    BY <2>1, LaterGrows, Zenon
  <2> QED
    BY <1>2, <2>1, ZenonT(30) DEF TrackInvariant, CycleTracks
<1> QED
  BY <1>3, <1>4, ZenonT(30) DEF TrackInvariant

\* NotifyChange: what was on its way has its reason now, unless the application is
\* closing.
LEMMA NotifyTracks ==
    ASSUME SyncInvariant, TrackInvariant, NEW e \in Edits, NotifyChange(e)
    PROVE  TrackInvariant'
<1>1. /\ unnotified' = unnotified \ {e} /\ reasons' = Notified(e) /\ e \in unnotified
      /\ UNCHANGED <<consumed, willPush, result, needsPush, failureKey, app, cfg, pc,
                     tree, index, head, tracking, remote>>
  BY Zenon DEF NotifyChange, repoVars, localVars
<1>2. CASE app = "up"
  <2>1. e \in Reasons /\ reasons' = Append(reasons, e)
    BY <1>1, <1>2, ZenonT(30) DEF Notified, TrackInvariant, Reasons
  <2> QED
    BY <1>1, <2>1, QueueTracks, Zenon
<1>3. CASE app # "up"
  <2>1. reasons' = reasons /\ app' # "up"
    BY <1>1, <1>3, ZenonT(30) DEF Notified
  <2>2. \A p \in Procs : CycleTracks(p)'
    BY <1>1, <2>1, ZenonT(30) DEF TrackInvariant, CycleTracks
  <2> QED
    BY <1>1, <2>1, <2>2, Zenon DEF TrackInvariant, UncommittedWaits, UnpublishedIsKnown
<1> QED
  BY <1>2, <1>3, Zenon

\* Another device publishes: more is published than before.
LEMMA OtherDeviceTracks ==
    ASSUME TrackInvariant, NEW e \in RemoteEdits, OtherDevicePushes(e)
    PROVE  TrackInvariant'
<1>1. /\ remote' = remote \cup {e}
      /\ UNCHANGED <<reasons, unnotified, needsPush, failureKey, consumed, willPush, result,
                     app, cfg, pc, tree, index, head, tracking>>
  BY ZenonT(30) DEF OtherDevicePushes, RemoteMoves, managerVars, localVars
<1>2. \A p \in Procs : CycleTracks(p)'
  BY <1>1, ZenonT(30) DEF TrackInvariant, CycleTracks, Later
<1>3. UncommittedWaits' /\ UnpublishedIsKnown'
  BY <1>1, Zenon DEF TrackInvariant, UncommittedWaits, UnpublishedIsKnown, Waiting
<1> QED
  BY <1>1, <1>2, <1>3, Zenon DEF TrackInvariant

\* Leaving the application, being away and coming back: a scan that finds notes
\* leaves a reason.
LEMMA RestartTracks ==
    ASSUME SyncInvariant, TrackInvariant,
           Exit \/ Start \/ \E e \in Edits : EditWhileDown(e)
    PROVE  TrackInvariant'
<1>1. /\ \A p \in Procs : pc'[p] = "idle"
      /\ cfg' = cfg /\ UNCHANGED <<tracking, remote>>
  <2>1. app = "down" => \A p \in Procs : pc[p] = "idle"
    BY AllIdle, ZenonT(30) DEF SyncInvariant, NothingWhileDown
  <2> QED
    BY <2>1, Zenon DEF Exit, Start, EditWhileDown, WriteNote, Event, repoVars
<1>2. \A p \in Procs : CycleTracks(p)'
  BY <1>1, ZenonT(30) DEF CycleTracks
<1>3. UncommittedWaits' /\ UnpublishedIsKnown'
  <2>1. CASE app' # "up"
    BY <2>1, Zenon DEF UncommittedWaits, UnpublishedIsKnown
  <2>2. CASE Start
    <3>1. /\ UNCHANGED <<tree, head, remote>>
          /\ reasons' = IF cfg.autoCommit /\ tree # {} THEN <<Marker>> ELSE <<>>
      BY <2>2, Zenon DEF Start, repoVars
    <3>2. (tree' = {} /\ head' = {}) \/ Waiting'
      BY <3>1, Zenon DEF TrackInvariant, SyncInvariant, RepoOrder, Waiting
    <3> QED
      BY <3>2, Zenon DEF UncommittedWaits, UnpublishedIsKnown
  <2>3. ~Start => app' # "up"
    BY ZenonT(30) DEF Exit, EditWhileDown
  <2> QED
    BY <2>1, <2>2, <2>3, Zenon
<1> QED
  BY <1>1, <1>2, <1>3, ZenonT(30) DEF TrackInvariant

\* The user resolves what was left unfinished; no cycle is staging then.
LEMMA ResolveTracks ==
    ASSUME SyncInvariant, TrackInvariant, ResolveOperation
    PROVE  TrackInvariant'
<1>1. /\ UNCHANGED <<reasons, unnotified, needsPush, failureKey, consumed, willPush, result,
                     app, cfg, pc>>
      /\ \A p \in Procs : pc[p] \notin {"add", "status", "commit"}
  BY Zenon DEF ResolveOperation, managerVars, localVars, SyncInvariant, NoCommitDuringOperation
<1>2. RepoTracks
  BY CommandTracks, Zenon DEF ResolveOperation, SyncInvariant, TrackInvariant
<1>3. head \subseteq remote => head' \subseteq remote'
  BY ZenonT(30) DEF ResolveOperation, RebaseDone, Abort, TrackInvariant
<1>4. \A p \in Procs : CycleTracks(p)'
  BY <1>1, <1>3, ZenonT(30) DEF TrackInvariant, CycleTracks
<1>5. UncommittedWaits' /\ UnpublishedIsKnown'
  BY <1>1, <1>2, <1>3, Zenon DEF TrackInvariant, UncommittedWaits, UnpublishedIsKnown, Waiting, RepoTracks
<1> QED
  BY <1>1, <1>2, <1>4, <1>5, Zenon DEF TrackInvariant, RepoTracks

\* The ticker, ForceSync and the manual operations take the lock.
LEMMA EntryTracks ==
    ASSUME SyncInvariant, TrackInvariant,
           Tick \/ \E c \in Callers : ForceSync(c) \/ SyncNow(c) \/ GitPush(c) \/ GitPull(c)
    PROVE  TrackInvariant'
<1> ProcTypeOK /\ OneGitOperation /\ Ticker \in Procs /\ \A c \in Callers : c \in Procs
  BY Zenon DEF SyncInvariant, TypeOK, Procs
<1> DEFINE Kept == UNCHANGED <<reasons, unnotified, needsPush, failureKey, app, cfg,
                               tree, head, tracking, remote>>
<1>1. CASE Tick
  <2>1. PICK to : to = IF reasons # <<>> THEN "sync" ELSE "retry"
    BY Zenon
  <2>2. TryAcquire(Ticker) /\ Goto(Ticker, "idle", to) /\ Kept
    BY <1>1, <2>1, Zenon DEF Tick, repoVars, managerVars
  <2>3. to \in {"sync", "retry"} /\ (to = "sync" => reasons # <<>>)
    BY <2>1, ZenonT(30)
  <2> QED
    BY <2>2, <2>3, EnterTracks, Zenon
<1>2. ASSUME NEW c \in Callers, ForceSync(c)
      PROVE  TrackInvariant'
  <2>1. TryAcquire(c) /\ Goto(c, "idle", "sync") /\ reasons # <<>> /\ Kept
    BY <1>2, Zenon DEF ForceSync, Event, managerVars
  <2> QED
    BY <2>1, EnterTracks, Zenon
<1>3. ASSUME NEW c \in Callers, NEW first \in {"mAdd", "gPush", "gPull"},
             BeginGitOperation(c, first)
      PROVE  TrackInvariant'
  <2>1. TryAcquire(c) /\ Goto(c, "idle", first) /\ Kept
    BY <1>3, Zenon DEF BeginGitOperation, Event, managerVars
  <2> QED
    BY <2>1, EnterTracks, Zenon
<1> QED
  BY <1>1, <1>2, <1>3, Zenon DEF SyncNow, GitPush, GitPull

\* The startup reconciliation, the interval, the shutdown: at most the reason of
\* the reconciliation is added.
LEMMA TimerTracks ==
    ASSUME SyncInvariant, TrackInvariant,
           ReconcileOnStartup \/ IntervalElapses \/ Shutdown
    PROVE  TrackInvariant'
<1>1. UNCHANGED <<unnotified, consumed, willPush, result, needsPush, failureKey, cfg, pc,
                  tree, index, head, tracking, remote>>
  BY ZenonT(30) DEF ReconcileOnStartup, IntervalElapses, Shutdown, CommandFails, repoVars, managerVars,
         localVars
<1>2. app' = app \/ app' # "up"
  BY ZenonT(30) DEF ReconcileOnStartup, IntervalElapses, Shutdown
<1>3. Marker \in Reasons /\ reasons' \in {reasons, Append(reasons, Marker)}
  BY Zenon DEF ReconcileOnStartup, IntervalElapses, Shutdown, managerVars, Notified, Reasons
<1> QED
  BY <1>1, <1>2, <1>3, QueueTracks, ZenonT(30)

\* The settings stay as they are.
LEMMA SettingsStay ==
    ASSUME Configured, SyncInvariant
    PROVE  ~SetGitSyncConfig
<1>1. spent["config"] \in Nat
  BY Zenon DEF SyncInvariant, TypeOK, RepoTypeOK
<1>2. ~(spent["config"] < Budget["config"])
  BY <1>1 DEF Configured
<1> QED
  BY <1>2, Zenon DEF SetGitSyncConfig, Event, Spend

\* Every step keeps the invariant.
LEMMA TrackStep ==
    ASSUME Configured, SyncInvariant, TrackInvariant, [Next]_vars
    PROVE  TrackInvariant'
<1>1. CASE \E e \in Edits : SaveNote(e) \/ NotifyChange(e) \/ EditWhileDown(e)
  BY <1>1, SaveTracks, NotifyTracks, RestartTracks, Zenon
<1>2. CASE \E e \in RemoteEdits : OtherDevicePushes(e)
  BY <1>2, OtherDeviceTracks, Zenon
<1>3. CASE Tick \/ \E c \in Callers : ForceSync(c) \/ SyncNow(c) \/ GitPush(c) \/ GitPull(c)
  BY <1>3, EntryTracks, Zenon
<1>4. CASE \E p \in Procs : AutoStep(p)
  BY <1>4, BeginTracks, StatusTracks, CommitTracks, RetryTracks, PushTracks, ReindexTracks,
     Zenon DEF AutoStep
<1>5. CASE \E c \in Callers : ManualStep(c)
  BY <1>5, ManualStepTracks, Zenon
<1>6. CASE ReconcileOnStartup \/ IntervalElapses \/ Shutdown
  BY <1>6, TimerTracks, Zenon
<1>7. CASE Exit \/ Start
  BY <1>7, RestartTracks, Zenon
<1>8. CASE ResolveOperation
  BY <1>8, ResolveTracks, ZenonT(30)
<1>9. CASE UNCHANGED vars
  <2>1. UNCHANGED <<reasons, unnotified, needsPush, failureKey, consumed, willPush, result,
                    app, cfg, pc, tree, index, head, tracking, remote>>
    BY <1>9, ZenonT(30) DEF vars, repoVars, managerVars, localVars
  <2>2. \A p \in Procs : CycleTracks(p)'
    BY <2>1, ZenonT(30) DEF TrackInvariant, CycleTracks, Later
  <2> QED
    BY <2>1, <2>2, Zenon DEF TrackInvariant, UncommittedWaits, UnpublishedIsKnown, Waiting
<1> QED
  BY <1>1, <1>2, <1>3, <1>4, <1>5, <1>6, <1>7, <1>8, <1>9, SettingsStay, Zenon DEF Next

\* checkAndSync, "so the commit doesn't stay stranded locally": with an upstream,
\* both settings on and nothing in the vault that git status reports but the cycle
\* does not stage, an idle application always knows of an unpublished commit, for
\* any number of edits, callers, failures, restarts and manual operations.
THEOREM UnpushedCommitsAreTracked ==
    ASSUME Configured
    PROVE  Spec => []UnpushedIsTracked
<1>1. Init => TrackInvariant
  BY TrackStarts, Zenon
<1>2. SyncInvariant /\ TrackInvariant /\ [Next]_vars => TrackInvariant'
  BY TrackStep, Zenon
<1>3. SyncInvariant /\ TrackInvariant => UnpushedIsTracked
  BY KnownIsTracked, Zenon DEF SyncInvariant
<1> QED
  BY <1>1, <1>2, <1>3, Invariance, PTL DEF Spec
=============================================================================
