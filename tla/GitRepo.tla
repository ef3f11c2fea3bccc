------------------------------ MODULE GitRepo ------------------------------
(***************************************************************************)
(* The notes repository as the git wrapper internal/git/service.go sees    *)
(* it.  Content is abstracted to sets of edits: an edit is "in" the working*)
(* tree, the index, HEAD, the remote-tracking ref or the remote branch when*)
(* the content found there includes it.  Every operator below is one git   *)
(* command with one of its outcomes; it fixes all the variables declared   *)
(* here, so that the callers in GitSync only choose which one happens.     *)
(***************************************************************************)
EXTENDS Integers

CONSTANTS
    Edits,          \* edits to notes made on this device
    RemoteEdits,    \* edits other devices push to the remote
    Stray,          \* TRUE: an untracked, non-ignored file lies outside SyncPaths
    HasUpstream,    \* TRUE: the branch has a configured upstream
    Faults,         \* git commands that may fail in this instance
    Budget          \* how often each kind of environment event may happen

ASSUME RepoAssumption ==
    /\ Edits \cap RemoteEdits = {}
    /\ Stray \in BOOLEAN
    /\ HasUpstream \in BOOLEAN
    /\ Budget \in [{"fault", "restart", "manual", "config"} -> Nat]

VARIABLES
    tree,       \* edits present in the working tree (vault/)
    untracked,  \* those of them made in a new file that was never staged
    index,      \* edits staged in the index
    head,       \* edits contained in the local branch
    tracking,   \* edits contained in the remote-tracking ref
    remote,     \* edits contained in the remote branch; {} when it does not exist
    gitOp,      \* "none", or the unfinished operation InProgressOperation reports
    wiped,      \* edits that a rebase abort removed from the working tree
    spent       \* how much of Budget has been used

repoVars == <<tree, untracked, index, head, tracking, remote, gitOp, wiped, spent>>

RepoTypeOK ==
    /\ tree \in SUBSET (Edits \cup RemoteEdits)
    /\ untracked \in SUBSET Edits
    /\ index \in SUBSET (Edits \cup RemoteEdits)
    /\ head \in SUBSET (Edits \cup RemoteEdits)
    /\ tracking \in SUBSET (Edits \cup RemoteEdits)
    /\ remote \in SUBSET (Edits \cup RemoteEdits)
    /\ gitOp \in {"none", "rebase"}
    /\ wiped \in SUBSET (Edits \cup RemoteEdits)
    /\ spent \in [DOMAIN Budget -> Nat]

RepoInit ==
    /\ tree = {} /\ untracked = {} /\ index = {} /\ head = {}
    /\ tracking = {} /\ remote = {}
    /\ gitOp = "none"
    /\ wiped = {}
    /\ spent = [k \in DOMAIN Budget |-> 0]

Spend(k) ==
    /\ spent[k] < Budget[k]
    /\ spent' = [spent EXCEPT ![k] = @ + 1]

----------------------------------------------------------------------------
(* Queries. *)

\* GetStatus reads `git status --porcelain` of the whole data directory: any
\* line, also one for a file outside SyncPaths, makes it report Clean = false.
Clean == tree = index /\ index = head /\ ~Stray

\* hasUnpushedCommits: GetAheadBehind compares with branch@{upstream} and
\* reports 0/0 when no upstream is configured.
HasUnpushedCommits == HasUpstream /\ ~(head \subseteq tracking)

----------------------------------------------------------------------------
(* Commands. *)

\* A command that fails without having changed the repository.
CommandFails(c) ==
    /\ c \in Faults
    /\ Spend("fault")
    /\ UNCHANGED <<tree, untracked, index, head, tracking, remote, gitOp, wiped>>

\* Something outside the repository happens; only its budget is used.
Event(k) ==
    /\ Spend(k)
    /\ UNCHANGED <<tree, untracked, index, head, tracking, remote, gitOp, wiped>>

\* git fetch origin
Fetch ==
    /\ tracking' = remote
    /\ UNCHANGED <<tree, untracked, index, head, remote, gitOp, wiped, spent>>

\* MUTANT of Add: git add -u stages no new file.
AddTrackedOnly ==
    /\ index' = tree \ untracked
    /\ UNCHANGED <<tree, untracked, head, tracking, remote, gitOp, wiped, spent>>

\* git add -A -- vault .gitignore
Add ==
    /\ index' = tree
    /\ untracked' = {}
    /\ UNCHANGED <<tree, head, tracking, remote, gitOp, wiped, spent>>

\* git commit of a non-empty index
Commit ==
    /\ index # head
    /\ head' = index
    /\ UNCHANGED <<tree, untracked, index, tracking, remote, gitOp, wiped, spent>>

\* git commit that finds nothing staged
CommitNothing ==
    /\ index = head
    /\ UNCHANGED repoVars

\* MUTANT of Push: git push --force.
PushForced ==
    /\ gitOp = "none"
    /\ remote' = head
    /\ tracking' = head
    /\ UNCHANGED <<tree, untracked, index, head, gitOp, wiped, spent>>

\* git push origin branch, accepted
Push ==
    /\ gitOp = "none"
    /\ remote \subseteq head
    /\ remote' = head
    /\ tracking' = head
    /\ UNCHANGED <<tree, untracked, index, head, gitOp, wiped, spent>>

\* git push rejected because the remote is ahead (ErrNonFastForward)
PushNonFastForward ==
    /\ gitOp = "none"
    /\ ~(remote \subseteq head)
    /\ UNCHANGED repoVars

\* git push that reports another failure.  The remote may have taken the
\* commits before the connection broke or the 30s deadline passed.
PushFails ==
    \/ /\ "push" \in Faults
       /\ Spend("fault")
       /\ remote' \in {remote} \cup {h \in {head} : remote \subseteq h}
       /\ UNCHANGED <<tree, untracked, index, head, tracking, gitOp, wiped>>
    \/ /\ gitOp # "none"          \* HEAD is detached: nothing to push to
       /\ UNCHANGED repoVars

\* git pull --rebase starts only without an unfinished operation and without
\* staged or unstaged changes; files git does not track do not stop it.
CanRebase == gitOp = "none" /\ index = head /\ tree \ index \subseteq untracked

PullRefused ==
    /\ ~CanRebase
    /\ UNCHANGED repoVars

\* git pull --rebase: "couldn't find remote ref"
PullNoRef ==
    /\ remote = {}
    /\ UNCHANGED repoVars

\* git pull --rebase with nothing to integrate
PullUpToDate ==
    /\ CanRebase
    /\ remote # {} /\ remote \subseteq head
    /\ tracking' = remote
    /\ UNCHANGED <<tree, untracked, index, head, remote, gitOp, wiped, spent>>

\* git pull --rebase has fetched and starts to replay the local commits
PullBegins ==
    /\ CanRebase
    /\ ~(remote \subseteq head)
    /\ tracking' = remote
    /\ gitOp' = "rebase"
    /\ UNCHANGED <<tree, untracked, index, head, remote, wiped, spent>>

\* ... and finishes
RebaseDone ==
    /\ head' = head \cup tracking
    /\ index' = index \cup tracking
    /\ tree' = tree \cup tracking
    /\ gitOp' = "none"
    /\ UNCHANGED <<untracked, tracking, remote, wiped, spent>>

\* git rebase --abort: a hard reset to the original branch.  Edits written
\* while the rebase ran survive only in files git does not track.
Abort ==
    /\ tree' = head \cup untracked
    /\ wiped' = wiped \cup (tree \ (head \cup untracked))
    /\ index' = head
    /\ gitOp' = "none"
    /\ UNCHANGED <<untracked, head, tracking, remote, spent>>

\* A commit does not apply on top of the fetched ones: PullRebase aborts the
\* rebase, and does not notice when the abort itself fails.
RebaseConflict == ~(head \subseteq tracking) /\ (Abort \/ CommandFails("abort"))

\* PullRebase's 60s deadline passes: git is stopped and nothing aborts the
\* rebase.
RebaseTimesOut == CommandFails("timeout")

----------------------------------------------------------------------------
(* The world outside the application. *)

\* Another device publishes an edit.
RemoteMoves(e) ==
    /\ e \notin remote
    /\ remote' = remote \cup {e}
    /\ UNCHANGED <<tree, untracked, index, head, tracking, gitOp, wiped, spent>>

\* A note is written to the working tree.
WriteNote(e) ==
    /\ e \notin tree \cup wiped
    /\ tree' = tree \cup {e}
    /\ untracked' \in {untracked, untracked \cup {e}}
    /\ UNCHANGED <<index, head, tracking, remote, gitOp, wiped, spent>>

----------------------------------------------------------------------------
(* Everything that can happen to the repository. *)

RepoNext ==
    \/ \E c \in Faults : CommandFails(c)
    \/ \E k \in DOMAIN Budget : Event(k)
    \/ Fetch \/ Add \/ Commit
    \/ Push \/ PushFails
    \/ PullUpToDate \/ PullBegins \/ RebaseDone \/ Abort
    \/ \E e \in Edits : WriteNote(e)
    \/ \E e \in RemoteEdits : RemoteMoves(e)
============================================================================
