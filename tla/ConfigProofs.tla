---------------------------- MODULE ConfigProofs ----------------------------
(***************************************************************************)
(* Proofs about the app's guidance, the sync panel, the preferences and the*)
(* plugins, for any number of steps.                                       *)
(***************************************************************************)
EXTENDS Guidance, SyncPanel, Preferences, Plugins, TLAPS

----------------------------------------------------------------------------
(* Guidance.                                                               *)

HintIds == {"first-save", "recent-docs", "journal-nav", "journal-select", "quick-switch"}
Progress == [docs : Int, entries : Int, switches : Int, hints : SUBSET HintIds]
Hints == [mounted : BOOLEAN, id : HintIds \cup {"none"}, visible : BOOLEAN,
          dismissed : BOOLEAN, closing : HintIds \cup {"none"}]

GuideTypes ==
    /\ progress \in [Windows -> Progress] /\ progressKept \in Progress
    /\ hint \in Hints

\* What is recorded, in either window or in localStorage, was on screen; so was
\* what is on screen now and what is being closed.
GuideInvariant ==
    /\ MarkedWereSeen /\ progressKept.hints \subseteq seen
    /\ hint.closing # "none" => hint.closing \in seen
    /\ hint.visible /\ ~hint.dismissed => hint.id \in seen

\* The current hint is one of the five.
LEMMA CurrentHintType ==
    ASSUME NEW p
    PROVE  CurrentHint(p) \in HintIds \cup {"none"}
<1> DEFINE due == {i \in DOMAIN HintOrder : /\ HintOrder[i] \notin p.hints
                                            /\ ShouldShow(HintOrder[i], p)}
           least == CHOOSE i \in due : \A j \in due : i <= j
<1>1. DOMAIN HintOrder = 1..5
  BY DEF HintOrder
<1>2. due \subseteq 1..5
  BY <1>1, Zenon
<1>3. \A i \in 1..5 : HintOrder[i] \in HintIds
  BY DEF HintOrder, HintIds
<1>4. CurrentHint(p) = IF due = {} THEN "none" ELSE HintOrder[least]
  BY Zenon DEF CurrentHint
<1>5. ASSUME due # {}
      PROVE  least \in due
  <2> HIDE DEF due
  <2>1. \E i \in due : \A j \in due : i <= j
    <3>1. 1 \in due \/ 2 \in due \/ 3 \in due \/ 4 \in due \/ 5 \in due
      <4>1. PICK i \in due : TRUE
        BY <1>5, Zenon
      <4>2. i = 1 \/ i = 2 \/ i = 3 \/ i = 4 \/ i = 5
        BY <1>2
      <4> QED
        BY <4>2, Zenon
    <3>2. CASE 1 \in due
      BY <1>2, <3>2
    <3>3. CASE 1 \notin due /\ 2 \in due
      BY <1>2, <3>3
    <3>4. CASE {1, 2} \cap due = {} /\ 3 \in due
      BY <1>2, <3>4
    <3>5. CASE {1, 2, 3} \cap due = {} /\ 4 \in due
      BY <1>2, <3>5
    <3>6. CASE {1, 2, 3, 4} \cap due = {} /\ 5 \in due
      BY <1>2, <3>6
    <3> QED
      BY <3>1, <3>2, <3>3, <3>4, <3>5, <3>6, Zenon
  <2> QED
    BY <2>1, Zenon
<1> HIDE DEF due, least
<1> QED
  BY <1>2, <1>3, <1>4, <1>5, ZenonT(30)

\* Whatever is shown next, the record of what was seen follows it.
LEMMA ShowsRecords ==
    ASSUME NEW h \in Hints, NEW p, Shows(h, p), h.closing # "none" => h.closing \in seen
    PROVE  /\ hint' \in Hints /\ seen \subseteq seen'
           /\ hint'.closing # "none" => hint'.closing \in seen'
           /\ hint'.visible /\ ~hint'.dismissed => hint'.id \in seen'
<1> DEFINE id == CurrentHint(p)
<1>1. id \in HintIds \cup {"none"}
  BY CurrentHintType, Zenon
<1>2. \/ hint' = Unmounted \/ hint' = [h EXCEPT !.id = id]
      \/ hint' = [Unmounted EXCEPT !.mounted = TRUE, !.id = id, !.visible = TRUE]
  BY Zenon DEF Shows, Followed
<1>3. seen' = IF hint'.visible /\ ~hint'.dismissed THEN seen \cup {hint'.id} ELSE seen
  BY Zenon DEF Shows
<1> HIDE DEF id
<1>4. hint' \in Hints /\ (hint'.closing = "none" \/ hint'.closing = h.closing)
  <2>1. CASE hint' = Unmounted
    BY <2>1, Zenon DEF Unmounted, Hints
  <2>2. CASE hint' = [h EXCEPT !.id = id]
    BY <1>1, <2>2, Zenon DEF Hints
  <2>3. CASE hint' = [Unmounted EXCEPT !.mounted = TRUE, !.id = id, !.visible = TRUE]
    BY <1>1, <2>3, Zenon DEF Unmounted, Hints
  <2> QED
    BY <1>2, <2>1, <2>2, <2>3, Zenon
<1> QED
  BY <1>3, <1>4, Zenon

\* A window that sets its copy.
LEMMA ProgressSet ==
    ASSUME GuideTypes, GuideInvariant, NEW w \in Windows, NEW p \in Progress,
           p.hints \subseteq seen, NEW h \in Hints, h.closing # "none" => h.closing \in seen,
           SetProgress(w, p, h)
    PROVE  GuideTypes' /\ GuideInvariant'
<1>1. /\ progress' = [progress EXCEPT ![w] = p] /\ progressKept' = StoredProgress(p)
      /\ Shows(h, p) \/ UNCHANGED <<hint, seen>>
  BY Zenon DEF SetProgress
<1>2. progressKept' \in Progress /\ progressKept'.hints \subseteq seen
  BY <1>1 DEF StoredProgress, NotKept, DefaultProgress, Progress
<1>3. /\ hint' \in Hints /\ seen \subseteq seen'
      /\ hint'.closing # "none" => hint'.closing \in seen'
      /\ hint'.visible /\ ~hint'.dismissed => hint'.id \in seen'
  BY <1>1, ShowsRecords, Zenon DEF GuideTypes, GuideInvariant
<1> QED
  BY <1>1, <1>2, <1>3, Zenon DEF GuideTypes, GuideInvariant, MarkedWereSeen

\* No step records a hint that was not on screen.
LEMMA GuideStepKeeps ==
    ASSUME GuideTypes, GuideInvariant, [GuideNext]_guideVars
    PROVE  GuideTypes' /\ GuideInvariant'
<1> DEFINE Goal == GuideTypes' /\ GuideInvariant'
<1>1. /\ hint \in Hints /\ (hint.closing # "none" => hint.closing \in seen)
      /\ progress["main"] \in Progress /\ progress["capture"] \in Progress
      /\ progress["main"].hints \subseteq seen /\ progress["capture"].hints \subseteq seen
      /\ "main" \in Windows /\ "capture" \in Windows
  BY Zenon DEF GuideTypes, GuideInvariant, MarkedWereSeen, Windows
<1>2. ASSUME NEW w \in Windows, NEW p \in Progress, p.hints \subseteq seen, Counted(w, p)
      PROVE  Goal
  BY <1>1, <1>2, ProgressSet, Zenon DEF Counted
<1>3. ASSUME DocumentCreated \/ ProjectSwitched \/ EntryCaptured \/ ResetProgress
      PROVE  Goal
  <2>1. /\ [progress["main"] EXCEPT !.docs = @ + 1] \in Progress
        /\ [progress["main"] EXCEPT !.docs = @ + 1].hints \subseteq seen
        /\ [progress["main"] EXCEPT !.switches = @ + 1] \in Progress
        /\ [progress["main"] EXCEPT !.switches = @ + 1].hints \subseteq seen
        /\ [progress["capture"] EXCEPT !.entries = @ + 1] \in Progress
        /\ [progress["capture"] EXCEPT !.entries = @ + 1].hints \subseteq seen
        /\ DefaultProgress \in Progress /\ DefaultProgress.hints \subseteq seen
    BY <1>1 DEF Progress, DefaultProgress
  <2> QED
    BY <1>1, <1>2, <1>3, <2>1, ZenonT(30)
       DEF DocumentCreated, ProjectSwitched, EntryCaptured, ResetProgress
<1>4. ASSUME NEW w \in Windows, Rehydrate(w)
      PROVE  Goal
  <2>1. PICK p \in {progress[w], progressKept} :
          /\ progress' = [progress EXCEPT ![w] = p] /\ progressKept' = progressKept
          /\ Shows(hint, p) \/ UNCHANGED <<hint, seen>>
    BY <1>4, Zenon DEF Rehydrate
  <2>2. p \in Progress /\ p.hints \subseteq seen
    BY Zenon DEF GuideTypes, GuideInvariant, MarkedWereSeen
  <2>3. /\ hint' \in Hints /\ seen \subseteq seen'
        /\ hint'.closing # "none" => hint'.closing \in seen'
        /\ hint'.visible /\ ~hint'.dismissed => hint'.id \in seen'
    BY <1>1, <2>1, ShowsRecords, Zenon DEF GuideTypes, GuideInvariant
  <2> QED
    BY <2>1, <2>2, <2>3, Zenon DEF GuideTypes, GuideInvariant, MarkedWereSeen
<1>5. ASSUME DismissHint
      PROVE  Goal
  <2>1. /\ hint.visible /\ ~hint.dismissed /\ UNCHANGED <<progress, progressKept, seen>>
        /\ hint' = [hint EXCEPT !.dismissed = TRUE, !.closing = hint.id]
    BY <1>5, Zenon DEF DismissHint
  <2> QED
    BY <2>1, Zenon DEF GuideTypes, GuideInvariant, MarkedWereSeen, Hints
<1>6. ASSUME HintClosed
      PROVE  Goal
  <2> DEFINE p == [progress["main"] EXCEPT !.hints = @ \cup {hint.closing}]
             h == [hint EXCEPT !.visible = FALSE, !.closing = "none"]
  <2>1. hint.closing # "none" /\ SetProgress("main", p, h)
    BY <1>6, Zenon DEF HintClosed, Marks
  <2>2. p \in Progress /\ p.hints \subseteq seen /\ h \in Hints /\ h.closing = "none"
    BY <1>1, <2>1, Zenon DEF Progress, Hints
  <2> HIDE DEF p, h
  <2> QED
    BY <1>1, <2>1, <2>2, ProgressSet, Zenon
<1>7. ASSUME \/ WelcomeDue \/ DismissWelcome \/ ResetOnboarding
             \/ PointAt \/ TipDue \/ PointAway \/ TipRemounted \/ DaysPass
             \/ (\E v \in 0..2 : CheckAnswered(v)) \/ CheckFailed
             \/ (\E b \in BOOLEAN : DismissUpdate(b)) \/ UNCHANGED guideVars
      PROVE  Goal
  <2>1. UNCHANGED <<progress, progressKept, hint, seen>>
    BY <1>7, Zenon DEF WelcomeDue, DismissWelcome, ResetOnboarding, PointAt, TipDue, PointAway,
       TipRemounted, DaysPass, CheckAnswered, CheckFailed, DismissUpdate, OnlyTip, hintVars,
       guideVars
  <2> QED
    BY <2>1, Zenon DEF GuideTypes, GuideInvariant, MarkedWereSeen
<1>8. ASSUME StartAgain
      PROVE  Goal
  <2>1. PICK p \in {DefaultProgress, progressKept} :
          /\ progress' = [w \in Windows |-> p] /\ progressKept' = progressKept
          /\ Shows(Unmounted, p)
    BY <1>8, Zenon DEF StartAgain
  <2>2. p \in Progress /\ p.hints \subseteq seen
    BY DEF GuideTypes, GuideInvariant, DefaultProgress, Progress
  <2>3. Unmounted \in Hints /\ Unmounted.closing = "none"
    BY Zenon DEF Unmounted, Hints
  <2>4. /\ hint' \in Hints /\ seen \subseteq seen'
        /\ hint'.closing # "none" => hint'.closing \in seen'
        /\ hint'.visible /\ ~hint'.dismissed => hint'.id \in seen'
    BY <2>1, <2>3, ShowsRecords, Zenon
  <2> QED
    BY <2>1, <2>2, <2>4, Zenon DEF GuideTypes, GuideInvariant, MarkedWereSeen
<1> HIDE DEF Goal
<1>9. Goal
  BY <1>3, <1>4, <1>5, <1>6, <1>7, <1>8, ZenonT(30) DEF GuideNext
<1> QED
  BY <1>9, Zenon DEF Goal

\* MilestoneHint.tsx and progress.store.ts: only hints that were on screen are
\* recorded as shown, however the two windows, their copies of the progress and
\* the closing animations interleave.
THEOREM OnlySeenHintsAreMarked == GuideSpec => []MarkedWereSeen
<1>1. GuideInit => GuideTypes /\ GuideInvariant
  BY DEF GuideInit, GuideTypes, GuideInvariant, MarkedWereSeen, DefaultProgress, NotKept,
     Unmounted, Progress, Hints
<1>2. GuideTypes /\ GuideInvariant /\ [GuideNext]_guideVars => (GuideTypes /\ GuideInvariant)'
  BY GuideStepKeeps, Zenon
<1>3. GuideInvariant => MarkedWereSeen
  BY Zenon DEF GuideInvariant
<1> QED
  BY <1>1, <1>2, <1>3, PTL DEF GuideSpec

----------------------------------------------------------------------------
(* The sync panel.                                                         *)

Trees == [repo : BOOLEAN, remote : BOOLEAN, dirty : BOOLEAN, ahead : BOOLEAN,
          conflicted : BOOLEAN, origin : BOOLEAN, reached : BOOLEAN]

\* The outcomes the panel may take for a backup.
Claims == {"synced", "up_to_date", "no_changes"}

Reached(t) == t.origin => t.reached

\* A call is a record, and one that runs needs the lock.
CallTypes ==
    \A c \in gitCalls :
        /\ {"op", "by", "phase", "result", "err", "arg"} \subseteq DOMAIN c
        /\ c.phase = "running" => c.op \in Locking

SuccessOf(c) == c.op = "sync" /\ c.phase = "answered" /\ c.err = NoError /\ c.result \in Claims

\* A claim in an answer to come, in the store or in localStorage means the
\* remote was reached; a remote that was there from the start stays.
SyncInvariant ==
    /\ tree \in Trees /\ (tree.origin => tree.remote /\ tree.repo)
    /\ CallTypes /\ "last" \in DOMAIN sync
    /\ \A c \in gitCalls : SuccessOf(c) => Reached(tree)
    /\ sync.last \in Claims => Reached(tree)
    /\ lastKept \in Claims => Reached(tree)

\* What a git command may do to the data directory, and what it may claim.
Follows(t, u) == /\ u \in Trees /\ u.origin = t.origin
                 /\ (t.reached => u.reached) /\ (t.remote => u.remote) /\ (t.repo => u.repo)

\* Committing, and publishing what is committed, keeps origin and remote, and
\* never takes back that the remote was reached.
LEMMA CommittedFollows ==
    ASSUME NEW t \in Trees
    PROVE  /\ Follows(t, Committed(t)) /\ Follows(t, t)
           /\ Follows(t, [Committed(t) EXCEPT !.ahead = FALSE, !.reached = TRUE])
           /\ [Committed(t) EXCEPT !.ahead = FALSE, !.reached = TRUE].reached
           /\ Follows(t, [t EXCEPT !.ahead = FALSE, !.reached = TRUE])
<1>1. Committed(t) \in Trees /\ Follows(t, Committed(t)) /\ Follows(t, t)
  BY Zenon DEF Committed, Trees, Follows
<1> QED
  BY <1>1, Zenon DEF Trees, Follows

\* SyncNow: an answer that the store takes for a success comes from a tree
\* whose remote was reached, where there is one.
LEMMA SyncOutcomesFollow ==
    ASSUME NEW t \in Trees, NEW o \in SyncOutcomes(t), t.origin => t.remote /\ t.repo
    PROVE  Follows(t, o[1]) /\ (o[3] = NoError /\ o[2] \in Claims => Reached(o[1]))
<1> DEFINE pushed == [Committed(t) EXCEPT !.ahead = FALSE, !.reached = TRUE]
<1>1. \/ o[1] = t /\ o[3] # NoError
      \/ o[1] = Committed(t) /\ o[3] # NoError
      \/ o[1] = Committed(t) /\ ~t.remote
      \/ o[1] = pushed
  <2>1. CASE ~t.repo
    <3>1. o = <<t, "none", {"NOT_A_REPO"}>>
      BY <2>1, Zenon DEF SyncOutcomes
    <3> QED
      BY <3>1, Zenon DEF NoError
  <2>2. CASE t.repo /\ t.conflicted
    <3>1. o = <<t, "none", {"IN_PROGRESS"}>>
      BY <2>2, Zenon DEF SyncOutcomes
    <3> QED
      BY <3>1, Zenon DEF NoError
  <2>3. CASE t.repo /\ ~t.conflicted /\ ~t.remote
    <3>1. \/ o = <<Committed(t), IF t.dirty THEN "committed" ELSE "no_changes", NoError>>
          \/ o = <<t, "none", {"COMMIT_FAILED"}>>
      BY <2>3, Zenon DEF SyncOutcomes
    <3> QED
      BY <2>3, <3>1 DEF NoError
  <2>4. CASE t.repo /\ ~t.conflicted /\ t.remote
    <3>1. \/ o = <<t, "none", {"COMMIT_FAILED"}>>
          \/ o = <<pushed, IF t.dirty THEN "synced" ELSE "up_to_date", NoError>>
          \/ o = <<Committed(t), "none", {"SYNC_FAILED", "timed out"}>>
          \/ o = <<Committed(t), "none", {"PUSH_FAILED"}>>
          \/ o = <<Committed(t), "none", {"REBASE_CONFLICT"}>>
      BY <2>4, Zenon DEF SyncOutcomes
    <3> HIDE DEF pushed
    <3>2. CASE o = <<pushed, IF t.dirty THEN "synced" ELSE "up_to_date", NoError>>
      BY <3>2, Zenon
    <3>3. CASE o = <<Committed(t), "none", {"SYNC_FAILED", "timed out"}>>
      <4>1. o[1] = Committed(t) /\ o[3] = {"SYNC_FAILED", "timed out"}
        BY <3>3, Zenon
      <4> QED
        BY <4>1, Zenon DEF NoError
    <3>4. CASE \/ o = <<t, "none", {"COMMIT_FAILED"}>>
               \/ o = <<Committed(t), "none", {"PUSH_FAILED"}>>
               \/ o = <<Committed(t), "none", {"REBASE_CONFLICT"}>>
      BY <3>4 DEF NoError
    <3> QED
      BY <3>1, <3>2, <3>3, <3>4, ZenonT(30)
  <2> QED
    BY <2>1, <2>2, <2>3, <2>4, Zenon
<1>2. /\ Follows(t, Committed(t)) /\ Follows(t, t) /\ Follows(t, pushed) /\ pushed.reached
  BY CommittedFollows, ZenonT(30)
<1> HIDE DEF pushed
<1> QED
  BY <1>1, <1>2 DEF Follows, Reached, Trees

\* The same for every command that takes the operation lock.
LEMMA OutcomesFollow ==
    ASSUME NEW t \in Trees, NEW op \in Locking, NEW o \in Outcomes(op, t),
           t.origin => t.remote /\ t.repo
    PROVE  /\ Follows(t, o[1])
           /\ op = "sync" /\ o[3] = NoError /\ o[2] \in Claims => Reached(o[1])
<1>1. CASE op = "sync"
  BY <1>1, SyncOutcomesFollow, Zenon DEF Outcomes
<1>2. CASE op = "push"
  <2>1. o[1] = t \/ o[1] = [t EXCEPT !.ahead = FALSE, !.reached = TRUE]
    BY <1>2 DEF Outcomes, PushOutcomes
  <2> QED
    BY <1>2, <2>1, CommittedFollows, ZenonT(30)
<1>3. CASE op = "pull"
  <2>1. PICK r, e : o = <<t, r, e>>
    <3>1. o \in PullOutcomes(t)
      BY <1>3, Zenon DEF Outcomes
    <3> QED
      BY <3>1, Zenon DEF PullOutcomes
  <2> QED
    BY <1>3, <2>1, CommittedFollows, ZenonT(30)
<1>4. CASE op = "migrate"
  <2>1. o[1] = t
    BY <1>4 DEF Outcomes, MigrateOutcomes
  <2> QED
    BY <1>4, <2>1, CommittedFollows, ZenonT(30)
<1> QED
  BY <1>1, <1>2, <1>3, <1>4, Zenon DEF Locking

\* The background sync takes nothing back either.
LEMMA AutoOutcomesFollow ==
    ASSUME NEW t \in Trees, NEW o \in AutoOutcomes(t)
    PROVE  Follows(t, o[1])
<1>1. \/ o[1] = t \/ o[1] = Committed(t)
      \/ o[1] = [Committed(t) EXCEPT !.ahead = FALSE, !.reached = TRUE]
  <2>1. CASE ~t.repo
    <3>1. o = <<t, "error: not a repo">>
      BY <2>1, Zenon DEF AutoOutcomes
    <3> QED
      BY <3>1, Zenon
  <2>2. CASE t.repo /\ t.conflicted
    <3>1. o = <<t, "conflict">>
      BY <2>2, Zenon DEF AutoOutcomes
    <3> QED
      BY <3>1, Zenon
  <2>3. CASE t.repo /\ ~t.conflicted
    <3> DEFINE pushed == [Committed(t) EXCEPT !.ahead = FALSE, !.reached = TRUE]
    <3>1. \/ \E key : o = <<t, key>> \/ o = <<Committed(t), key>> \/ o = <<pushed, key>>
      BY <2>3, Zenon DEF AutoOutcomes
    <3> QED
      BY <3>1
  <2> QED
    BY <2>1, <2>2, <2>3, Zenon
<1> QED
  BY <1>1, CommittedFollows, ZenonT(30)

\* A call that claims nothing.
Calm(c) == /\ {"op", "by", "phase", "result", "err", "arg"} \subseteq DOMAIN c
           /\ (c.phase = "running" => c.op \in Locking)
           /\ ~SuccessOf(c)

\* A step that leaves the directory alone and claims nothing new.
LEMMA NothingClaimed ==
    ASSUME SyncInvariant, tree' = tree, lastKept' = lastKept,
           \A c \in gitCalls' : c \in gitCalls \/ Calm(c),
           "last" \in DOMAIN sync', sync'.last = sync.last \/ sync'.last = lastKept
    PROVE  SyncInvariant'
BY Zenon DEF SyncInvariant, CallTypes, Calm, SuccessOf, Reached

\* What a call turns into.
LEMMA CallChanges ==
    ASSUME NEW c, {"op", "by", "phase", "result", "err", "arg"} \subseteq DOMAIN c
    PROVE  /\ \A r, e : LET n == [c EXCEPT !.phase = "answered", !.result = r, !.err = e]
                        IN  /\ {"op", "by", "phase", "result", "err", "arg"} \subseteq DOMAIN n
                            /\ n.op = c.op /\ n.phase = "answered" /\ n.result = r /\ n.err = e
           /\ c.op \in Locking => Calm([c EXCEPT !.phase = "running"])
           /\ Calm([c EXCEPT !.op = "status", !.phase = "sent", !.err = NoError])
           /\ \A op : Calm([c EXCEPT !.op = op, !.phase = "sent"])
           /\ c.op = "status" =>
                \A a, e : Calm([c EXCEPT !.phase = "answered", !.arg = a, !.err = e])
           /\ c.phase # "answered" /\ c.op \in Locking => Calm([c EXCEPT !.by = "gone"])
<1>1. \A r, e : LET n == [c EXCEPT !.phase = "answered", !.result = r, !.err = e]
                IN  /\ {"op", "by", "phase", "result", "err", "arg"} \subseteq DOMAIN n
                    /\ n.op = c.op /\ n.phase = "answered" /\ n.result = r /\ n.err = e
  BY Zenon
<1>2. c.op \in Locking => Calm([c EXCEPT !.phase = "running"])
  BY Zenon DEF Calm, SuccessOf
<1>3. Calm([c EXCEPT !.op = "status", !.phase = "sent", !.err = NoError])
  BY Zenon DEF Calm, SuccessOf
<1>4. \A op : Calm([c EXCEPT !.op = op, !.phase = "sent"])
  BY Zenon DEF Calm, SuccessOf
<1>5. c.op = "status" => \A a, e : Calm([c EXCEPT !.phase = "answered", !.arg = a, !.err = e])
  BY Zenon DEF Calm, SuccessOf
<1>6. c.phase # "answered" /\ c.op \in Locking => Calm([c EXCEPT !.by = "gone"])
  BY Zenon DEF Calm, SuccessOf
<1> QED
  BY <1>1, <1>2, <1>3, <1>4, <1>5, <1>6, ZenonT(30)

\* A call that has just been made carries no claim of success.
LEMMA RequestClaimsNothing ==
    ASSUME NEW op, NEW by, NEW arg, NEW page
    PROVE  Calm(Request(op, by, arg)) /\ Calm([Request(op, by, arg) EXCEPT !.page = page])
BY Zenon DEF Request, Calm, SuccessOf

\* No step makes the panel claim a backup that was not made.
LEMMA SyncStepKeeps ==
    ASSUME SyncInvariant, [SyncNext]_syncVars
    PROVE  SyncInvariant'
<1> DEFINE Goal == SyncInvariant'
           Fields == {"op", "by", "phase", "result", "err", "arg"}
           Added == \A c \in gitCalls' : c \in gitCalls \/ Calm(c)
<1>1. /\ \A c \in gitCalls : Fields \subseteq DOMAIN c /\ (c.phase = "running" => c.op \in Locking)
      /\ "last" \in DOMAIN sync
  BY Zenon DEF SyncInvariant, CallTypes
<1>2. ASSUME NEW by \in Ways, SyncNow(by)
      PROVE  Goal
  <2>1. /\ tree' = tree /\ lastKept' = lastKept
        /\ sync' = sync \/ sync' = [sync EXCEPT !.inProgress = TRUE]
        /\ gitCalls' = gitCalls \/ gitCalls' = gitCalls \cup {Request("sync", by, NoTarget)}
    BY <1>2, Zenon DEF SyncNow
  <2>2. "last" \in DOMAIN sync' /\ sync'.last = sync.last
    BY <1>1, <2>1, Zenon
  <2>3. Added
    <3>1. Calm(Request("sync", by, NoTarget))
      BY RequestClaimsNothing, Zenon
    <3> QED
      BY <2>1, <3>1, ZenonT(30)
  <2> QED
    BY <2>1, <2>2, <2>3, NothingClaimed, Zenon
<1>3. ASSUME NEW c \in gitCalls, Begin(c)
      PROVE  Goal
  <2>1. /\ tree' = tree /\ lastKept' = lastKept /\ sync' = sync /\ c.op \in Locking
        /\ \/ gitCalls' = (gitCalls \ {c}) \cup {[c EXCEPT !.phase = "running"]}
           \/ Answered(c, "none", {"GIT_OPERATION_IN_PROGRESS"})
    BY <1>3, Zenon DEF Begin
  <2>2. CASE gitCalls' = (gitCalls \ {c}) \cup {[c EXCEPT !.phase = "running"]}
    <3>1. Calm([c EXCEPT !.phase = "running"])
      BY <1>1, <2>1, CallChanges, ZenonT(30)
    <3> QED
      BY <1>1, <2>1, <2>2, <3>1, NothingClaimed, Zenon
  <2>3. CASE Answered(c, "none", {"GIT_OPERATION_IN_PROGRESS"})
    <3> DEFINE n == [c EXCEPT !.phase = "answered", !.result = "none",
                              !.err = {"GIT_OPERATION_IN_PROGRESS"}]
    <3>1. Fields \subseteq DOMAIN n /\ n.phase = "answered" /\ n.err # NoError
      BY <1>1, CallChanges, ZenonT(30) DEF NoError
    <3>2. gitCalls' = (gitCalls \ {c}) \cup {n}
      BY <2>3, Zenon DEF Answered
    <3> HIDE DEF n
    <3>3. Calm(n)
      BY <3>1, Zenon DEF Calm, SuccessOf
    <3> QED
      BY <1>1, <2>1, <3>2, <3>3, NothingClaimed, Zenon
  <2> QED
    BY <2>1, <2>2, <2>3, Zenon
<1>4. ASSUME NEW c \in gitCalls, Finish(c)
      PROVE  Goal
  <2>1. PICK o \in Outcomes(c.op, tree) :
          /\ tree' = o[1] /\ Answered(c, o[2], o[3])
          /\ sync' = sync /\ lastKept' = lastKept /\ c.phase = "running"
    BY <1>4, ZenonT(30) DEF Finish
  <2>2. /\ Follows(tree, tree')
        /\ c.op = "sync" /\ o[3] = NoError /\ o[2] \in Claims => Reached(tree')
    BY <1>1, <2>1, OutcomesFollow, Zenon DEF SyncInvariant
  <2> DEFINE n == [c EXCEPT !.phase = "answered", !.result = o[2], !.err = o[3]]
  <2>3. /\ Fields \subseteq DOMAIN n /\ n.op = c.op /\ n.phase = "answered"
        /\ n.result = o[2] /\ n.err = o[3]
    BY <1>1, CallChanges, ZenonT(30)
  <2>4. gitCalls' = (gitCalls \ {c}) \cup {n}
    BY <2>1, ZenonT(30) DEF Answered
  <2> HIDE DEF n
  <2>5. Reached(tree) => Reached(tree')
    BY <2>2, Zenon DEF Follows, Reached, SyncInvariant, Trees
  <2>6. CallTypes'
    BY <2>3, <2>4, Zenon DEF CallTypes, SyncInvariant
  <2>7. \A d \in gitCalls' : SuccessOf(d) => Reached(tree')
    BY <2>2, <2>3, <2>4, <2>5, SMTT(30) DEF SyncInvariant, SuccessOf
  <2>8. tree' \in Trees /\ (tree'.origin => tree'.remote /\ tree'.repo)
    BY <2>2, Zenon DEF Follows, SyncInvariant, Trees
  <2> QED
    BY <2>1, <2>5, <2>6, <2>7, <2>8, Zenon DEF SyncInvariant, SuccessOf, Reached
<1>5. ASSUME NEW c \in gitCalls, SyncAnswered(c)
      PROVE  Goal
  <2> DEFINE n == [c EXCEPT !.op = "status", !.phase = "sent", !.err = NoError]
             outcome == IF c.err = NoError THEN c.result ELSE "error"
  <2>1. /\ tree' = tree /\ c.op = "sync" /\ c.phase = "answered"
        /\ sync' = [inProgress |-> FALSE, last |-> outcome, error |-> c.err]
        /\ lastKept' = outcome
        /\ gitCalls' = gitCalls \ {c} \/ gitCalls' = (gitCalls \ {c}) \cup {n}
    BY <1>5, Zenon DEF SyncAnswered
  <2>2. Calm(n)
    BY <1>1, CallChanges, ZenonT(30)
  <2>3. outcome \in Claims => Reached(tree)
    BY <2>1, Zenon DEF SyncInvariant, SuccessOf, Claims
  <2> HIDE DEF n, outcome
  <2>4. "last" \in DOMAIN sync' /\ sync'.last = outcome
    BY <2>1, Zenon
  <2>5. CallTypes' /\ \A d \in gitCalls' : SuccessOf(d) => Reached(tree)
    BY <2>1, <2>2, Zenon DEF CallTypes, SyncInvariant, Calm
  <2> QED
    BY <2>1, <2>3, <2>4, <2>5, Zenon DEF SyncInvariant, SuccessOf, Reached
<1>6. ASSUME NEW c \in gitCalls, GitCommandAnswered(c) \/ StatusAnswered(c)
                                  \/ \E d \in Targets \cup {NoTarget} : Picked(c, d)
      PROVE  Goal
  <2>1. UNCHANGED <<tree, lastKept, sync>> /\ gitCalls' = gitCalls \ {c}
    BY <1>6, ZenonT(30) DEF GitCommandAnswered, StatusAnswered, Picked
  <2> QED
    BY <1>1, <2>1, NothingClaimed, Zenon
<1>7. ASSUME NEW c \in gitCalls, MigrationGoesOn(c)
      PROVE  Goal
  <2>1. /\ UNCHANGED <<tree, lastKept, sync>>
        /\ \/ gitCalls' = (gitCalls \ {c}) \cup {}
           \/ \E op : gitCalls' = (gitCalls \ {c}) \cup {[c EXCEPT !.op = op, !.phase = "sent"]}
    BY <1>7, ZenonT(30) DEF MigrationGoesOn
  <2>2. \A op : Calm([c EXCEPT !.op = op, !.phase = "sent"])
    BY <1>1, CallChanges, ZenonT(30)
  <2>3. Added
    BY <2>1, <2>2, ZenonT(30)
  <2> QED
    BY <1>1, <2>1, <2>3, NothingClaimed, ZenonT(30)
<1>8. ASSUME NEW c \in gitCalls, NEW ok \in BOOLEAN, StatusServed(c, ok)
      PROVE  Goal
  <2>1. /\ UNCHANGED <<tree, lastKept, sync>> /\ c.op = "status"
        /\ \E a, e : gitCalls' = (gitCalls \ {c}) \cup
                        {[c EXCEPT !.phase = "answered", !.arg = a, !.err = e]}
    BY <1>8, Zenon DEF StatusServed
  <2>2. \A a, e : Calm([c EXCEPT !.phase = "answered", !.arg = a, !.err = e])
    BY <1>1, <2>1, CallChanges, ZenonT(30)
  <2>3. PICK a, e : gitCalls' = (gitCalls \ {c}) \cup
                      {[c EXCEPT !.phase = "answered", !.arg = a, !.err = e]}
    BY <2>1, ZenonT(30)
  <2> DEFINE n == [c EXCEPT !.phase = "answered", !.arg = a, !.err = e]
  <2>4. Calm(n) /\ gitCalls' = (gitCalls \ {c}) \cup {n}
    BY <2>2, <2>3, ZenonT(30)
  <2> HIDE DEF n
  <2>5. Added
    BY <2>4, ZenonT(30)
  <2> QED
    BY <1>1, <2>1, <2>5, NothingClaimed, Zenon
<1>9. ASSUME NEW c \in gitCalls, NEW ok \in BOOLEAN, Inspected(c, ok)
      PROVE  Goal
  <2>1. PICK r, e :
          /\ UNCHANGED <<tree, lastKept, sync>> /\ c.op \in {"validate", "check"}
          /\ Answered(c, r, e)
    BY <1>9, Zenon DEF Inspected
  <2> DEFINE n == [c EXCEPT !.phase = "answered", !.result = r, !.err = e]
  <2>2. Fields \subseteq DOMAIN n /\ n.op = c.op /\ n.phase = "answered"
    BY <1>1, CallChanges, ZenonT(30)
  <2>3. gitCalls' = (gitCalls \ {c}) \cup {n}
    BY <2>1, Zenon DEF Answered
  <2> HIDE DEF n
  <2>4. Calm(n)
    BY <2>1, <2>2, Zenon DEF Calm, SuccessOf
  <2> QED
    BY <1>1, <2>1, <2>3, <2>4, NothingClaimed, Zenon
<1>10. ASSUME \/ Push \/ Pull \/ PickDirectory \/ ResolveConflict
              \/ \E yes \in BOOLEAN : ConfirmMigration(yes)
       PROVE  Goal
  <2>1. /\ UNCHANGED <<tree, lastKept, sync>>
        /\ \/ gitCalls' = gitCalls
           \/ \E op, by, arg : gitCalls' = gitCalls \cup {Request(op, by, arg)}
    BY <1>10, Zenon DEF Push, Pull, PickDirectory, ResolveConflict, ConfirmMigration, OnlyPanel
  <2>2. \A op, by, arg : Calm(Request(op, by, arg))
    BY RequestClaimsNothing, Zenon
  <2>3. Added
    BY <2>1, <2>2, ZenonT(30)
  <2> QED
    BY <1>1, <2>1, <2>3, NothingClaimed, Zenon
<1>11. ASSUME NEW by \in {"mount", "poll", "button"}, ReadStatus(by)
       PROVE  Goal
  <2>1. /\ UNCHANGED <<tree, lastKept, sync>>
        /\ gitCalls' = gitCalls \cup
               {[Request("status", "settings", NoTarget) EXCEPT !.page = syncPanel'.mount]}
    BY <1>11, Zenon DEF ReadStatus
  <2>2. Added
    <3>1. Calm([Request("status", "settings", NoTarget) EXCEPT !.page = syncPanel'.mount])
      BY RequestClaimsNothing, Zenon
    <3> QED
      BY <2>1, <3>1, ZenonT(30)
  <2> QED
    BY <1>1, <2>1, <2>2, NothingClaimed, Zenon
<1>12. ASSUME AutoEnd
       PROVE  Goal
  <2>1. PICK o \in AutoOutcomes(tree) :
          /\ tree' = o[1] /\ UNCHANGED <<gitCalls, lastKept>>
          /\ \E e : sync' = sync \/ sync' = [sync EXCEPT !.error = e]
    BY <1>12, Zenon DEF AutoEnd, BackendToast
  <2>2. Follows(tree, tree')
    BY <2>1, AutoOutcomesFollow, Zenon DEF SyncInvariant
  <2>3. "last" \in DOMAIN sync' /\ sync'.last = sync.last
    BY <1>1, <2>1, Zenon
  <2>4. /\ tree' \in Trees /\ (tree'.origin => tree'.remote /\ tree'.repo)
        /\ Reached(tree) => Reached(tree')
    BY <2>2, Zenon DEF Follows, SyncInvariant, Trees, Reached
  <2> QED
    BY <2>1, <2>3, <2>4, Zenon DEF SyncInvariant, CallTypes, SuccessOf, Reached
<1>13. ASSUME TreeChanges
       PROVE  Goal
  <2>1. /\ UNCHANGED <<gitCalls, lastKept, sync>>
        /\ tree' \in {[tree EXCEPT !.dirty = TRUE], [tree EXCEPT !.conflicted = ~@],
                      [tree EXCEPT !.repo = TRUE, !.remote = TRUE]}
    BY <1>13, Zenon DEF TreeChanges
  <2>2. Follows(tree, tree')
    BY <2>1, ZenonT(30) DEF SyncInvariant, Follows, Trees
  <2>3. /\ tree' \in Trees /\ (tree'.origin => tree'.remote /\ tree'.repo)
        /\ Reached(tree) => Reached(tree')
    BY <2>2, Zenon DEF Follows, SyncInvariant, Trees, Reached
  <2> QED
    BY <2>1, <2>3, Zenon DEF SyncInvariant, CallTypes, SuccessOf, Reached
<1>14. ASSUME ReloadWindow
       PROVE  Goal
  <2>1. /\ UNCHANGED <<tree, lastKept>>
        /\ sync' = [inProgress |-> FALSE, last |-> lastKept, error |-> NoError]
        /\ gitCalls' = {[c EXCEPT !.by = "gone"] :
                          c \in {d \in gitCalls : d.op \in Locking /\ d.phase # "answered"}}
    BY <1>14, Zenon DEF ReloadWindow
  <2>2. \A c \in gitCalls : c.op \in Locking /\ c.phase # "answered" =>
                              Calm([c EXCEPT !.by = "gone"])
    BY <1>1, CallChanges, ZenonT(30)
  <2>3. Added
    BY <2>1, <2>2, ZenonT(30)
  <2>4. "last" \in DOMAIN sync' /\ sync'.last = lastKept
    BY <2>1, Zenon
  <2> QED
    BY <2>1, <2>3, <2>4, NothingClaimed, Zenon
<1>15. ASSUME \/ AutoBegin \/ DismissError \/ LeaveSettings \/ CancelConflict
              \/ \E id \in 0..Len(toasts) : ToastGone(id)
              \/ \E d \in Targets : SetTarget(d)
              \/ \E s \in DOMAIN Strategies : ChooseStrategy(s)
              \/ UNCHANGED syncVars
       PROVE  Goal
  <2>1. UNCHANGED <<tree, lastKept, sync, gitCalls>>
    BY <1>15, Zenon DEF AutoBegin, DismissError, LeaveSettings, CancelConflict, ToastGone,
       SetTarget, ChooseStrategy, OnlyPanel, syncVars
  <2> QED
    BY <1>1, <2>1, NothingClaimed, Zenon
<1> HIDE DEF Goal
<1>16. Goal
  BY <1>2, <1>3, <1>4, <1>5, <1>6, <1>7, <1>8, <1>9, <1>10, <1>11, <1>12, <1>13, <1>14, <1>15,
     ZenonT(30), ZenonT(30) DEF SyncNext
<1> QED
  BY <1>16, Zenon DEF Goal

\* sync.store.ts and GitSyncSection.tsx: with a remote from the start, the panel
\* says "backed up" only when a sync, or a push, has reached it.
THEOREM BackupsAreReal == SyncSpec => []BackedUpReachedRemote
<1>1. SyncInit => SyncInvariant
  BY DEF SyncInit, SyncInvariant, CallTypes, Trees, Claims
<1>2. SyncInvariant /\ [SyncNext]_syncVars => SyncInvariant'
  BY SyncStepKeeps, Zenon
<1>3. SyncInvariant => BackedUpReachedRemote
  <2>1. PanelShows.box = "backed up" => sync.last \in Claims
    BY Zenon DEF PanelShows, DeriveHealth, Claims
  <2> QED
    BY <2>1, Zenon DEF SyncInvariant, BackedUpReachedRemote, Reached
<1> QED
  BY <1>1, <1>2, <1>3, PTL DEF SyncSpec

----------------------------------------------------------------------------
(* Preferences.                                                            *)

(* What a store, or a set of overrides on its way, holds: no zero and      *)
(* nothing out of range where the conversions would drop it, and a theme.  *)
ValidStore(o) ==
    /\ DOMAIN o \subseteq PreferenceKeys
    /\ \A k \in DOMAIN o : k \in ZeroUnset => o[k] # 0 /\ o[k] # 9
    /\ "theme" \in DOMAIN o => o["theme"] \in {Dark, Light, System}

(* What the file and the backend hold; only a theme may be out of range.   *)
ValidFile(m) ==
    /\ DOMAIN m \subseteq PreferenceKeys
    /\ \A k \in DOMAIN m : k \in ZeroUnset => m[k] # 0
    /\ \A k \in DOMAIN m : k \in ZeroUnset /\ k # "theme" => m[k] # 9
    /\ "theme" \in DOMAIN m => m["theme"] \in {Dark, Light, System, 9}

SentKeys == PreferenceKeys \ {"editor", "launch"}

(* What the store makes effective is what the file gives back.             *)
GivesBack(m, o) ==
    \A k \in SentKeys : Effective(o)[k] = Effective(PreferencesFromModel(m))[k]

PrefCallTypes(c) ==
    /\ {"id", "kind", "prefs", "state"} \subseteq DOMAIN c
    /\ c.kind \in {"save", "load"} /\ c.state \in {"sent", "done", "failed"}
    /\ ValidStore(c.prefs)

PrefTypes ==
    /\ ValidFile(prefFile) /\ ValidFile(prefMemory) /\ ValidStore(overrides)
    /\ \A c \in prefCalls : PrefCallTypes(c)
    /\ osTheme \in {Dark, Light} /\ themeEvents \in Seq({Dark, Light, System})

(* While no call failed or overlapped another, the one call in flight      *)
(* carries everything the store and the file may disagree about.           *)
CallCarries(c) ==
    /\ \A d \in prefCalls : d = c
    /\ c.state # "failed"
    /\ c.kind = "load" => overrides = NoOverrides /\ themeEvents = <<>>
    /\ c.kind = "save" /\ c.state = "sent" =>
          /\ GivesBack(prefFile, overrides)
          /\ "theme" \in DOMAIN overrides => "theme" \in DOMAIN c.prefs
    /\ c.state = "done" => GivesBack(prefFile, c.prefs)

(* The last announcement on its way is of the file's theme; with none on   *)
(* its way the theme shown is the store's, unless an answer will change it.*)
ThemeFollows ==
    /\ themeEvents # <<>> =>
          /\ "theme" \in DOMAIN prefFile /\ prefFile["theme"] # 9
          /\ themeEvents[Len(themeEvents)] = prefFile["theme"]
    /\ themeEvents = <<>> =>
          \/ themeShown = ResolveTheme(UseTheme(overrides), osTheme)
          \/ \E c \in prefCalls : c.state = "done" /\ UseTheme(c.prefs) # UseTheme(overrides)

PrefInvariant ==
    /\ PrefTypes
    /\ ~raced =>
          /\ prefMemory = prefFile
          /\ \A c \in prefCalls : CallCarries(c)
          /\ prefCalls = {} => GivesBack(prefFile, overrides)
          /\ ThemeFollows

\* Restricting overrides to some keys keeps their values.
LEMMA KeptValues ==
    ASSUME NEW f, NEW S
    PROVE  /\ DOMAIN Kept(f, S) = DOMAIN f \cap S
           /\ \A k \in DOMAIN f \cap S : Kept(f, S)[k] = f[k]
BY Zenon DEF Kept

\* A valid value for one more key leaves the overrides valid, and a theme in place.
ValidValue(k, v) ==
    /\ k \in PreferenceKeys
    /\ k \in ZeroUnset => v # 0 /\ v # 9
    /\ k = "theme" => v \in {Dark, Light, System}

\* Dropping overrides leaves valid ones.
LEMMA KeptIsValid ==
    ASSUME NEW f, NEW S, ValidStore(f)
    PROVE  ValidStore(Kept(f, S))
BY Zenon DEF Kept, ValidStore

\* What a save writes: valid, giving back what the store makes effective, and
\* with the theme sent.
LEMMA WrittenGivesBack ==
    ASSUME NEW o, ValidStore(o)
    PROVE  LET m == ValidatePreferencesOverrides(Sent(o))
           IN  /\ ValidFile(m) /\ GivesBack(m, o)
               /\ "theme" \in DOMAIN m <=> "theme" \in DOMAIN o
               /\ "theme" \in DOMAIN m => m["theme"] = o["theme"]
<1> DEFINE s == Sent(o)
           m == ValidatePreferencesOverrides(s)
<1>1. /\ DOMAIN PreferencesToModel(o) = DOMAIN o
      /\ \A k \in DOMAIN o : PreferencesToModel(o)[k] = o[k]
  BY Zenon DEF PreferencesToModel, Kept, ValidStore
<1>2. /\ DOMAIN s = DOMAIN o \cap SentKeys
      /\ \A k \in DOMAIN s : s[k] = o[k]
  BY <1>1, Zenon DEF Sent, Kept, SentKeys
<1> HIDE DEF s
<1>3. \A k \in DOMAIN s : k \in ZeroUnset => s[k] # 9
  BY <1>2, Zenon DEF ValidStore
<1>4. /\ DOMAIN m = DOMAIN s
      /\ \A k \in DOMAIN s : m[k] = s[k]
  BY <1>3, KeptValues DEF ValidatePreferencesOverrides
<1> HIDE DEF m
<1>5. /\ "theme" \in DOMAIN m <=> "theme" \in DOMAIN o
      /\ "theme" \in DOMAIN m => m["theme"] = o["theme"]
  BY <1>2, <1>4, Zenon DEF SentKeys, PreferenceKeys
<1>6. ValidFile(m)
  BY <1>2, <1>4, <1>5, SMTT(30) DEF ValidStore, ValidFile, SentKeys
<1>7. /\ DOMAIN PreferencesFromModel(m) = DOMAIN m
      /\ \A k \in DOMAIN m : PreferencesFromModel(m)[k] = m[k]
  BY <1>2, <1>4, <1>5, SMTT(30) DEF PreferencesFromModel, Kept, ValidStore
<1>8. GivesBack(m, o)
  BY <1>2, <1>4, <1>7, Zenon DEF GivesBack, Effective, SentKeys
<1> QED
  BY <1>5, <1>6, <1>8, ZenonT(30) DEF m, s

\* What a load reads is valid and what the file gives back.
LEMMA ReadGivesBack ==
    ASSUME NEW m, ValidFile(m)
    PROVE  ValidStore(PreferencesFromModel(m)) /\ GivesBack(m, PreferencesFromModel(m))
<1> DEFINE o == PreferencesFromModel(m)
           S == {k \in DOMAIN m : /\ k \in ZeroUnset => m[k] # 0
                                  /\ k = "theme" => m[k] \in {Dark, Light, System}}
<1>1. DOMAIN o = DOMAIN m \cap S /\ \A k \in DOMAIN m \cap S : o[k] = m[k]
  BY KeptValues, ZenonT(30) DEF PreferencesFromModel
<1>2. \A k \in DOMAIN o : /\ k \in DOMAIN m /\ o[k] = m[k]
                          /\ k = "theme" => m[k] \in {Dark, Light, System}
  BY <1>1, Zenon
<1> HIDE DEF o
<1>3. Dark # 9 /\ Light # 9 /\ System # 9
  BY DEF Dark, Light, System
<1>4. ValidStore(o)
  BY <1>2, <1>3 DEF ValidStore, ValidFile
<1>5. GivesBack(m, PreferencesFromModel(m))
  BY Zenon DEF GivesBack
<1> QED
  BY <1>4, <1>5, ZenonT(30) DEF o

\* The theme of a store a file gives back is the file's.
LEMMA SameTheme ==
    ASSUME NEW o, NEW m, ValidStore(o), ValidFile(m), GivesBack(m, o)
    PROVE  /\ "theme" \in DOMAIN o <=> "theme" \in DOMAIN m /\ m["theme"] # 9
           /\ "theme" \in DOMAIN o => o["theme"] = m["theme"]
<1> DEFINE p == PreferencesFromModel(m)
           S == {k \in DOMAIN m : /\ k \in ZeroUnset => m[k] # 0
                                  /\ k = "theme" => m[k] \in {Dark, Light, System}}
<1>1. DOMAIN p = DOMAIN m \cap S /\ \A k \in DOMAIN m \cap S : p[k] = m[k]
  BY KeptValues, ZenonT(30) DEF PreferencesFromModel
<1>2. "theme" \in DOMAIN p <=> "theme" \in DOMAIN m /\ m["theme"] # 9
  BY <1>1 DEF ValidFile, Dark, Light, System
<1>3. "theme" \in DOMAIN p => p["theme"] = m["theme"] /\ p["theme"] \in {1, 2, 3}
  BY <1>1, Zenon DEF Dark, Light, System
<1>4. Effective(o)["theme"] = Effective(p)["theme"]
  BY Zenon DEF GivesBack, SentKeys, PreferenceKeys
<1> HIDE DEF p
<1>5. \A q \in {o, p} : /\ "theme" \in DOMAIN q => Effective(q)["theme"] = q["theme"]
                        /\ "theme" \notin DOMAIN q => Effective(q)["theme"] = 10
  BY Zenon DEF Effective, PreferenceKeys, Default
<1>6. "theme" \in DOMAIN o => o["theme"] \in {1, 2, 3}
  BY Zenon DEF ValidStore, Dark, Light, System
<1>7. "theme" \in DOMAIN o <=> "theme" \in DOMAIN p
  <2>1. ~("theme" \in DOMAIN o /\ "theme" \notin DOMAIN p)
    BY <1>4, <1>5, <1>6, SMTT(30)
  <2>2. ~("theme" \in DOMAIN p /\ "theme" \notin DOMAIN o)
    BY <1>3, <1>4, <1>5, SMTT(30)
  <2> QED
    BY <2>1, <2>2, Zenon
<1> QED
  BY <1>2, <1>3, <1>4, <1>5, <1>7, Zenon

\* The store before the first answer overrides nothing.
LEMMA EmptyStoreValid == ValidStore(NoOverrides) /\ DOMAIN NoOverrides = {}
BY Zenon DEF ValidStore, NoOverrides

\* A save that carries the store's theme on may be issued: alone it leaves the
\* store and the file in agreement, otherwise the calls overlap.
LEMMA SaveIssued ==
    ASSUME PrefInvariant, NEW o, ValidStore(o),
           "theme" \in DOMAIN overrides => "theme" \in DOMAIN o,
           Issue("save", o), BackendSame, UNCHANGED <<overrides, themeShown>>
    PROVE  PrefInvariant'
<1>1. PICK c : /\ c = [id |-> prefSteps + 1, kind |-> "save", prefs |-> o, state |-> "sent"]
               /\ prefCalls' = prefCalls \cup {c} /\ raced' = (raced \/ prefCalls # {})
  BY ZenonT(30) DEF Issue
<1>2. /\ {"id", "kind", "prefs", "state"} \subseteq DOMAIN c
      /\ c.kind = "save" /\ c.prefs = o /\ c.state = "sent"
  BY <1>1, Zenon
<1>3. PrefCallTypes(c)
  BY <1>2, Zenon DEF PrefCallTypes
<1>4. UNCHANGED <<prefFile, prefMemory, osTheme, themeEvents, overrides, themeShown>>
  BY Zenon DEF BackendSame
<1>5. PrefTypes'
  BY <1>1, <1>3, <1>4, Zenon DEF PrefInvariant, PrefTypes, PrefCallTypes
<1>6. ASSUME ~raced'
      PROVE  /\ prefMemory' = prefFile'
             /\ \A d \in prefCalls' : CallCarries(d)'
             /\ (prefCalls = {} => GivesBack(prefFile, overrides))'
             /\ ThemeFollows'
  <2>1. ~raced /\ prefCalls = {} /\ prefCalls' = {c}
    BY <1>1, <1>6, ZenonT(30)
  <2>2. GivesBack(prefFile, overrides) /\ ThemeFollows /\ prefMemory = prefFile
    BY <2>1, Zenon DEF PrefInvariant
  <2>3. GivesBack(prefFile, overrides)'
    BY <1>4, <2>2, Zenon DEF GivesBack
  <2>4. CallCarries(c)'
    BY <1>2, <1>4, <2>1, <2>3, ZenonT(30) DEF CallCarries
  <2>5. ThemeFollows'
    BY <1>4, <2>1, <2>2, Zenon DEF ThemeFollows
  <2> QED
    BY <1>4, <2>1, <2>2, <2>3, <2>4, <2>5, Zenon
<1> QED
  BY <1>5, <1>6, ZenonT(30) DEF PrefInvariant

\* Every call of saveOverrides sets one key to a valid value.
LEMMA SaveKeeps ==
    ASSUME PrefInvariant, NEW k, NEW v, ValidValue(k, v), SaveOverrides(Setting(k, v))
    PROVE  PrefInvariant'
<1> DEFINE o == Merged(overrides, Setting(k, v))
<1>1. ValidStore(overrides)
  BY Zenon DEF PrefInvariant, PrefTypes
<1>2. /\ DOMAIN o = DOMAIN overrides \cup {k} /\ o[k] = v
      /\ \A x \in DOMAIN overrides : x # k => o[x] = overrides[x]
  BY Zenon DEF Merged, Setting
<1>3. Issue("save", o) /\ BackendSame /\ UNCHANGED <<overrides, themeShown>>
  BY Zenon DEF SaveOverrides
<1> HIDE DEF o
<1>4. ValidStore(o) /\ ("theme" \in DOMAIN overrides => "theme" \in DOMAIN o)
  BY <1>1, <1>2, Zenon DEF ValidStore, ValidValue
<1> QED
  BY <1>3, <1>4, SaveIssued, ZenonT(30)

\* The theme toggle, a save of all overrides with the next theme.
LEMMA ToggleKeeps ==
    ASSUME PrefInvariant, ToggleTheme
    PROVE  PrefInvariant'
<1> DEFINE t == UseTheme(overrides)
           next == IF t = Dark THEN Light ELSE IF t = Light THEN System ELSE Dark
           h == Merged(overrides, Setting("theme", next))
           o == Merged(overrides, h)
<1>1. ValidStore(overrides)
  BY Zenon DEF PrefInvariant, PrefTypes
<1>2. ValidValue("theme", next)
  BY DEF ValidValue, PreferenceKeys, Dark, Light, System
<1>3. Issue("save", o) /\ BackendSame /\ UNCHANGED <<overrides, themeShown>>
  BY Zenon DEF ToggleTheme, SaveOverrides
<1> HIDE DEF next
<1>4. /\ DOMAIN h = DOMAIN overrides \cup {"theme"} /\ h["theme"] = next
      /\ \A x \in DOMAIN overrides : x # "theme" => h[x] = overrides[x]
  BY Zenon DEF Merged, Setting
<1> HIDE DEF h
<1>5. /\ DOMAIN o = DOMAIN overrides \cup {"theme"}
      /\ \A x \in DOMAIN o : o[x] = h[x]
  BY <1>4, Zenon DEF Merged
<1> HIDE DEF o
<1>6. ValidStore(o) /\ ("theme" \in DOMAIN overrides => "theme" \in DOMAIN o)
  BY <1>1, <1>2, <1>4, <1>5, SMTT(30) DEF ValidStore, ValidValue
<1> QED
  BY <1>3, <1>6, SaveIssued, ZenonT(30)

\* deleteShortcutOverride, a save without one override.
LEMMA DeleteKeeps ==
    ASSUME PrefInvariant, NEW k \in {"save", "find"}, DeleteShortcutOverride(k)
    PROVE  PrefInvariant'
<1> DEFINE o == Kept(overrides, PreferenceKeys \ {k})
<1>1. ValidStore(o)
  BY KeptIsValid, ZenonT(30) DEF PrefInvariant, PrefTypes
<1>2. "theme" \in DOMAIN overrides => "theme" \in DOMAIN o
  BY Zenon DEF Kept, PreferenceKeys
<1>3. Issue("save", o) /\ BackendSame /\ UNCHANGED <<overrides, themeShown>>
  BY Zenon DEF DeleteShortcutOverride
<1> HIDE DEF o
<1> QED
  BY <1>1, <1>2, <1>3, SaveIssued, ZenonT(30)

\* The backend writes a save.
LEMMA SetKeeps ==
    ASSUME PrefInvariant, NEW c \in prefCalls, SetPreferences(c)
    PROVE  PrefInvariant'
<1> DEFINE m == ValidatePreferencesOverrides(Sent(c.prefs))
           d == [c EXCEPT !.state = "done"]
<1>1. /\ c.kind = "save" /\ c.state = "sent"
      /\ prefMemory' = m /\ prefFile' = m
      /\ prefCalls' = (prefCalls \ {c}) \cup {d}
      /\ themeEvents' = IF GetTheme(m) = GetTheme(prefMemory) THEN themeEvents
                        ELSE Append(themeEvents, GetTheme(m))
      /\ UNCHANGED <<overrides, raced, osTheme, themeShown>>
  BY Zenon DEF SetPreferences
<1>2. PrefCallTypes(c) /\ PrefTypes
  BY Zenon DEF PrefInvariant, PrefTypes
<1>3. /\ ValidFile(m) /\ GivesBack(m, c.prefs)
      /\ "theme" \in DOMAIN m <=> "theme" \in DOMAIN c.prefs
      /\ "theme" \in DOMAIN m => m["theme"] = c.prefs["theme"]
  BY <1>2, WrittenGivesBack, ZenonT(30) DEF PrefCallTypes
<1>4. /\ PrefCallTypes(d) /\ d.kind = "save" /\ d.state = "done" /\ d.prefs = c.prefs
  BY <1>1, <1>2, Zenon DEF PrefCallTypes
<1> HIDE DEF m, d
<1>5. GetTheme(m) \in {Dark, Light, System}
  BY <1>3, Zenon DEF GetTheme, ValidFile
<1>6. themeEvents' \in Seq({Dark, Light, System})
  BY <1>1, <1>2, <1>5, SMTT(30) DEF PrefTypes
<1>7. PrefTypes'
  BY <1>1, <1>2, <1>3, <1>4, <1>6, Zenon DEF PrefTypes
<1>8. ASSUME ~raced'
      PROVE  /\ prefMemory' = prefFile'
             /\ \A e \in prefCalls' : CallCarries(e)'
             /\ (prefCalls = {} => GivesBack(prefFile, overrides))'
             /\ ThemeFollows'
  <2>1. /\ ~raced /\ CallCarries(c) /\ prefMemory = prefFile /\ ThemeFollows
    BY <1>1, <1>8, ZenonT(30) DEF PrefInvariant
  <2>2. prefCalls' = {d}
    BY <1>1, <2>1, Zenon DEF CallCarries
  <2>3. GivesBack(prefFile, d.prefs)'
    BY <1>1, <1>3, <1>4, Zenon DEF GivesBack
  <2>4. CallCarries(d)'
    BY <1>4, <2>2, <2>3, Zenon DEF CallCarries
  <2>5. GivesBack(prefFile, overrides) /\ ("theme" \in DOMAIN overrides => "theme" \in DOMAIN c.prefs)
    BY <1>1, <2>1, Zenon DEF CallCarries
  <2>6. /\ "theme" \in DOMAIN overrides <=> "theme" \in DOMAIN prefFile /\ prefFile["theme"] # 9
        /\ "theme" \in DOMAIN overrides => overrides["theme"] = prefFile["theme"]
    BY <1>2, <2>5, SameTheme, ZenonT(30) DEF PrefTypes
  <2>7. ThemeFollows'
    <3>a. Dark # 9 /\ Light # 9 /\ System # 9
      BY DEF Dark, Light, System
    <3>b. "theme" \in DOMAIN m => m["theme"] # 9 /\ GetTheme(m) = m["theme"]
      BY <1>2, <1>3, <3>a, Zenon DEF GetTheme, PrefCallTypes, ValidStore
    <3>1. CASE GetTheme(m) = GetTheme(prefMemory)
      <4>1. themeEvents' = themeEvents
        BY <1>1, <3>1, Zenon
      <4>2. ASSUME themeEvents # <<>>
            PROVE  /\ "theme" \in DOMAIN m /\ m["theme"] # 9
                   /\ themeEvents[Len(themeEvents)] = m["theme"]
        <5>1. /\ "theme" \in DOMAIN prefFile /\ prefFile["theme"] # 9
              /\ themeEvents[Len(themeEvents)] = prefFile["theme"]
          BY <2>1, <4>2, Zenon DEF ThemeFollows
        <5>2. "theme" \in DOMAIN m /\ m["theme"] # 9 /\ GetTheme(m) = m["theme"]
          BY <1>3, <2>5, <2>6, <3>b, <5>1, Zenon
        <5>3. GetTheme(prefMemory) = prefFile["theme"]
          BY <2>1, <5>1, Zenon DEF GetTheme
        <5> QED
          BY <3>1, <5>1, <5>2, <5>3, ZenonT(30)
      <4>3. ASSUME themeEvents = <<>>
            PROVE  themeShown = ResolveTheme(UseTheme(overrides), osTheme)
        <5>1. \A e \in prefCalls : e.state # "done"
          BY <1>1, <2>1, Zenon DEF CallCarries
        <5> QED
          BY <2>1, <4>3, <5>1, ZenonT(30) DEF ThemeFollows
      <4> QED
        BY <1>1, <4>1, <4>2, <4>3, Zenon DEF ThemeFollows
    <3>2. CASE GetTheme(m) # GetTheme(prefMemory)
      <4>1. "theme" \in DOMAIN m
        BY <1>3, <2>1, <2>5, <2>6, <3>2, Zenon DEF GetTheme
      <4>2. themeEvents' = Append(themeEvents, m["theme"]) /\ m["theme"] # 9
        BY <1>1, <3>2, <3>b, <4>1, Zenon
      <4>3. /\ themeEvents' # <<>>
            /\ themeEvents'[Len(themeEvents')] = m["theme"]
        BY <1>2, <4>2, SMTT(30) DEF PrefTypes
      <4> QED
        BY <1>1, <4>1, <4>2, <4>3, ZenonT(30) DEF ThemeFollows
    <3> QED
      BY <3>1, <3>2, Zenon
  <2> QED
    BY <1>1, <2>2, <2>4, <2>7, Zenon
<1> QED
  BY <1>7, <1>8, ZenonT(30) DEF PrefInvariant

\* The backend answers a load.
LEMMA GetKeeps ==
    ASSUME PrefInvariant, NEW c \in prefCalls, GetPreferences(c)
    PROVE  PrefInvariant'
<1> DEFINE o == PreferencesFromModel(prefMemory)
<1>1. PICK d : /\ c.kind = "load" /\ c.state = "sent"
               /\ d = [c EXCEPT !.state = "done", !.prefs = o]
               /\ prefCalls' = (prefCalls \ {c}) \cup {d}
               /\ UNCHANGED <<prefFile, prefMemory, overrides, raced, osTheme, themeEvents,
                              themeShown>>
  BY ZenonT(30) DEF GetPreferences, BackendSame
<1>2. PrefCallTypes(c) /\ PrefTypes
  BY Zenon DEF PrefInvariant, PrefTypes
<1>3. ValidStore(o) /\ GivesBack(prefMemory, o)
  BY <1>2, ReadGivesBack, ZenonT(30) DEF PrefTypes
<1> HIDE DEF o
<1>4. PrefCallTypes(d) /\ d.kind = "load" /\ d.state = "done" /\ d.prefs = o
  BY <1>1, <1>2, <1>3, Zenon DEF PrefCallTypes
<1>5. PrefTypes'
  BY <1>1, <1>2, <1>4, Zenon DEF PrefTypes
<1>6. ASSUME ~raced'
      PROVE  /\ prefMemory' = prefFile'
             /\ \A e \in prefCalls' : CallCarries(e)'
             /\ (prefCalls = {} => GivesBack(prefFile, overrides))'
             /\ ThemeFollows'
  <2>1. /\ ~raced /\ CallCarries(c) /\ prefMemory = prefFile /\ ThemeFollows
    BY <1>1, <1>6, ZenonT(30) DEF PrefInvariant
  <2>2. prefCalls' = {d} /\ \A e \in prefCalls : e = c
    BY <1>1, <2>1, Zenon DEF CallCarries
  <2>3. GivesBack(prefFile, d.prefs)'
    BY <1>1, <1>3, <1>4, <2>1, Zenon DEF GivesBack
  <2>4. CallCarries(d)'
    BY <1>1, <1>4, <2>1, <2>2, <2>3, Zenon DEF CallCarries
  <2>5. themeEvents = <<>> /\ themeShown = ResolveTheme(UseTheme(overrides), osTheme)
    BY <1>1, <2>1, <2>2, Zenon DEF CallCarries, ThemeFollows
  <2>6. ThemeFollows'
    BY <1>1, <2>5, Zenon DEF ThemeFollows
  <2> QED
    BY <1>1, <2>1, <2>2, <2>4, <2>6, Zenon
<1> QED
  BY <1>5, <1>6, Zenon DEF PrefInvariant

\* A call that fails ends the agreement: only the types are left to keep.
LEMMA FailKeeps ==
    ASSUME PrefInvariant, NEW c \in prefCalls, PreferencesFail(c)
    PROVE  PrefInvariant'
<1> DEFINE d == [c EXCEPT !.state = "failed"]
           m == ValidatePreferencesOverrides(Sent(c.prefs))
<1>1. /\ prefCalls' = (prefCalls \ {c}) \cup {d} /\ raced' = TRUE
      /\ prefMemory' \in {prefMemory, m}
      /\ UNCHANGED <<prefFile, overrides, osTheme, themeEvents>>
  BY Zenon DEF PreferencesFail
<1>2. PrefCallTypes(c) /\ PrefTypes
  BY Zenon DEF PrefInvariant, PrefTypes
<1>3. ValidFile(m)
  BY <1>2, WrittenGivesBack, ZenonT(30) DEF PrefCallTypes
<1>4. PrefCallTypes(d)
  BY <1>2, Zenon DEF PrefCallTypes
<1> HIDE DEF d, m
<1>5. PrefTypes'
  BY <1>1, <1>2, <1>3, <1>4, Zenon DEF PrefTypes
<1> QED
  BY <1>1, <1>5, Zenon DEF PrefInvariant

\* The store takes an answer over, and the theme with it.
LEMMA AnswerKeeps ==
    ASSUME PrefInvariant, NEW c \in prefCalls, PreferencesAnswer(c)
    PROVE  PrefInvariant'
<1>1. /\ c.state # "sent"
      /\ prefCalls' = prefCalls \ {c}
      /\ overrides' = IF c.state = "done" THEN c.prefs ELSE overrides
      /\ Applied(IF c.state = "done" THEN c.prefs ELSE overrides)
      /\ UNCHANGED <<prefFile, prefMemory, raced, osTheme, themeEvents>>
  BY ZenonT(30) DEF PreferencesAnswer, BackendSame
<1>2. PrefCallTypes(c) /\ PrefTypes
  BY Zenon DEF PrefInvariant, PrefTypes
<1>3. PrefTypes'
  BY <1>1, <1>2, Zenon DEF PrefTypes, PrefCallTypes
<1>4. ASSUME ~raced'
      PROVE  /\ prefMemory' = prefFile'
             /\ \A e \in prefCalls' : CallCarries(e)'
             /\ (prefCalls = {} => GivesBack(prefFile, overrides))'
             /\ ThemeFollows'
  <2>1. /\ ~raced /\ CallCarries(c) /\ prefMemory = prefFile /\ ThemeFollows
    BY <1>1, <1>4, ZenonT(30) DEF PrefInvariant
  <2>2. prefCalls' = {} /\ c.state = "done" /\ \A e \in prefCalls : e = c
    BY <1>1, <1>2, <2>1, Zenon DEF CallCarries, PrefCallTypes
  <2>3. overrides' = c.prefs /\ Applied(c.prefs) /\ GivesBack(prefFile, c.prefs)
    BY <1>1, <2>1, <2>2, Zenon DEF CallCarries
  <2>4. GivesBack(prefFile, overrides)'
    BY <1>1, <2>3, Zenon DEF GivesBack
  <2>5. themeEvents = <<>> => themeShown' = ResolveTheme(UseTheme(c.prefs), osTheme)
    BY <2>1, <2>2, <2>3, Zenon DEF ThemeFollows, Applied
  <2>6. UseTheme(overrides)' = UseTheme(c.prefs)
    BY <2>3, Zenon DEF UseTheme
  <2>7. ThemeFollows'
    BY <1>1, <2>1, <2>5, <2>6, Zenon DEF ThemeFollows, ResolveTheme
  <2> QED
    BY <1>1, <2>1, <2>2, <2>4, <2>7, Zenon
<1> QED
  BY <1>3, <1>4, Zenon DEF PrefInvariant

\* The last announcement heard is of the file's theme, which is the theme of the
\* store or of the answer on its way.
LEMMA HeardKeeps ==
    ASSUME PrefInvariant, ThemeHeard
    PROVE  PrefInvariant'
<1>1. /\ themeEvents # <<>> /\ themeEvents' = Tail(themeEvents)
      /\ themeShown' = ResolveTheme(Head(themeEvents), osTheme)
      /\ UNCHANGED <<prefFile, prefMemory, overrides, prefCalls, raced, osTheme>>
  BY Zenon DEF ThemeHeard
<1>2. PrefTypes
  BY Zenon DEF PrefInvariant
<1>3. PrefTypes'
  BY <1>1, <1>2 DEF PrefTypes
<1>4. ASSUME ~raced'
      PROVE  /\ prefMemory' = prefFile'
             /\ \A e \in prefCalls' : CallCarries(e)'
             /\ (prefCalls = {} => GivesBack(prefFile, overrides))'
             /\ ThemeFollows'
  <2>1. /\ ~raced /\ prefMemory = prefFile /\ ThemeFollows
        /\ \A e \in prefCalls : CallCarries(e)
        /\ prefCalls = {} => GivesBack(prefFile, overrides)
    BY <1>1, <1>4, ZenonT(30) DEF PrefInvariant
  <2>2. /\ "theme" \in DOMAIN prefFile /\ prefFile["theme"] # 9
        /\ themeEvents[Len(themeEvents)] = prefFile["theme"]
    BY <1>1, <2>1, ZenonT(30) DEF ThemeFollows
  <2>3. \A e \in prefCalls : e.kind # "load"
    BY <1>1, <2>1, ZenonT(30) DEF CallCarries
  <2>4. \A e \in prefCalls : CallCarries(e)'
    BY <1>1, <2>1, <2>3, Zenon DEF CallCarries, GivesBack
  <2>5. (prefCalls = {} => GivesBack(prefFile, overrides))'
    BY <1>1, <2>1, Zenon DEF GivesBack
  <2>6. \A o : ValidStore(o) /\ GivesBack(prefFile, o) => UseTheme(o) = prefFile["theme"]
    <3> SUFFICES ASSUME NEW o, ValidStore(o), GivesBack(prefFile, o)
                 PROVE  UseTheme(o) = prefFile["theme"]
      BY Zenon
    <3>1. "theme" \in DOMAIN o /\ o["theme"] = prefFile["theme"]
      BY <1>2, <2>2, SameTheme, ZenonT(30) DEF PrefTypes
    <3> QED
      BY <3>1, Zenon DEF UseTheme
  <2>7. ASSUME Tail(themeEvents) = <<>>
        PROVE  \/ ResolveTheme(Head(themeEvents), osTheme)
                     = ResolveTheme(UseTheme(overrides), osTheme)
               \/ \E c \in prefCalls : c.state = "done" /\ UseTheme(c.prefs) # UseTheme(overrides)
    <3>1. Head(themeEvents) = prefFile["theme"]
      <4>1. Len(themeEvents) = 1
        <5>1. /\ Len(themeEvents) \in Nat
              /\ Len(Tail(themeEvents)) = Len(themeEvents) - 1
          BY <1>1, <1>2 DEF PrefTypes
        <5>2. Len(Tail(themeEvents)) = Len(<<>>)
          BY <2>7, ZenonT(30)
        <5>3. Len(<<>>) = 0
          BY Zenon
        <5> QED
          BY <5>1, <5>2, <5>3, SMTT(30)
      <4> QED
        BY <1>1, <1>2, <2>2, <4>1, SMTT(30) DEF PrefTypes
    <3>2. CASE prefCalls = {}
      BY <1>2, <2>1, <2>6, <3>1, <3>2, ZenonT(30) DEF PrefTypes
    <3>3. CASE prefCalls # {}
      <4>1. PICK c \in prefCalls : TRUE
        BY <3>3, Zenon
      <4>2. PrefCallTypes(c) /\ CallCarries(c)
        BY <1>2, <2>1, <4>1, Zenon DEF PrefTypes
      <4>3. CASE c.state = "sent"
        <5>1. GivesBack(prefFile, overrides)
          BY <2>3, <4>1, <4>2, <4>3, Zenon DEF CallCarries, PrefCallTypes
        <5> QED
          BY <1>2, <2>6, <3>1, <5>1, Zenon DEF PrefTypes
      <4>4. CASE c.state = "done"
        <5>1. UseTheme(c.prefs) = prefFile["theme"]
          BY <2>6, <4>2, <4>4, Zenon DEF CallCarries, PrefCallTypes
        <5> QED
          BY <3>1, <4>1, <4>4, <5>1, Zenon
      <4> QED
        BY <4>2, <4>3, <4>4, Zenon DEF CallCarries, PrefCallTypes
    <3> QED
      BY <3>2, <3>3, Zenon
  <2>8. ASSUME Tail(themeEvents) # <<>>
        PROVE  Tail(themeEvents)[Len(Tail(themeEvents))] = prefFile["theme"]
    BY <1>1, <1>2, <2>2, <2>8, SMTT(30) DEF PrefTypes
  <2>9. ThemeFollows'
    BY <1>1, <2>2, <2>7, <2>8, Zenon DEF ThemeFollows, UseTheme, ResolveTheme
  <2> QED
    BY <1>1, <2>1, <2>4, <2>5, <2>9, Zenon
<1> QED
  BY <1>3, <1>4, ZenonT(30) DEF PrefInvariant

\* A store in the system mode follows the system; any other keeps its theme.
LEMMA SystemKeeps ==
    ASSUME PrefInvariant, SystemThemeChanges
    PROVE  PrefInvariant'
<1>1. /\ osTheme' = Dark + Light - osTheme
      /\ themeShown' = IF UseTheme(overrides) = System THEN osTheme' ELSE themeShown
      /\ UNCHANGED <<prefFile, prefMemory, overrides, prefCalls, raced, themeEvents>>
  BY Zenon DEF SystemThemeChanges
<1>2. PrefTypes
  BY Zenon DEF PrefInvariant
<1>3. osTheme' \in {Dark, Light}
  BY <1>1, <1>2 DEF PrefTypes, Dark, Light
<1>4. PrefTypes'
  BY <1>1, <1>2, <1>3, Zenon DEF PrefTypes
<1>5. ASSUME ThemeFollows
      PROVE  ThemeFollows'
  BY <1>1, <1>5, ZenonT(30) DEF ThemeFollows, ResolveTheme
<1>6. ASSUME ~raced'
      PROVE  /\ prefMemory' = prefFile'
             /\ \A e \in prefCalls' : CallCarries(e)'
             /\ (prefCalls = {} => GivesBack(prefFile, overrides))'
             /\ ThemeFollows'
  BY <1>1, <1>5, <1>6, Zenon DEF PrefInvariant, CallCarries, GivesBack
<1> QED
  BY <1>4, <1>6, Zenon DEF PrefInvariant

\* A restart reads the file into the backend and waits for the first load.
LEMMA RestartKeeps ==
    ASSUME PrefInvariant, RestartApp
    PROVE  PrefInvariant'
<1>1. PICK c : /\ c = [id |-> prefSteps + 1, kind |-> "load", prefs |-> NoOverrides,
                       state |-> "sent"]
               /\ prefMemory' = prefFile /\ overrides' = NoOverrides /\ prefCalls' = {c}
               /\ raced' = FALSE /\ themeEvents' = <<>> /\ themeShown' = Dark
               /\ UNCHANGED <<prefFile, osTheme>>
  BY ZenonT(30) DEF RestartApp
<1>2. /\ PrefCallTypes(c) /\ c.kind = "load" /\ c.state = "sent"
  BY <1>1, EmptyStoreValid, ZenonT(30) DEF PrefCallTypes
<1>3. PrefTypes'
  BY <1>1, <1>2, EmptyStoreValid, SMTT(30) DEF PrefInvariant, PrefTypes
<1>4. CallCarries(c)'
  BY <1>1, <1>2, Zenon DEF CallCarries
<1>5. ThemeFollows'
  BY <1>1, EmptyStoreValid, SMTT(30) DEF ThemeFollows, UseTheme, ResolveTheme, Dark, System
<1> QED
  BY <1>1, <1>3, <1>4, <1>5, Zenon DEF PrefInvariant

\* A first start finds a valid file and asks for it.
LEMMA PrefStarts ==
    ASSUME PrefInit
    PROVE  PrefInvariant
<1>1. PICK c : /\ c = [id |-> 0, kind |-> "load", prefs |-> NoOverrides, state |-> "sent"]
               /\ prefMemory = prefFile /\ overrides = NoOverrides /\ prefCalls = {c}
               /\ raced = FALSE /\ themeEvents = <<>> /\ themeShown = Dark
               /\ osTheme \in {Dark, Light} /\ prefFile \in PrefFiles
  BY ZenonT(30) DEF PrefInit
<1>2. /\ PrefCallTypes(c) /\ c.kind = "load" /\ c.state = "sent"
  BY <1>1, EmptyStoreValid, Zenon DEF PrefCallTypes
<1>3. \A m \in PrefFiles : ValidFile(m)
  BY DEF PrefFiles, ValidFile, NoOverrides, Setting, PreferenceKeys, ZeroUnset, Dark, Light, System
<1>4. PrefTypes
  BY <1>1, <1>2, <1>3, EmptyStoreValid, SMTT(30) DEF PrefTypes
<1>5. CallCarries(c)
  BY <1>1, <1>2, Zenon DEF CallCarries
<1>6. ThemeFollows
  BY <1>1, EmptyStoreValid DEF ThemeFollows, UseTheme, ResolveTheme, Dark, System
<1> QED
  BY <1>1, <1>4, <1>5, <1>6, Zenon DEF PrefInvariant

\* Every step keeps the invariant.
LEMMA PrefStepKeeps ==
    ASSUME PrefInvariant, [PrefNext]_prefVars
    PROVE  PrefInvariant'
<1>1. ASSUME NEW t \in {Dark, Light, System}, ChangeTheme(t)
      PROVE  PrefInvariant'
  <2>1. ValidValue("theme", t)
    BY DEF ValidValue, PreferenceKeys, Dark, Light, System
  <2> QED
    BY <1>1, <2>1, SaveKeeps, ZenonT(30) DEF ChangeTheme
<1>2. ASSUME ChangeLinuxGraphicsMode
      PROVE  PrefInvariant'
  <2>1. ValidValue("graphics", 2)
    BY DEF ValidValue, PreferenceKeys
  <2> QED
    BY <1>2, <2>1, SaveKeeps, ZenonT(30) DEF ChangeLinuxGraphicsMode
<1>3. ASSUME SetPluginConfig
      PROVE  PrefInvariant'
  <2>1. ValidValue("plugin", 2)
    BY DEF ValidValue, PreferenceKeys
  <2> QED
    BY <1>3, <2>1, SaveKeeps, ZenonT(30) DEF SetPluginConfig
<1>4. ASSUME NEW n \in {0, 1}, ChangeEditorPrefs(n) \/ ToggleLaunchAtStartup(n)
      PROVE  PrefInvariant'
  <2>1. ValidValue("editor", n) /\ ValidValue("launch", n)
    BY Zenon DEF ValidValue, PreferenceKeys, ZeroUnset
  <2> QED
    BY <1>4, <2>1, SaveKeeps, ZenonT(30) DEF ChangeEditorPrefs, ToggleLaunchAtStartup
<1>5. ASSUME NEW k \in {"save", "find"}, OverrideShortcut(k)
      PROVE  PrefInvariant'
  <2>1. ValidValue(k, 2)
    BY Zenon DEF ValidValue, PreferenceKeys, ZeroUnset
  <2> QED
    BY <1>5, <2>1, SaveKeeps, ZenonT(30) DEF OverrideShortcut
<1>6. ASSUME UNCHANGED prefVars
      PROVE  PrefInvariant'
  BY <1>6, Zenon DEF prefVars, PrefInvariant, PrefTypes, CallCarries, ThemeFollows, GivesBack
<1> QED
  BY <1>1, <1>2, <1>3, <1>4, <1>5, <1>6, ToggleKeeps, DeleteKeeps, SetKeeps, GetKeeps,
     FailKeeps, AnswerKeeps, HeardKeeps, SystemKeeps, RestartKeeps, ZenonT(30) DEF PrefNext

\* Without failed or overlapping calls, what the store makes effective is what
\* a restart will read from the file, and the theme shown is the store's
\* (preferences.store.ts, ConfigService.ts, theme.store.ts and the backend's
\* SetPreferencesOverrides), whatever the number of steps.
THEOREM PreferencesSurviveRestart == PrefSpec => []PreferencesAgree
<1>1. PrefInvariant => PreferencesAgree
  BY Zenon DEF PrefInvariant, PreferencesAgree, GivesBack, SentKeys, ThemeFollows
<1> QED
  BY <1>1, PrefStarts, PrefStepKeeps, PTL DEF PrefSpec

----------------------------------------------------------------------------
(* The plugins.                                                            *)

Switched == {"unset", "on", "off"}
PrefStates == [enabled : [AllPlugins -> Switched], community : BOOLEAN]
Ids == AllPlugins \cup {"none"}
Recoveries == [run : Nat, ids : SUBSET AllPlugins, saving : Ids, write : PrefStates,
               alone : BOOLEAN, off : SUBSET AllPlugins]
Calls == [n : Nat, kind : {"list", "install", "enable", "uninstall", "mode"}, id : Ids,
          on : BOOLEAN, state : {"sent", "done", "failed"},
          list : (SUBSET Ids) \X (SUBSET Ids)]

FormTypes ==
    /\ installed \subseteq Ids /\ pluginSteps \in Nat
    /\ pluginPrefs \in PrefStates /\ pluginStore \in PrefStates
    /\ pluginForm \in [listed : SUBSET Ids, on : SUBSET Ids,
                       community : BOOLEAN, loading : BOOLEAN, doomed : Ids]
    /\ formCalls \subseteq Calls

RunTypes ==
    /\ activePlugins \subseteq AllPlugins
    /\ contributed \in [AllPlugins -> SUBSET Kinds]
    /\ snapshot \in [Kinds -> [current : BOOLEAN, from : SUBSET AllPlugins]]
    /\ setups \subseteq [id : AllPlugins, at : {"api", "setup"}]
    /\ recoveries \subseteq Recoveries

SettingUp == {s.id : s \in {t \in setups : t.at = "setup"}}
Disabling == {r.saving : r \in recoveries}

\* A plugin with contributions runs, is being set up or is being disabled; at
\* most one is being set up; a cached answer that counts as current is what the
\* registry holds.
RunInvariant ==
    /\ \A k \in Kinds : snapshot[k].current => snapshot[k].from = RegisteredPlugins(k)
    /\ \A p \in AllPlugins : contributed[p] # {} => p \in activePlugins \cup SettingUp \cup Disabling
    /\ \A s, t \in setups : s = t

Settings ==
    \/ RefreshPlugins \/ ConfirmUninstall \/ CancelUninstall \/ ToggleCommunity
    \/ \E p \in AllPlugins : InstallPlugin(p) \/ TogglePlugin(p) \/ AskUninstall(p)

\* The steps that change neither what runs nor the recoveries.
LEMMA Apart ==
    ASSUME \/ RegisterInstalledPlugins \/ GetCommunityPluginsEnabled
           \/ OtherPreferenceSaved \/ Settings
           \/ \E c \in formCalls : PluginServiceFails(c) \/ PluginServiceAnswers(c)
           \/ UNCHANGED pluginVars
    PROVE  UNCHANGED <<contributed, snapshot, setups, activePlugins, recoveries, kept>>
BY Zenon DEF RegisterInstalledPlugins, GetCommunityPluginsEnabled,
   OtherPreferenceSaved, Settings, RefreshPlugins, ConfirmUninstall, CancelUninstall,
   ToggleCommunity, InstallPlugin, TogglePlugin, AskUninstall, PluginServiceFails,
   PluginServiceAnswers, InSettings, OutsidePlugins, pluginVars, runtimeVars, registryVars

\* What an editor's crash and a call the backend serves change of it.
LEMMA Crashed ==
    ASSUME RunTypes, FormTypes, EditorCrashes
    PROVE  /\ UNCHANGED <<contributed, snapshot, setups, activePlugins, kept, pluginPrefs, pluginStore>>
           /\ \E new \in Recoveries :
                /\ recoveries' = recoveries \cup {new}
                /\ new.saving = "none" /\ new.off = {} /\ (new.alone => recoveries = {})
<1> DEFINE new == [run |-> pluginSteps + 1, ids |-> activePlugins, saving |-> "none",
                   write |-> pluginStore, alone |-> recoveries = {}, off |-> {}]
<1>1. /\ UNCHANGED <<contributed, snapshot, setups, activePlugins, kept, pluginPrefs, pluginStore>>
      /\ recoveries' = recoveries \cup {new}
  BY Zenon DEF EditorCrashes, backendVars, runtimeVars, registryVars
<1>2. (recoveries = {}) \in BOOLEAN
  BY Zenon
<1>3. new \in Recoveries /\ new.saving = "none" /\ new.off = {}
  <2>1. /\ pluginSteps \in Nat /\ activePlugins \subseteq AllPlugins
        /\ "none" \in Ids /\ pluginStore \in PrefStates
    BY Zenon DEF RunTypes, FormTypes, Ids
  <2>2. pluginSteps + 1 \in Nat
    BY <2>1, SMT
  <2>3. activePlugins \in SUBSET AllPlugins /\ {} \in SUBSET AllPlugins
    BY <2>1, Zenon
  <2> QED
    BY <1>2, <2>1, <2>2, <2>3, Zenon DEF Recoveries
<1>4. new.alone => recoveries = {}
  BY Zenon
<1> QED
  BY <1>1, <1>3, <1>4, Zenon

\* A call the plugin service serves switches at most one plugin and touches no
\* running one.
LEMMA Served ==
    ASSUME RunTypes, FormTypes, NEW c \in formCalls, PluginServiceServes(c)
    PROVE  /\ UNCHANGED <<contributed, snapshot, setups, activePlugins, pluginStore>>
           /\ pluginPrefs' \in PrefStates
           /\ \E id :
                /\ \A p \in AllPlugins :
                     p # id => pluginPrefs'.enabled[p] = pluginPrefs.enabled[p]
                /\ \/ kept' = kept \ {id}
                      /\ recoveries' = {[r EXCEPT !.off = @ \ {id}] : r \in recoveries}
                   \/ pluginPrefs'.enabled = pluginPrefs.enabled /\ UNCHANGED <<kept, recoveries>>
<1>1. UNCHANGED <<contributed, snapshot, setups, activePlugins, pluginStore>>
  BY Zenon DEF PluginServiceServes, runtimeVars, registryVars
<1>2. c \in Calls
  BY Zenon DEF FormTypes
<1>3. /\ pluginPrefs' \in PrefStates
      /\ \A p \in AllPlugins : p # c.id => pluginPrefs'.enabled[p] = pluginPrefs.enabled[p]
      /\ c.kind \notin {"enable", "install", "uninstall"} =>
            pluginPrefs'.enabled = pluginPrefs.enabled
  BY <1>2 DEF PluginServiceServes, FormTypes, Calls, PrefStates, Switched
<1>4. \/ c.kind \in {"enable", "install", "uninstall"} /\ kept' = kept \ {c.id}
         /\ recoveries' = {[r EXCEPT !.off = @ \ {c.id}] : r \in recoveries}
      \/ c.kind \notin {"enable", "install", "uninstall"} /\ UNCHANGED <<kept, recoveries>>
  BY Zenon DEF PluginServiceServes
<1> QED
  BY <1>1, <1>3, <1>4, Zenon

\* Losing the record that a plugin was turned off changes no recovery otherwise.
LEMMA RecoveryForgotten ==
    ASSUME RunTypes, NEW id, NEW r \in recoveries
    PROVE  LET n == [r EXCEPT !.off = @ \ {id}]
           IN  /\ n \in Recoveries /\ n.saving = r.saving /\ n.write = r.write
               /\ n.alone = r.alone /\ n.off = r.off \ {id} /\ n.ids = r.ids /\ n.run = r.run
BY DEF RunTypes, Recoveries

\* Nor does no longer being alone.
LEMMA NotAlone ==
    ASSUME RunTypes, NEW o \in recoveries
    PROVE  LET n == [o EXCEPT !.alone = FALSE]
           IN  /\ n \in Recoveries /\ n.saving = o.saving /\ n.write = o.write
               /\ n.alone = FALSE /\ n.off = o.off
BY Zenon DEF RunTypes, Recoveries

\* Every change of the registry outdates the cached answers.
LEMMA Emitted ==
    ASSUME RunTypes, EmitChange
    PROVE  /\ snapshot' \in [Kinds -> [current : BOOLEAN, from : SUBSET AllPlugins]]
           /\ \A i \in Kinds : ~snapshot'[i].current
BY Zenon DEF EmitChange, RunTypes

\* Removing the contributions of a plugin leaves the others'.
LEMMA CleanedUp ==
    ASSUME RunTypes, RunInvariant, NEW p \in AllPlugins, CleanupContributions(p)
    PROVE  /\ contributed' \in [AllPlugins -> SUBSET Kinds]
           /\ snapshot' \in [Kinds -> [current : BOOLEAN, from : SUBSET AllPlugins]]
           /\ \A q \in AllPlugins : q # p => contributed'[q] = contributed[q]
           /\ contributed'[p] = {}
           /\ \A k \in Kinds : snapshot'[k].current => snapshot'[k].from = RegisteredPlugins(k)'
<1>1. /\ contributed' \in [AllPlugins -> SUBSET Kinds]
      /\ \A q \in AllPlugins : q # p => contributed'[q] = contributed[q]
      /\ contributed'[p] = {}
  BY Zenon DEF CleanupContributions, RunTypes
<1>2. CASE contributed[p] = {}
  <2>1. contributed' = contributed /\ snapshot' = snapshot
    BY <1>2, Zenon DEF CleanupContributions, RunTypes
  <2> QED
    BY <1>1, <2>1, Zenon DEF RunTypes, RunInvariant, RegisteredPlugins
<1>3. CASE contributed[p] # {}
  BY <1>1, <1>3, Emitted, Zenon DEF CleanupContributions
<1> QED
  BY <1>2, <1>3, Zenon

\* No step leaves contributions of a plugin that neither runs, is being set up
\* nor is being disabled.
LEMMA RunStep ==
    ASSUME RunTypes, FormTypes, RunInvariant, [PluginNext]_pluginVars
    PROVE  RunTypes' /\ RunInvariant'
<1> DEFINE Goal == RunTypes' /\ RunInvariant'
<1>1. ASSUME \/ RegisterInstalledPlugins \/ GetCommunityPluginsEnabled
             \/ OtherPreferenceSaved \/ Settings
             \/ \E c \in formCalls : PluginServiceFails(c) \/ PluginServiceAnswers(c)
             \/ UNCHANGED pluginVars
      PROVE  Goal
  <2>1. UNCHANGED <<contributed, snapshot, setups, activePlugins, recoveries>>
    BY <1>1, Apart, Zenon
  <2> QED
    BY <2>1, Zenon DEF RunTypes, RunInvariant, SettingUp, Disabling, RegisteredPlugins
<1>11. ASSUME EditorCrashes
      PROVE  Goal
  <2>1. /\ UNCHANGED <<contributed, snapshot, setups, activePlugins>>
        /\ recoveries \subseteq recoveries' /\ recoveries' \subseteq Recoveries
    BY <1>11, Crashed, Zenon DEF RunTypes
  <2> QED
    BY <2>1, ZenonT(30) DEF RunTypes, RunInvariant, SettingUp, Disabling, RegisteredPlugins
<1>12. ASSUME NEW c \in formCalls, PluginServiceServes(c)
      PROVE  Goal
  <2>1. UNCHANGED <<contributed, snapshot, setups, activePlugins>>
    BY <1>12, Served, Zenon
  <2>2. PICK id :
          \/ recoveries' = {[r EXCEPT !.off = @ \ {id}] : r \in recoveries}
          \/ recoveries' = recoveries
    BY <1>12, Served, Zenon
  <2> DEFINE Less(r) == [r EXCEPT !.off = @ \ {id}]
  <2>3. \A r \in recoveries : Less(r) \in Recoveries /\ Less(r).saving = r.saving
    BY RecoveryForgotten, Zenon
  <2>4. recoveries' = {Less(r) : r \in recoveries} \/ recoveries' = recoveries
    BY <2>2, Zenon
  <2> HIDE DEF Less
  <2>5. recoveries' \subseteq Recoveries
    BY <2>3, <2>4 DEF RunTypes
  <2>6. Disabling' = Disabling
    <3>1. CASE recoveries' = recoveries
      BY <3>1, Zenon DEF Disabling
    <3>2. CASE recoveries' = {Less(r) : r \in recoveries}
      <4>1. ASSUME NEW x \in Disabling' PROVE x \in Disabling
        <5>1. PICK r \in recoveries : x = Less(r).saving
          BY <3>2, <4>1, Zenon DEF Disabling
        <5> QED
          BY <2>3, <5>1, Zenon DEF Disabling
      <4>2. ASSUME NEW x \in Disabling PROVE x \in Disabling'
        <5>1. PICK r \in recoveries : x = r.saving
          BY <4>2, Zenon DEF Disabling
        <5>2. Less(r) \in recoveries' /\ x = Less(r).saving
          BY <2>3, <3>2, <5>1, Zenon
        <5> QED
          BY <5>2, Zenon DEF Disabling
      <4> QED
        BY <4>1, <4>2, Zenon
    <3> QED
      BY <2>4, <3>1, <3>2, Zenon
  <2> QED
    BY <2>1, <2>5, <2>6, Zenon DEF RunTypes, RunInvariant, SettingUp, RegisteredPlugins
<1>2. ASSUME LoadNext
      PROVE  Goal
  <2>1. /\ UNCHANGED <<contributed, snapshot, activePlugins, recoveries>>
        /\ setups = {}
        /\ setups' = {} \/ \E p \in AllPlugins : setups' = {[id |-> p, at |-> "api"]}
    BY <1>2, Zenon DEF LoadNext, OutsidePlugins, registryVars
  <2> QED
    BY <2>1 DEF RunTypes, RunInvariant, SettingUp, Disabling, RegisteredPlugins
<1>3. ASSUME NEW s \in setups, CheckApiVersion(s)
      PROVE  Goal
  <2>1. /\ UNCHANGED <<contributed, snapshot, activePlugins, recoveries>>
        /\ s.at = "api"
        /\ setups' = {} \/ setups' = {[s EXCEPT !.at = "setup"]}
    BY <1>3, Zenon DEF CheckApiVersion, OutsidePlugins, registryVars
  <2>2. SettingUp = {}
    BY <2>1, Zenon DEF SettingUp, RunInvariant
  <2> QED
    BY <2>1, <2>2, Zenon DEF RunTypes, RunInvariant, SettingUp, Disabling, RegisteredPlugins
<1>4. ASSUME NEW s \in setups, SetupThrows(s)
      PROVE  Goal
  <2>1. /\ CleanupContributions(s.id) /\ recoveries' = recoveries
        /\ activePlugins' = activePlugins \ {s.id} /\ setups' = {}
    BY <1>4, Zenon DEF SetupThrows, OutsidePlugins
  <2>2. s.id \in AllPlugins /\ SettingUp \subseteq {s.id}
    BY Zenon DEF RunTypes, RunInvariant, SettingUp
  <2> QED
    BY <2>1, <2>2, CleanedUp, ZenonT(30) DEF RunTypes, RunInvariant, Disabling
<1>5. ASSUME NEW s \in setups, NEW k \in Kinds, SetupRegisters(s, k)
      PROVE  Goal
  <2>1. CASE SetupThrows(s)
    BY <1>4, <2>1, Zenon
  <2>2. CASE ~SetupThrows(s)
    <3>1. /\ SetContribution(s.id, k) /\ s.at = "setup"
          /\ UNCHANGED <<recoveries, activePlugins, setups>>
      BY <1>5, <2>2, Zenon DEF SetupRegisters, OutsidePlugins, runtimeVars
    <3>2. s.id \in AllPlugins /\ s.id \in SettingUp
      BY <3>1, Zenon DEF RunTypes, SettingUp
    <3>3. /\ contributed' \in [AllPlugins -> SUBSET Kinds]
          /\ \A q \in AllPlugins : q # s.id => contributed'[q] = contributed[q]
      BY <3>1, <3>2, Zenon DEF SetContribution, RunTypes
    <3> QED
      BY <3>1, <3>2, <3>3, Emitted, Zenon
         DEF SetContribution, RunTypes, RunInvariant, SettingUp, Disabling
  <2> QED
    BY <2>1, <2>2, Zenon
<1>6. ASSUME NEW s \in setups, SetupEnds(s)
      PROVE  Goal
  <2>1. CASE SetupThrows(s)
    BY <1>4, <2>1, ZenonT(30)
  <2>2. CASE ~SetupThrows(s)
    <3>1. /\ activePlugins' = activePlugins \cup {s.id} /\ setups' = {}
          /\ UNCHANGED <<contributed, snapshot, recoveries>>
      BY <1>6, <2>2, Zenon DEF SetupEnds, OutsidePlugins, registryVars
    <3>2. SettingUp \subseteq {s.id}
      BY Zenon DEF RunInvariant, SettingUp
    <3> QED
      BY <3>1, <3>2, Zenon DEF RunTypes, RunInvariant, Disabling, RegisteredPlugins
  <2> QED
    BY <2>1, <2>2, Zenon
<1>7. ASSUME NEW k \in Kinds, ReadSnapshot(k)
      PROVE  Goal
  <2>1. UNCHANGED <<contributed, activePlugins, recoveries, setups>>
    BY <1>7, Zenon DEF ReadSnapshot, runtimeVars
  <2>2. snapshot' = [snapshot EXCEPT ![k] = [current |-> TRUE, from |-> RegisteredPlugins(k)]]
    BY <1>7, Zenon DEF ReadSnapshot, GetAll
  <2>3. RegisteredPlugins(k) \in SUBSET AllPlugins
    BY Zenon DEF RegisteredPlugins
  <2>4. \A i \in Kinds : RegisteredPlugins(i)' = RegisteredPlugins(i)
    BY <2>1, Zenon DEF RegisteredPlugins
  <2>5. RunTypes'
    BY <2>1, <2>2, <2>3, Zenon DEF RunTypes
  <2>6. \A i \in Kinds : snapshot'[i].current => snapshot'[i].from = RegisteredPlugins(i)'
    BY <2>2, <2>4, Zenon DEF RunTypes, RunInvariant
  <2> QED
    BY <2>1, <2>5, <2>6, Zenon DEF RunInvariant, SettingUp, Disabling
<1>8. ASSUME NEW r \in recoveries, DisablePlugin(r)
      PROVE  Goal
  <2>1. PICK p \in AllPlugins :
          /\ r.saving = "none" /\ activePlugins' = activePlugins \ {p}
          /\ recoveries' = Others(r) \cup
               {[r EXCEPT !.saving = p, !.write = DisabledState(p),
                          !.alone = @ /\ recoveries = {r}]}
          /\ UNCHANGED <<contributed, snapshot, setups>>
    BY <1>8, Zenon DEF DisablePlugin, registryVars
  <2>2. /\ Others(r) \subseteq Recoveries
        /\ \A o \in recoveries \ {r} : \E n \in Others(r) : n.saving = o.saving
    BY NotAlone, Zenon DEF Others
  <2>3. DisabledState(p) \in PrefStates
    BY Zenon DEF DisabledState, FormTypes, PrefStates, Switched
  <2>4. \E n \in recoveries' \cap Recoveries : n.saving = p /\ recoveries' = Others(r) \cup {n}
    <3> DEFINE n == [r EXCEPT !.saving = p, !.write = DisabledState(p),
                              !.alone = @ /\ recoveries = {r}]
    <3>1. n \in Recoveries /\ n.saving = p
      BY <2>3, Zenon DEF RunTypes, Recoveries, Ids
    <3> QED
      BY <2>1, <3>1, Zenon
  <2>5. p \in Disabling' /\ Disabling \ {"none"} \subseteq Disabling'
    BY <2>1, <2>2, <2>4, Zenon DEF Disabling
  <2>6. RunTypes'
    BY <2>1, <2>2, <2>4, Zenon DEF RunTypes
  <2> QED
    BY <2>1, <2>5, <2>6, PluginAssumption, Zenon DEF RunInvariant, SettingUp, RegisteredPlugins
<1>9. ASSUME NEW r \in recoveries, NEW saved \in BOOLEAN, DisableEnds(r, saved)
      PROVE  Goal
  <2> DEFINE p == r.saving
             next == [r EXCEPT !.saving = "none", !.ids = @ \ {p},
                               !.off = IF saved THEN @ \cup {p} ELSE @]
  <2>1. /\ CleanupContributions(p) /\ activePlugins' = activePlugins \ {p} /\ p # "none"
        /\ recoveries' = recoveries \ {r} \/ recoveries' = (recoveries \ {r}) \cup {next}
        /\ UNCHANGED setups
    BY <1>9, Zenon DEF DisableEnds
  <2>2. Disabling \subseteq Disabling' \cup {p}
    BY <2>1, Zenon DEF Disabling
  <2>3. p \in AllPlugins
    BY <2>1, Zenon DEF RunTypes, Recoveries, Ids
  <2>4. next \in Recoveries
    BY <2>3, ZenonT(30) DEF RunTypes, Recoveries, Ids
  <2> HIDE DEF next
  <2>5. recoveries' \subseteq Recoveries
    BY <2>1, <2>4, Zenon DEF RunTypes
  <2> QED
    BY <2>1, <2>2, <2>3, <2>5, CleanedUp, Zenon DEF RunTypes, RunInvariant, SettingUp
<1>10. ASSUME RestartWindow
       PROVE  Goal
  <2>1. /\ setups' = {} /\ recoveries' = {} /\ activePlugins' = {}
        /\ contributed' = [p \in AllPlugins |-> {}]
        /\ snapshot' = [k \in Kinds |-> [current |-> FALSE, from |-> {}]]
    BY <1>10, Zenon DEF RestartWindow
  <2> QED
    BY <2>1, Zenon DEF RunTypes, RunInvariant
<1> HIDE DEF Goal
<1>13. Goal
  BY <1>1, <1>11, <1>12, <1>2, <1>3, <1>5, <1>6, <1>7, <1>8, <1>9, <1>10, ZenonT(30)
     DEF PluginNext, Settings, DisableSaved, DisableFails
<1> QED
  BY <1>13, Zenon DEF Goal

\* The backend's and the settings' part of the types.
LEMMA FormTypesStep ==
    ASSUME RunTypes, FormTypes, [PluginNext]_pluginVars
    PROVE  FormTypes'
<1> DEFINE Rest == /\ installed' = installed /\ pluginPrefs' = pluginPrefs
                   /\ pluginStore' = pluginStore
           Forms == [listed : SUBSET Ids, on : SUBSET Ids,
                     community : BOOLEAN, loading : BOOLEAN, doomed : Ids]
<1>1. pluginSteps' \in Nat
  <2>1. pluginSteps' = pluginSteps \/ pluginSteps' = pluginSteps + 1
    BY Zenon DEF PluginNext, pluginVars, PluginStep, RegisterInstalledPlugins,
       GetCommunityPluginsEnabled, LoadNext, CheckApiVersion, SetupEnds, SetupRegisters,
       SetupThrows, OutsidePlugins, ReadSnapshot, EditorCrashes, OtherPreferenceSaved,
       RestartWindow, DisablePlugin, DisableSaved, DisableFails, DisableEnds, InSettings,
       RefreshPlugins, ConfirmUninstall, CancelUninstall, ToggleCommunity, InstallPlugin,
       TogglePlugin, AskUninstall, PluginServiceServes, PluginServiceFails, PluginServiceAnswers
  <2> QED
    BY <2>1 DEF FormTypes
<1>2. ASSUME \/ RegisterInstalledPlugins \/ GetCommunityPluginsEnabled \/ LoadNext
             \/ \E s \in setups : \/ CheckApiVersion(s) \/ SetupEnds(s)
                                  \/ \E k \in Kinds : SetupRegisters(s, k)
             \/ \E k \in Kinds : ReadSnapshot(k)
             \/ \E r \in recoveries : DisablePlugin(r) \/ DisableFails(r)
             \/ EditorCrashes \/ UNCHANGED pluginVars
      PROVE  Rest /\ pluginForm' = pluginForm /\ formCalls' = formCalls
  BY <1>2, Zenon DEF pluginVars, RegisterInstalledPlugins, GetCommunityPluginsEnabled,
     LoadNext, CheckApiVersion, SetupEnds, SetupRegisters, SetupThrows, OutsidePlugins,
     ReadSnapshot, EditorCrashes, DisablePlugin, DisableFails, DisableEnds, backendVars, formVars
<1>3. ASSUME \/ OtherPreferenceSaved \/ \E r \in recoveries : DisableSaved(r)
      PROVE  /\ installed' = installed /\ pluginForm' = pluginForm /\ formCalls' = formCalls
             /\ pluginPrefs' \in PrefStates /\ pluginStore' \in PrefStates
  <2>1. ASSUME NEW r \in recoveries, DisableSaved(r)
        PROVE  /\ installed' = installed /\ pluginForm' = pluginForm /\ formCalls' = formCalls
               /\ pluginPrefs' = r.write /\ pluginStore' = r.write
    BY <2>1, Zenon DEF DisableSaved, DisableEnds, SavePluginState, formVars
  <2>2. \A r \in recoveries : r.write \in PrefStates
    BY Zenon DEF RunTypes, Recoveries
  <2>3. ASSUME OtherPreferenceSaved
        PROVE  /\ installed' = installed /\ pluginForm' = pluginForm /\ formCalls' = formCalls
               /\ pluginPrefs' = pluginStore /\ pluginStore' = pluginStore
    BY <2>3, Zenon DEF OtherPreferenceSaved, SavePluginState, formVars
  <2> QED
    BY <1>3, <2>1, <2>2, <2>3, Zenon DEF FormTypes
<1>4. ASSUME NEW kind \in {"list", "install", "enable", "uninstall", "mode"}, NEW id \in Ids,
             NEW on \in BOOLEAN, FormCall(kind, id, on)
      PROVE  formCalls' \subseteq Calls
  <2>1. PICK c : c = [n |-> pluginSteps + 1, kind |-> kind, id |-> id, on |-> on,
                      state |-> "sent", list |-> <<{}, {}>>]
    BY Zenon
  <2>2. formCalls' = formCalls \cup {c} /\ formCalls \subseteq Calls /\ pluginSteps + 1 \in Nat
    <3>1. formCalls' = formCalls \cup {c}
      BY <1>4, <2>1, Zenon DEF FormCall
    <3>2. formCalls \subseteq Calls /\ pluginSteps \in Nat
      BY Zenon DEF FormTypes
    <3>3. pluginSteps + 1 \in Nat
      BY <3>2, SMT
    <3> QED
      BY <3>1, <3>2, <3>3, Zenon
  <2>3. {} \in SUBSET Ids /\ <<{}, {}>> \in (SUBSET Ids) \X (SUBSET Ids)
    BY Zenon
  <2>4. c \in Calls
    BY <1>4, <2>1, <2>2, <2>3, Zenon DEF Calls
  <2> QED
    BY <2>2, <2>4, Zenon
<1>5. ASSUME Settings
      PROVE  Rest /\ pluginForm' \in Forms /\ formCalls' \subseteq Calls
  <2>1. Rest
    BY <1>5, Zenon DEF Settings, RefreshPlugins, ConfirmUninstall, CancelUninstall,
       ToggleCommunity, InstallPlugin, TogglePlugin, AskUninstall, InSettings, backendVars
  <2>2. ASSUME RefreshPlugins
        PROVE  pluginForm' \in Forms /\ formCalls' \subseteq Calls
    <3>1. FormCall("list", "none", FALSE) /\ pluginForm' = [pluginForm EXCEPT !.loading = TRUE]
      BY <2>2, Zenon DEF RefreshPlugins
    <3> QED
      BY <1>4, <3>1, Zenon DEF FormTypes, Ids
  <2>3. ASSUME ConfirmUninstall \/ CancelUninstall
        PROVE  pluginForm' \in Forms /\ formCalls' \subseteq Calls
    <3>1. /\ pluginForm' = [pluginForm EXCEPT !.doomed = "none"]
          /\ FormCall("uninstall", pluginForm.doomed, FALSE) \/ formCalls' = formCalls
      BY <2>3, Zenon DEF ConfirmUninstall, CancelUninstall
    <3>2. pluginForm.doomed \in Ids
      BY Zenon DEF FormTypes
    <3> QED
      BY <1>4, <3>1, <3>2, Zenon DEF FormTypes, Ids
  <2>4. ASSUME ToggleCommunity
        PROVE  pluginForm' \in Forms /\ formCalls' \subseteq Calls
    <3>1. FormCall("mode", "none", ~pluginForm.community) /\ pluginForm' = pluginForm
      BY <2>4, Zenon DEF ToggleCommunity
    <3>2. (~pluginForm.community) \in BOOLEAN
      BY Zenon
    <3> QED
      BY <1>4, <3>1, <3>2, Zenon DEF FormTypes, Ids
  <2>5. ASSUME NEW p \in AllPlugins, InstallPlugin(p) \/ TogglePlugin(p)
        PROVE  pluginForm' \in Forms /\ formCalls' \subseteq Calls
    <3>1. /\ FormCall("install", p, FALSE) \/ FormCall("enable", p, p \notin pluginForm.on)
          /\ pluginForm' = pluginForm
      BY <2>5, Zenon DEF InstallPlugin, TogglePlugin
    <3>2. (p \notin pluginForm.on) \in BOOLEAN
      BY Zenon
    <3> QED
      BY <1>4, <3>1, <3>2, Zenon DEF FormTypes, Ids
  <2>6. ASSUME NEW p \in AllPlugins, AskUninstall(p)
        PROVE  pluginForm' \in Forms /\ formCalls' \subseteq Calls
    BY <2>6, Zenon DEF AskUninstall, FormTypes, Ids
  <2> QED
    BY <1>5, <2>1, <2>2, <2>3, <2>4, <2>5, <2>6, Zenon DEF Settings
<1>6. ASSUME NEW c \in formCalls, PluginServiceFails(c)
      PROVE  Rest /\ pluginForm' \in Forms /\ formCalls' \subseteq Calls
  <2>1. /\ Rest /\ pluginForm' = pluginForm
        /\ formCalls' = (formCalls \ {c}) \cup {[c EXCEPT !.state = "failed"]}
    BY <1>6, Zenon DEF PluginServiceFails, backendVars
  <2> QED
    BY <2>1 DEF FormTypes, Calls
<1>7. ASSUME NEW c \in formCalls, PluginServiceServes(c)
      PROVE  /\ installed' \subseteq Ids /\ pluginPrefs' \in PrefStates
             /\ pluginStore' = pluginStore
             /\ pluginForm' \in Forms /\ formCalls' \subseteq Calls
  <2>1. /\ pluginForm' = pluginForm /\ pluginStore' = pluginStore
        /\ formCalls' = (formCalls \ {c}) \cup
             {[c EXCEPT !.state = "done", !.list = <<installed, EnabledNow>>]}
        /\ installed' = IF c.kind = "install" THEN installed \cup {c.id}
                        ELSE IF c.kind = "uninstall" THEN installed \ {c.id} ELSE installed
    BY <1>7, Zenon DEF PluginServiceServes
  <2>2. c \in Calls
    BY ZenonT(30) DEF FormTypes
  <2>3. <<installed, EnabledNow>> \in (SUBSET Ids) \X (SUBSET Ids)
    BY Zenon DEF FormTypes, EnabledNow
  <2>4. formCalls' \subseteq Calls
    BY <2>1, <2>2, <2>3, ZenonT(30) DEF FormTypes, Calls
  <2>5. installed' \subseteq Ids
    BY <2>1, <2>2, Zenon DEF FormTypes, Calls
  <2> QED
    BY <1>7, <2>1, <2>4, <2>5, Served, Zenon DEF FormTypes
<1>8. ASSUME NEW c \in formCalls, PluginServiceAnswers(c)
      PROVE  Rest /\ pluginForm' \in Forms /\ formCalls' \subseteq Calls
  <2>1. Rest
    BY <1>8, Zenon DEF PluginServiceAnswers, backendVars
  <2>2. c \in Calls
    BY Zenon DEF FormTypes
  <2>3. formCalls' \subseteq Calls
    BY <1>8, <2>2, ZenonT(30) DEF PluginServiceAnswers, FormTypes, Calls
  <2>4. c.id \in Ids /\ c.on \in BOOLEAN /\ c.list[1] \subseteq Ids /\ c.list[2] \subseteq Ids
    BY <2>2, Zenon DEF Calls
  <2>5. PICK answered \in Forms, busy \in BOOLEAN : pluginForm' = [answered EXCEPT !.loading = busy]
    <3> DEFINE answered == CASE c.state = "failed" -> pluginForm
                   [] c.kind = "list" -> [pluginForm EXCEPT !.listed = c.list[1], !.on = c.list[2]]
                   [] c.kind = "enable" ->
                          [pluginForm EXCEPT
                             !.on = IF c.on THEN @ \cup ({c.id} \cap pluginForm.listed)
                                    ELSE @ \ {c.id}]
                   [] c.kind = "mode" -> [pluginForm EXCEPT !.community = c.on]
                   [] OTHER -> pluginForm
               busy == IF c.kind = "list" THEN FALSE
                       ELSE (c.state = "done" /\ c.kind \in {"install", "uninstall", "mode"})
                            \/ answered.loading
    <3>1. pluginForm' = [answered EXCEPT !.loading = busy]
      BY <1>8, Zenon DEF PluginServiceAnswers
    <3>2. answered \in Forms
      BY <2>4, Zenon DEF FormTypes
    <3>3. busy \in BOOLEAN
      BY Zenon
    <3> QED
      BY <3>1, <3>2, <3>3, Zenon
  <2>6. pluginForm' \in Forms
    BY <2>5, Zenon
  <2> QED
    BY <2>1, <2>3, <2>6, Zenon
<1>9. ASSUME RestartWindow
      PROVE  /\ installed' = installed /\ pluginPrefs' = pluginPrefs
             /\ pluginStore' = pluginPrefs /\ pluginForm' \in Forms /\ formCalls' \subseteq Calls
  <2>1. /\ installed' = installed /\ pluginPrefs' = pluginPrefs /\ pluginStore' = pluginPrefs
        /\ formCalls' = {}
        /\ pluginForm' = [listed |-> installed, on |-> EnabledNow,
                          community |-> pluginPrefs.community, loading |-> FALSE,
                          doomed |-> "none"]
    BY <1>9, Zenon DEF RestartWindow, backendVars
  <2> QED
    BY <2>1, Zenon DEF FormTypes, EnabledNow, PrefStates, Ids
<1> QED
  BY <1>1, <1>2, <1>3, <1>5, <1>6, <1>7, <1>8, <1>9, ZenonT(30) DEF FormTypes, PluginNext, Settings

\* A plugin a finished recovery turned off is off in the preferences, in the
\* window's copy and in whatever a recovery is about to write; so is what a
\* running one that is still alone turned off; and while one is alone no other
\* has a save under way.
StaysOff(p) ==
    /\ pluginPrefs.enabled[p] = "off" /\ pluginStore.enabled[p] = "off"
    /\ \A r \in recoveries : r.saving # "none" => r.write.enabled[p] = "off"

OffInvariant ==
    /\ kept \subseteq AllPlugins
    /\ \A p \in kept : StaysOff(p)
    /\ \A r \in recoveries : r.saving # "none" => r.write.enabled[r.saving] = "off"
    /\ \A r \in recoveries : r.alone => \A p \in r.off : StaysOff(p)
    /\ \A r, o \in recoveries : r.alone /\ o # r => o.saving = "none"

\* The end of disabling one plugin.
LEMMA OffDisabled ==
    ASSUME RunTypes, FormTypes, OffInvariant, NEW r \in recoveries, NEW saved \in BOOLEAN,
           DisableEnds(r, saved),
           IF saved THEN SavePluginState(r.write) ELSE UNCHANGED <<pluginPrefs, pluginStore>>
    PROVE  OffInvariant'
<1> DEFINE p == r.saving
           next == [r EXCEPT !.saving = "none", !.ids = @ \ {p},
                             !.off = IF saved THEN @ \cup {p} ELSE @]
           turned == IF saved THEN r.off \cup {p} ELSE r.off
<1>1. p \in AllPlugins /\ p # "none" /\ r \in Recoveries
  BY Zenon DEF DisableEnds, RunTypes, Recoveries, Ids
<1>2. /\ next \in Recoveries /\ next.saving = "none" /\ next.off = turned
      /\ next.alone = r.alone
  BY <1>1, Zenon DEF Recoveries, Ids
<1>3. /\ recoveries' \subseteq (recoveries \ {r}) \cup {next}
      /\ kept' \subseteq kept \/ (r.alone /\ kept' = kept \cup turned)
  <2>1. /\ recoveries' = recoveries \ {r} \/ recoveries' = (recoveries \ {r}) \cup {next}
        /\ kept' = kept \ {p} \/ (r.alone /\ kept' = kept \cup next.off)
    BY ZenonT(30) DEF DisableEnds
  <2> QED
    BY <1>2, <2>1, Zenon
<1>4. turned \subseteq AllPlugins
  BY <1>1, Zenon DEF Recoveries
<1> HIDE DEF next
\* What was off stays off; what this recovery turned off is off.
<1>5. ASSUME NEW q \in AllPlugins, StaysOff(q)
      PROVE  StaysOff(q)'
  BY <1>1, <1>2, <1>3, <1>5, ZenonT(30) DEF StaysOff, SavePluginState
<1>6. ASSUME r.alone, NEW q \in turned
      PROVE  StaysOff(q)'
  <2>1. CASE q \in r.off
    <3>1. StaysOff(q)
      BY <1>6, <2>1, ZenonT(30) DEF OffInvariant
    <3> QED
      BY <1>4, <1>5, <3>1, ZenonT(30)
  <2>2. CASE saved /\ q = p
    <3>1. pluginPrefs' = r.write /\ pluginStore' = r.write /\ r.write.enabled[q] = "off"
      BY <1>1, <2>2, ZenonT(30) DEF SavePluginState, OffInvariant
    <3>2. \A n \in recoveries' : n.saving = "none"
      BY <1>2, <1>3, <1>6, ZenonT(30) DEF OffInvariant
    <3> QED
      BY <3>1, <3>2, ZenonT(30) DEF StaysOff
  <2> QED
    BY <1>6, <2>1, <2>2, ZenonT(30)
<1>7. kept' \subseteq AllPlugins /\ \A q \in kept' : StaysOff(q)'
  BY <1>3, <1>4, <1>5, <1>6, ZenonT(30) DEF OffInvariant
<1>8. \A n \in recoveries' : n.alone => n = next /\ r.alone
  BY <1>1, <1>2, <1>3, ZenonT(30) DEF OffInvariant
<1>9. \A n \in recoveries' : n.saving # "none" => n \in recoveries
  BY <1>2, <1>3, ZenonT(30)
<1>10. \A n, o \in recoveries' : n.alone /\ o # n => o.saving = "none"
  BY <1>2, <1>3, <1>8, ZenonT(30) DEF OffInvariant
<1> QED
  BY <1>2, <1>6, <1>7, <1>8, <1>9, <1>10, ZenonT(30) DEF OffInvariant

\* No step turns a plugin on again that a recovery turned off, but the user's.
LEMMA OffStep ==
    ASSUME RunTypes, FormTypes, OffInvariant, [PluginNext]_pluginVars
    PROVE  OffInvariant'
<1> DEFINE Goal == OffInvariant'
<1>1. ASSUME \/ RegisterInstalledPlugins \/ GetCommunityPluginsEnabled \/ Settings
             \/ LoadNext
             \/ \E s \in setups : \/ CheckApiVersion(s) \/ SetupEnds(s)
                                  \/ \E k \in Kinds : SetupRegisters(s, k)
             \/ \E k \in Kinds : ReadSnapshot(k)
             \/ \E c \in formCalls : PluginServiceFails(c) \/ PluginServiceAnswers(c)
             \/ UNCHANGED pluginVars
      PROVE  Goal
  <2>1. UNCHANGED <<kept, pluginPrefs, pluginStore, recoveries>>
    BY <1>1, Zenon DEF RegisterInstalledPlugins, GetCommunityPluginsEnabled, Settings, LoadNext,
       CheckApiVersion, SetupEnds, SetupRegisters, SetupThrows, OutsidePlugins, ReadSnapshot,
       PluginServiceFails, PluginServiceAnswers, RefreshPlugins, ConfirmUninstall,
       CancelUninstall, ToggleCommunity, InstallPlugin, TogglePlugin, AskUninstall,
       InSettings, backendVars, pluginVars
  <2> QED
    BY <2>1, ZenonT(30) DEF OffInvariant, StaysOff
<1>2. ASSUME OtherPreferenceSaved
      PROVE  Goal
  <2>1. UNCHANGED <<kept, pluginStore, recoveries>> /\ pluginPrefs' = pluginStore
    BY <1>2, Zenon DEF OtherPreferenceSaved, SavePluginState
  <2> QED
    BY <2>1, ZenonT(30) DEF OffInvariant, StaysOff
<1>3. ASSUME RestartWindow
      PROVE  Goal
  <2>1. /\ UNCHANGED <<kept, pluginPrefs>> /\ pluginStore' = pluginPrefs /\ recoveries' = {}
    BY <1>3, Zenon DEF RestartWindow, backendVars
  <2> QED
    BY <2>1, Zenon DEF OffInvariant, StaysOff
<1>4. ASSUME EditorCrashes
      PROVE  Goal
  <2>1. PICK new \in Recoveries :
          /\ recoveries' = recoveries \cup {new} /\ new.saving = "none" /\ new.off = {}
          /\ new.alone => recoveries = {}
          /\ UNCHANGED <<kept, pluginPrefs, pluginStore>>
    BY <1>4, Crashed, Zenon
  <2>2. \A p \in AllPlugins : StaysOff(p) => StaysOff(p)'
    BY <2>1, Zenon DEF StaysOff
  <2>3. \A r \in recoveries : r.off \subseteq AllPlugins
    BY Zenon DEF RunTypes, Recoveries
  <2> QED
    BY <2>1, <2>2, <2>3, ZenonT(30) DEF OffInvariant
<1>5. ASSUME NEW c \in formCalls, PluginServiceServes(c)
      PROVE  Goal
  <2>1. PICK id :
          /\ \A p \in AllPlugins : p # id => pluginPrefs'.enabled[p] = pluginPrefs.enabled[p]
          /\ \/ kept' = kept \ {id}
                /\ recoveries' = {[r EXCEPT !.off = @ \ {id}] : r \in recoveries}
             \/ pluginPrefs'.enabled = pluginPrefs.enabled /\ UNCHANGED <<kept, recoveries>>
    BY <1>5, Served, ZenonT(30)
  <2>2. pluginStore' = pluginStore
    BY <1>5, Served, Zenon
  <2>3. CASE pluginPrefs'.enabled = pluginPrefs.enabled /\ UNCHANGED <<kept, recoveries>>
    <3>1. \A p : StaysOff(p)' = StaysOff(p)
      BY <2>2, <2>3, Zenon DEF StaysOff
    <3> QED
      BY <2>3, <3>1, Zenon DEF OffInvariant
  <2>4. CASE /\ kept' = kept \ {id}
             /\ recoveries' = {[r EXCEPT !.off = @ \ {id}] : r \in recoveries}
    <3> DEFINE Less(r) == [r EXCEPT !.off = @ \ {id}]
    <3>1. \A r \in recoveries :
            /\ Less(r).saving = r.saving /\ Less(r).write = r.write
            /\ Less(r).alone = r.alone /\ Less(r).off = r.off \ {id}
            /\ r.off \subseteq AllPlugins
      <4>1. \A r \in recoveries :
              /\ Less(r).saving = r.saving /\ Less(r).write = r.write
              /\ Less(r).alone = r.alone /\ Less(r).off = r.off \ {id}
        BY RecoveryForgotten, ZenonT(30)
      <4>2. \A r \in recoveries : r.off \subseteq AllPlugins
        BY Zenon DEF RunTypes, Recoveries
      <4> QED
        BY <4>1, <4>2, Zenon
    <3>2. recoveries' = {Less(r) : r \in recoveries}
      BY <2>4, Zenon
    <3> HIDE DEF Less
    <3>3. ASSUME NEW p \in AllPlugins, p # id, StaysOff(p)
          PROVE  StaysOff(p)'
      BY <2>1, <2>2, <3>1, <3>2, <3>3 DEF StaysOff
    <3> QED
      <4>1. kept' \subseteq AllPlugins /\ \A p \in kept' : StaysOff(p)'
        BY <2>4, <3>3, Zenon DEF OffInvariant
      <4>2. \A n \in recoveries' : n.saving # "none" => n.write.enabled[n.saving] = "off"
        <5>1. \A r \in recoveries :
                Less(r).saving # "none" => Less(r).write.enabled[Less(r).saving] = "off"
          BY <3>1, Zenon DEF OffInvariant
        <5> QED
          BY <3>2, <5>1, Zenon
      <4>3. \A n \in recoveries' : n.alone => \A p \in n.off : StaysOff(p)'
        <5> SUFFICES ASSUME NEW r \in recoveries, Less(r).alone, NEW p \in Less(r).off
                     PROVE  StaysOff(p)'
          BY <3>2, Zenon
        <5>1. p # id /\ p \in r.off /\ r.alone /\ p \in AllPlugins
          BY <3>1, Zenon
        <5> QED
          BY <3>3, <5>1, Zenon DEF OffInvariant
      <4>4. \A n, o \in recoveries' : n.alone /\ o # n => o.saving = "none"
        <5>1. \A r, o \in recoveries :
                Less(r).alone /\ Less(o) # Less(r) => Less(o).saving = "none"
          BY <3>1, Zenon DEF OffInvariant
        <5> QED
          BY <3>2, <5>1, ZenonT(30)
      <4> QED
        BY <4>1, <4>2, <4>3, <4>4, Zenon DEF OffInvariant
  <2> QED
    BY <2>1, <2>3, <2>4, Zenon
<1>6. ASSUME NEW r \in recoveries, DisablePlugin(r)
      PROVE  Goal
  <2>1. PICK p \in AllPlugins :
          /\ r.saving = "none"
          /\ recoveries' = Others(r) \cup
               {[r EXCEPT !.saving = p, !.write = DisabledState(p),
                          !.alone = @ /\ recoveries = {r}]}
          /\ UNCHANGED <<kept, pluginPrefs, pluginStore>>
    BY <1>6, Zenon DEF DisablePlugin, backendVars
  <2> DEFINE n == [r EXCEPT !.saving = p, !.write = DisabledState(p),
                            !.alone = @ /\ recoveries = {r}]
  <2>2. /\ n.saving = p /\ n.write = DisabledState(p) /\ n.off = r.off
        /\ n.alone => r.alone /\ recoveries = {r}
        /\ r.off \subseteq AllPlugins
    BY Zenon DEF RunTypes, Recoveries
  <2>3. /\ DisabledState(p).enabled[p] = "off"
        /\ \A q \in AllPlugins : pluginStore.enabled[q] = "off" =>
                                   DisabledState(p).enabled[q] = "off"
    BY Zenon DEF DisabledState, FormTypes, PrefStates
  <2>4. recoveries' = Others(r) \cup {n}
    BY <2>1, Zenon
  <2> HIDE DEF n
  <2>5. \A o \in Others(r) :
          /\ ~o.alone /\ recoveries # {r}
          /\ \E q \in recoveries : o.saving = q.saving /\ o.write = q.write
    <3>1. \A q \in recoveries : /\ [q EXCEPT !.alone = FALSE].saving = q.saving
                                /\ [q EXCEPT !.alone = FALSE].write = q.write
                                /\ ~[q EXCEPT !.alone = FALSE].alone
      BY NotAlone, Zenon
    <3> QED
      BY <3>1, Zenon DEF Others
  <2>6. ASSUME NEW q \in AllPlugins, StaysOff(q)
        PROVE  StaysOff(q)'
    <3>1. pluginPrefs'.enabled[q] = "off" /\ pluginStore'.enabled[q] = "off"
      BY <2>1, <2>6, Zenon DEF StaysOff
    <3>2. \A o \in Others(r) : o.saving # "none" => o.write.enabled[q] = "off"
      BY <2>5, <2>6, Zenon DEF StaysOff
    <3>3. n.write.enabled[q] = "off"
      BY <2>2, <2>3, <2>6, Zenon DEF StaysOff
    <3> QED
      BY <2>4, <3>1, <3>2, <3>3, Zenon DEF StaysOff
  <2>7. kept' \subseteq AllPlugins /\ \A q \in kept' : StaysOff(q)'
    BY <2>1, <2>6, Zenon DEF OffInvariant
  <2>8. \A o \in recoveries' : o.saving # "none" => o.write.enabled[o.saving] = "off"
    <3>1. \A o \in Others(r) : o.saving # "none" => o.write.enabled[o.saving] = "off"
      BY <2>5, ZenonT(30) DEF OffInvariant
    <3>2. n.write.enabled[n.saving] = "off"
      BY <2>2, <2>3, Zenon
    <3> QED
      BY <2>4, <3>1, <3>2, Zenon
  <2>9. \A o \in recoveries' : o.alone => o = n /\ r.alone /\ recoveries = {r}
    BY <2>2, <2>4, <2>5, Zenon
  <2>10. \A o \in recoveries' : o.alone => \A q \in o.off : StaysOff(q)'
    BY <2>2, <2>6, <2>9, Zenon DEF OffInvariant
  <2>11. \A o, m \in recoveries' : o.alone /\ m # o => m.saving = "none"
    BY <2>4, <2>5, <2>9, Zenon
  <2> QED
    BY <2>7, <2>8, <2>10, <2>11, Zenon DEF OffInvariant
<1>7. ASSUME NEW r \in recoveries, DisableSaved(r) \/ DisableFails(r)
      PROVE  Goal
  <2>1. CASE DisableSaved(r)
    BY <2>1, OffDisabled, Zenon DEF DisableSaved
  <2>2. CASE DisableFails(r)
    BY <2>2, OffDisabled, Zenon DEF DisableFails
  <2> QED
    BY <1>7, <2>1, <2>2, Zenon
<1> HIDE DEF Goal
<1>8. Goal
  BY <1>1, <1>2, <1>3, <1>4, <1>5, <1>6, <1>7, Zenon DEF PluginNext, Settings
<1> QED
  BY <1>8, Zenon DEF Goal

\* The invariants hold at the start of the program.
LEMMA PluginsInitially == PluginInit => RunTypes /\ FormTypes /\ RunInvariant /\ OffInvariant
<1> SUFFICES ASSUME PluginInit
             PROVE  RunTypes /\ FormTypes /\ RunInvariant /\ OffInvariant
  BY Zenon
<1>1. RunTypes /\ RunInvariant
  <2>1. /\ activePlugins = {} /\ setups = {} /\ recoveries = {}
        /\ contributed = [p \in AllPlugins |-> {}]
        /\ snapshot = [k \in Kinds |-> [current |-> FALSE, from |-> {}]]
    BY Zenon DEF PluginInit
  <2>2. RunTypes
    BY <2>1, ZenonT(30) DEF RunTypes
  <2>3. \A k \in Kinds : ~snapshot[k].current
    BY <2>1, Zenon
  <2>4. \A p \in AllPlugins : contributed[p] = {}
    BY <2>1, Zenon
  <2> QED
    BY <2>1, <2>2, <2>3, <2>4, ZenonT(30) DEF RunInvariant
<1>2. FormTypes
  <2>1. pluginPrefs \in PrefStates /\ pluginStore \in PrefStates
    BY Zenon DEF PluginInit, PrefStates, Switched
  <2>2. installed \subseteq Ids /\ pluginSteps \in Nat /\ formCalls \subseteq Calls
    BY ZenonT(30) DEF PluginInit, Ids
  <2>3. pluginForm \in [listed : SUBSET Ids, on : SUBSET Ids, community : BOOLEAN,
                        loading : BOOLEAN, doomed : Ids]
    BY ZenonT(30) DEF PluginInit, Ids
  <2> QED
    BY <2>1, <2>2, <2>3, Zenon DEF FormTypes
<1>3. OffInvariant
  BY ZenonT(30) DEF PluginInit, OffInvariant
<1> QED
  BY <1>1, <1>2, <1>3, Zenon

\* They hold in every state.
THEOREM PluginInvariance ==
    PluginSpec => [](RunTypes /\ FormTypes /\ RunInvariant /\ OffInvariant)
<1> DEFINE Inv == RunTypes /\ FormTypes /\ RunInvariant /\ OffInvariant
<1>1. Inv /\ [PluginNext]_pluginVars => Inv'
  BY RunStep, FormTypesStep, OffStep, Zenon
<1> QED
  BY <1>1, PluginsInitially, PTL DEF PluginSpec

\* registry.ts and editorExtensionRegistry.ts: whatever set-ups throw and
\* however recoveries overlap, an editor that asks for contributions, answered
\* from the cache or not, is given those of running plugins only.
THEOREM OnlyRunningPluginsContribute == PluginSpec => []OnlyRunningContribute
<1>1. RunTypes /\ RunInvariant => OnlyRunningContribute
  <2> SUFFICES ASSUME RunTypes, RunInvariant, NEW k \in Kinds, NEW p \in GetAll(k)
               PROVE  p \in activePlugins \cup {s.id : s \in setups}
                              \cup {r.saving : r \in recoveries}
    BY ZenonT(30) DEF OnlyRunningContribute
  <2>1. p \in RegisteredPlugins(k)
    BY ZenonT(30) DEF GetAll, RunInvariant
  <2>2. p \in activePlugins \cup SettingUp \cup Disabling
    BY <2>1, Zenon DEF RegisteredPlugins, RunInvariant
  <2> QED
    BY <2>2, Zenon DEF SettingUp, Disabling
<1> QED
  BY <1>1, PluginInvariance, PTL

\* disableExternalPluginsForEditorRecovery: what a recovery that ran alone
\* turned off, the next start does not load, unless the user switched it,
\* however many crashes, saves and restarts there are.
THEOREM RecoveredPluginsStayOff == PluginSpec => []RecoveredStayOff
<1>1. OffInvariant => RecoveredStayOff
  BY Zenon DEF OffInvariant, StaysOff, RecoveredStayOff
<1> QED
  BY <1>1, PluginInvariance, PTL

=============================================================================
