------------------------------ MODULE Guidance ------------------------------
(***************************************************************************)
(* What the app teaches and announces: the milestone hints and the counts  *)
(* they depend on (shared/stores/progress.store.ts, onboarding/hooks/      *)
(* useMilestoneHints.ts, onboarding/components/), the welcome overlay      *)
(* (shared/stores/onboarding.store.ts), the tooltips that fade (shared/    *)
(* stores/tooltipUsage.store.ts, shared/ui/Tooltip.tsx) and the update     *)
(* prompt (shared/hooks/useUpdateCheck.ts).                                *)
(*                                                                         *)
(* The main window and the quick-capture window each hold a copy of the    *)
(* progress and write the whole of it to localStorage; the other one reads *)
(* it again when the browser tells it.                                     *)
(*                                                                         *)
(*   progress   per window: documents, entries, switches, hints dismissed  *)
(*   progressKept  the progress in localStorage (NotKept: none)            *)
(*   told       the windows that have an event of it to come               *)
(*   hint       the one MilestoneHint component: mounted?, the hint it     *)
(*              shows, visible?, dismissed?, and the hint whose closing    *)
(*              animation runs                                             *)
(*   seen       hints that were on screen (history)                        *)
(*   welcome    done (store and localStorage agree), timer, shown          *)
(*   tip        a tooltip: times seen, day last seen, whether this mount   *)
(*              counted, its timer, open?                                  *)
(*   update     the version found, the one dismissed, the one localStorage *)
(*              keeps as dismissed, the check and its attempt              *)
(***************************************************************************)
EXTENDS Integers, Sequences, FiniteSets

CONSTANTS ManyDocs, ManyEntries,   \* 5 and 10 in useMilestoneHints.ts
          FadeThreshold,           \* 5 in tooltipUsage.store.ts
          MaxCheckRetries,         \* 3 in useUpdateCheck.ts
          MaxGuideSteps

VARIABLES progress, progressKept, told, hint, seen, welcome, welcomeDialogs, tip, day, update,
          guideSteps

guideVars == <<progress, progressKept, told, hint, seen, welcome, welcomeDialogs, tip, day, update,
               guideSteps>>
hintVars == <<progress, progressKept, told, hint, seen>>
otherVars == <<welcome, welcomeDialogs, tip, day, update>>

GuideStep == guideSteps < MaxGuideSteps /\ guideSteps' = guideSteps + 1

Windows == {"main", "capture"}

----------------------------------------------------------------------------
(* Progress.                                                               *)

DefaultProgress == [docs |-> 0, entries |-> 0, switches |-> 0, hints |-> {}]

NotKept == [DefaultProgress EXCEPT !.docs = -1]

\* setItem: the defaults are kept as nothing.
StoredProgress(p) == IF p = DefaultProgress THEN NotKept ELSE p

HintOrder == <<"first-save", "recent-docs", "journal-nav", "journal-select", "quick-switch">>

ShouldShow(h, p) == CASE h = "first-save" -> p.docs = 1
                      [] h = "recent-docs" -> p.docs >= ManyDocs
                      [] h = "journal-nav" -> p.entries = 1
                      [] h = "journal-select" -> p.entries >= ManyEntries
                      [] h = "quick-switch" -> p.switches = 1

\* The first in order that is due and was not dismissed.
CurrentHint(p) ==
    LET due == {i \in DOMAIN HintOrder : /\ HintOrder[i] \notin p.hints
                                         /\ ShouldShow(HintOrder[i], p)}
    IN  IF due = {} THEN "none" ELSE HintOrder[CHOOSE i \in due : \A j \in due : i <= j]

Unmounted == [mounted |-> FALSE, id |-> "none", visible |-> FALSE, dismissed |-> FALSE,
              closing |-> "none"]

\* MilestoneHintManager: one component, without a key, for whichever hint is
\* current; it goes away, with its timers, when none is.
Followed(h, p) ==
    CASE CurrentHint(p) = "none" -> Unmounted
      [] CurrentHint(p) # "none" /\ h.mounted -> [h EXCEPT !.id = CurrentHint(p)]
      [] OTHER -> [Unmounted EXCEPT !.mounted = TRUE, !.id = CurrentHint(p), !.visible = TRUE]

Shows(h, p) ==
    /\ hint' = Followed(h, p)
    /\ seen' = IF hint'.visible /\ ~hint'.dismissed THEN seen \cup {hint'.id} ELSE seen

\* A window sets its copy: all of it is written, and the other is told.
SetProgress(w, p, h) ==
    /\ progress' = [progress EXCEPT ![w] = p]
    /\ progressKept' = StoredProgress(p)
    /\ told' = IF progressKept' = progressKept THEN told ELSE told \cup (Windows \ {w})
    /\ IF w = "main" THEN Shows(h, p) ELSE UNCHANGED <<hint, seen>>

Counted(w, p) == GuideStep /\ SetProgress(w, p, hint) /\ UNCHANGED otherVars

DocumentCreated == Counted("main", [progress["main"] EXCEPT !.docs = @ + 1])

ProjectSwitched == Counted("main", [progress["main"] EXCEPT !.switches = @ + 1])

EntryCaptured == Counted("capture", [progress["capture"] EXCEPT !.entries = @ + 1])

ResetProgress == Counted("main", DefaultProgress)

\* rehydrate: with nothing stored the copy stays as it is.
Rehydrate(w) ==
    /\ w \in told /\ told' = told \ {w}
    /\ LET p == IF progressKept = NotKept THEN progress[w] ELSE progressKept
       IN  /\ progress' = [progress EXCEPT ![w] = p]
           /\ IF w = "main" THEN Shows(hint, p) ELSE UNCHANGED <<hint, seen>>
    /\ UNCHANGED <<progressKept, guideSteps>> /\ UNCHANGED otherVars

\* handleDismiss, by the button or after eight seconds; once per mount.
DismissHint ==
    /\ hint.mounted /\ hint.visible /\ ~hint.dismissed
    /\ hint' = [hint EXCEPT !.dismissed = TRUE, !.closing = hint.id]
    /\ UNCHANGED <<progress, progressKept, told, seen, guideSteps>> /\ UNCHANGED otherVars

\* Mutant: the hint that is current when the animation ends.
MarksCurrent(h) == h.id

\* The closure of the render the dismissal came from.
Marks(h) == h.closing

HintClosed ==
    /\ hint.closing # "none"
    /\ LET p == progress["main"]
       IN  SetProgress("main", [p EXCEPT !.hints = @ \cup {Marks(hint)}],
                       [hint EXCEPT !.visible = FALSE, !.closing = "none"])
    /\ UNCHANGED guideSteps /\ UNCHANGED otherVars

----------------------------------------------------------------------------
(* The welcome overlay.                                                    *)

WelcomeDue ==
    /\ welcome.timer
    /\ welcome' = [welcome EXCEPT !.timer = FALSE, !.shown = TRUE]
    /\ welcomeDialogs' = welcomeDialogs + 1
    /\ UNCHANGED <<tip, day, update, guideSteps>> /\ UNCHANGED hintVars

DismissWelcome ==
    /\ welcome.shown
    /\ welcome' = [done |-> TRUE, timer |-> FALSE, shown |-> FALSE]
    /\ welcomeDialogs' = IF welcomeDialogs > 0 THEN welcomeDialogs - 1 ELSE 0
    /\ UNCHANGED <<tip, day, update, guideSteps>> /\ UNCHANGED hintVars

\* From the settings; the overlay's own effect starts its timer again.
ResetOnboarding ==
    /\ GuideStep /\ ~welcome.shown
    /\ welcome' = [welcome EXCEPT !.done = FALSE, !.timer = @ \/ welcome.done]
    /\ UNCHANGED <<welcomeDialogs, tip, day, update>> /\ UNCHANGED hintVars

----------------------------------------------------------------------------
(* A tooltip.                                                              *)

ShouldShowTooltip(t) == t.count < FadeThreshold \/ day - t.last > 30

HandleOpenChange(open) ==
    IF ~ShouldShowTooltip(tip) THEN [tip EXCEPT !.open = FALSE, !.timer = FALSE]
    ELSE IF open /\ ~tip.counted
         THEN [tip EXCEPT !.open = TRUE, !.timer = FALSE, !.counted = TRUE,
                          !.count = @ + 1, !.last = day]
         ELSE [tip EXCEPT !.open = open, !.timer = FALSE]

OnlyTip(t) ==
    /\ tip' = t
    /\ UNCHANGED <<welcome, welcomeDialogs, update>> /\ UNCHANGED hintVars

PointAt == GuideStep /\ ShouldShowTooltip(tip) /\ ~tip.timer
           /\ OnlyTip([tip EXCEPT !.timer = TRUE]) /\ UNCHANGED day

TipDue == tip.timer /\ OnlyTip(HandleOpenChange(TRUE)) /\ UNCHANGED <<day, guideSteps>>

PointAway == (tip.timer \/ tip.open) /\ OnlyTip(HandleOpenChange(FALSE))
             /\ UNCHANGED <<day, guideSteps>>

\* The component is mounted anew.
TipRemounted == GuideStep /\ tip.counted /\ UNCHANGED day
                /\ OnlyTip([tip EXCEPT !.counted = FALSE, !.timer = FALSE, !.open = FALSE])

DaysPass == GuideStep /\ day' = day + 31 /\ OnlyTip(tip)

----------------------------------------------------------------------------
(* The update check of the banner: at start, with retries.                 *)

CheckAnswered(v) ==
    /\ GuideStep /\ update.checking
    /\ update' = [update EXCEPT !.checking = FALSE, !.version = v]
    /\ UNCHANGED <<welcome, welcomeDialogs, tip, day>> /\ UNCHANGED hintVars

CheckFailed ==
    /\ update.checking
    /\ update' = IF update.attempt < MaxCheckRetries
                 THEN [update EXCEPT !.attempt = @ + 1]
                 ELSE [update EXCEPT !.checking = FALSE, !.failed = TRUE]
    /\ UNCHANGED <<welcome, welcomeDialogs, tip, day, guideSteps>> /\ UNCHANGED hintVars

ShowPrompt == update.version > 0 /\ update.version # update.dismissed

\* The write to localStorage may fail: the dismissal then lasts until the
\* next start.
DismissUpdate(written) ==
    /\ GuideStep /\ ShowPrompt
    /\ update' = [update EXCEPT !.dismissed = update.version,
                                !.kept = IF written THEN update.version ELSE @]
    /\ UNCHANGED <<welcome, welcomeDialogs, tip, day>> /\ UNCHANGED hintVars

----------------------------------------------------------------------------
(* The app is started again: the stores read localStorage.                 *)

StartUpdate(v) == [version |-> 0, dismissed |-> v, kept |-> v, checking |-> TRUE,
                   attempt |-> 0, failed |-> FALSE]

StartAgain ==
    /\ GuideStep
    /\ LET p == IF progressKept = NotKept THEN DefaultProgress ELSE progressKept
       IN  progress' = [w \in Windows |-> p] /\ Shows(Unmounted, p)
    /\ told' = {} /\ UNCHANGED progressKept
    /\ welcome' = [welcome EXCEPT !.timer = ~welcome.done, !.shown = FALSE]
    /\ welcomeDialogs' = 0
    /\ tip' = [tip EXCEPT !.counted = FALSE, !.timer = FALSE, !.open = FALSE]
    /\ update' = StartUpdate(update.kept)
    /\ UNCHANGED day

GuideInit ==
    /\ progress = [w \in Windows |-> DefaultProgress] /\ progressKept = NotKept /\ told = {}
    /\ hint = Unmounted /\ seen = {}
    /\ welcome = [done |-> FALSE, timer |-> TRUE, shown |-> FALSE] /\ welcomeDialogs = 0
    /\ tip = [count |-> 0, last |-> 0, counted |-> FALSE, timer |-> FALSE, open |-> FALSE]
    /\ day = 0 /\ update = StartUpdate(0) /\ guideSteps = 0

GuideNext ==
    \/ DocumentCreated \/ ProjectSwitched \/ EntryCaptured \/ ResetProgress
    \/ \E w \in Windows : Rehydrate(w)
    \/ DismissHint \/ HintClosed
    \/ WelcomeDue \/ DismissWelcome \/ ResetOnboarding
    \/ PointAt \/ TipDue \/ PointAway \/ TipRemounted \/ DaysPass
    \/ (\E v \in 0..2 : CheckAnswered(v)) \/ CheckFailed
    \/ \E b \in BOOLEAN : DismissUpdate(b)
    \/ StartAgain

GuideSpec == GuideInit /\ [][GuideNext]_guideVars

----------------------------------------------------------------------------
(* Only hints that were on screen are recorded as shown, whichever window  *)
(* records: a milestone reached while another hint's closing animation     *)
(* runs (MilestoneHint.tsx handleDismiss) does not use up its own hint.    *)
MarkedWereSeen == \A w \in Windows : progress[w].hints \subseteq seen

=============================================================================
