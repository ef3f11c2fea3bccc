------------------------------ MODULE Keyboard ------------------------------
(***************************************************************************)
(* Which part of the window a key press reaches: the hotkey registry, the  *)
(* counter of open dialogs, the Escape stack, the Escape handlers of the   *)
(* panes, the leader key and the handlers the command palette calls        *)
(* (frontend/src/hotkeys, app/global-hotkeys.tsx, useLeaderKeys.ts,        *)
(* shared/stores/{dialog,escapeRegistry,documentCommand}.store.ts).        *)
(*                                                                         *)
(* One action is one keydown event, run through the listeners in the order *)
(* in which the browser calls them.  Keys are named for what they are      *)
(* bound to; targets are the classes hotkeyMatcher tells apart.            *)
(***************************************************************************)
EXTENDS Integers, FiniteSets, Sequences, Functions, Filters

CONSTANTS
    PaneOrder,      \* the panes of the document page, in the order they mount
    CanvasPanes     \* those that show a canvas

ASSUME KeyboardAssumption ==
    /\ PaneOrder \in Seq(Nat \ {0}) /\ PaneOrder # <<>>
    /\ \A i, j \in DOMAIN PaneOrder : PaneOrder[i] = PaneOrder[j] => i = j

VARIABLES
    kpage,          \* "document", "dashboard" or "other"
    mounted,        \* panes on screen, in the order their hotkeys registered
    active,         \* activePaneId
    focused,        \* the active pane's editor has the keyboard focus
    overlays,       \* open palette, project switcher and document finder
    confirming,     \* the page's ConfirmDialog is open
    dialogCount,    \* dialog.store's openCount
    help,           \* the help modal: "closed", "empty" or "typed" (search text)
    escStack,       \* escapeRegistry's stack
    armed,          \* the leader key has been pressed
    taps,           \* useCanvasEscapeSequence's countRef
    finding,        \* panes whose find bar is open
    commandPane,    \* owner of the save/find/replace/restore handlers, 0 = none
    fired           \* what the last key press did, in order

keyVars == <<kpage, mounted, active, focused, overlays, confirming, dialogCount, help,
             escStack, armed, taps, finding, commandPane, fired>>

KeyPanes == Range(PaneOrder)
Overlays == {"palette", "switcher", "finder"}
Keys == {"Escape", "save", "find", "palette", "switcher", "finder", "g", "s", "plain", "help"}
KeyTargets == {"text", "button", "body", "canvas"}
WithModifier == {"save", "find", "palette", "switcher", "finder"}
SpecialKeys == {"help"}

KeyInit ==
    /\ kpage = "dashboard" /\ mounted = <<>> /\ active = 0 /\ focused = FALSE
    /\ overlays = {} /\ confirming = FALSE /\ dialogCount = 0
    /\ help = "closed" /\ escStack = <<>>
    /\ armed = FALSE /\ taps = 0 /\ finding = {} /\ commandPane = 0 /\ fired = <<>>

---------------------------------------------------------------------------
\* dialog.store.

OpenDialog(n) == n + 1
CloseDialog(n) == IF n > 0 THEN n - 1 ELSE 0
DialogOpen == dialogCount > 0

---------------------------------------------------------------------------
\* The registry.  A hotkey is [key, allow, capture, pane]; a pane's handlers
\* decline (return false) unless their pane is the active one.

Hotkey(key, allow, capture, pane) ==
    [key |-> key, allow |-> allow, capture |-> capture, pane |-> pane]

GlobalHotkeys ==
    << Hotkey("help", FALSE, TRUE, 0), Hotkey("palette", TRUE, TRUE, 0),
       Hotkey("switcher", TRUE, TRUE, 0), Hotkey("finder", TRUE, TRUE, 0) >>

\* The pages' list keys (j, k, Enter...), bubbling and not for inputs.
PageHotkeys == IF kpage = "document" THEN <<>> ELSE << Hotkey("plain", FALSE, FALSE, 0) >>

\* Every pane registers Save; a canvas leaves every other chord to Excalidraw.
DocumentHotkeys ==
    LET texts == KeptAt(mounted, {i \in DOMAIN mounted : mounted[i] \notin CanvasPanes})
    IN  [i \in DOMAIN mounted |-> Hotkey("save", TRUE, TRUE, mounted[i])]
            \o [i \in DOMAIN texts |-> Hotkey("find", TRUE, TRUE, texts[i])]

\* The order matters among the hotkeys of one key only.
Registered == GlobalHotkeys \o PageHotkeys \o DocumentHotkeys

\* isHotkeyEligibleForTarget
EligibleForTarget(h, target) ==
    \/ h.allow
    \/ /\ target # "text"
       /\ target = "button" => (h.key \in WithModifier \/ h.key = "Escape")

WillingAlways(h) == TRUE

Willing(h) == h.pane = 0 \/ h.pane = active

\* Special characters are taken out of both maps, and their own listener skips
\* the ones registered for the capture phase.
InPhase(h, capture) == h.key \notin SpecialKeys /\ h.capture = capture
SpecialHandled(h) == h.key \in SpecialKeys /\ ~h.capture

\* The first matching, eligible and willing handler takes the key.
Takers(key, target, capture) ==
    LET all == Registered
        able == {i \in DOMAIN all : /\ all[i].key = key
                                    /\ \/ InPhase(all[i], capture)
                                       \/ ~capture /\ SpecialHandled(all[i])
                                    /\ EligibleForTarget(all[i], target)
                                    /\ Willing(all[i])}
    IN  IF DialogOpen THEN <<>> ELSE KeptAt(all, {i \in able : \A j \in able : i <= j})

---------------------------------------------------------------------------
\* Mounting and unmounting.  In one commit React runs every cleanup before any
\* new effect, so the handlers of the pane that becomes active win.

RegisterCommands(pane) == commandPane' = pane

\* Going to another page by a click, the mouse's back button or a command: the
\* page's ConfirmDialog unmounts without closing, and one that mounts closed
\* calls closeDialog.
ShowKeyPage(to) ==
    /\ kpage' = to
    /\ confirming' = FALSE
    /\ mounted' = IF to = "document" THEN PaneOrder ELSE <<>>
    /\ active' = IF to = "document" THEN PaneOrder[1] ELSE 0
    /\ RegisterCommands(active')
    /\ focused' = (to = "document")
    /\ finding' = {}
    /\ dialogCount' = IF to = "dashboard" THEN CloseDialog(dialogCount) ELSE dialogCount

GoToPage(to) ==
    /\ to # kpage
    /\ ShowKeyPage(to)
    /\ armed' = FALSE /\ taps' = 0 /\ fired' = <<>>
    /\ UNCHANGED <<overlays, help, escStack>>

MountedBut(p) == KeptAt(mounted, {i \in DOMAIN mounted : mounted[i] # p})

\* A click in a pane, which the canvas sequence takes as something else.
ClickPane(p) ==
    /\ kpage = "document" /\ overlays = {} /\ help = "closed"
    /\ p \in Range(mounted)
    /\ active' = p /\ focused' = TRUE
    /\ RegisterCommands(p)
    /\ taps' = 0 /\ fired' = <<>>
    /\ UNCHANGED <<kpage, mounted, overlays, confirming, dialogCount, help, escStack, armed,
                   finding>>

\* A pane's hotkey configuration changes (a document is archived or loaded):
\* useHotkeys unregisters and registers again, at the end of the map.
ReRegister(p) ==
    /\ p \in Range(mounted)
    /\ mounted' = Append(MountedBut(p), p)
    /\ fired' = <<>>
    /\ UNCHANGED <<kpage, active, focused, overlays, confirming, dialogCount, help, escStack,
                   armed, taps, commandPane, finding>>

\* A pane is closed; when it was the active one another takes over.
UnmountPane(p) ==
    /\ Len(mounted) > 1
    /\ p \in Range(mounted)
    /\ mounted' = MountedBut(p)
    /\ active' = IF active = p THEN mounted'[1] ELSE active
    /\ RegisterCommands(active')
    /\ finding' = finding \ {p}
    /\ taps' = 0 /\ fired' = <<>>
    /\ UNCHANGED <<kpage, focused, overlays, confirming, dialogCount, help, escStack, armed>>

---------------------------------------------------------------------------
\* Overlays and dialogs.

OpenOverlay(o) ==
    /\ overlays' = overlays \cup {o}
    /\ dialogCount' = IF o = "finder" /\ o \in overlays THEN dialogCount
                      ELSE OpenDialog(dialogCount)

CloseOverlay(o) ==
    /\ o \in overlays
    /\ overlays' = overlays \ {o}
    /\ dialogCount' = CloseDialog(dialogCount)
    /\ fired' = <<>>
    /\ UNCHANGED <<kpage, mounted, active, focused, confirming, help, escStack, armed, taps,
                   commandPane, finding>>

\* The palette's "show help" closes the palette; the modal is not counted as a
\* dialog, and registers an Escape handler that runs while dialogs are open.
ShowHelp ==
    /\ "palette" \in overlays /\ help = "closed"
    /\ overlays' = overlays \ {"palette"}
    /\ dialogCount' = CloseDialog(dialogCount)
    /\ help' = "empty" /\ escStack' = Append(escStack, "help")
    /\ focused' = FALSE /\ fired' = <<>>
    /\ UNCHANGED <<kpage, mounted, active, confirming, armed, taps, commandPane, finding>>

TypeInHelp ==
    /\ help = "empty"
    /\ help' = "typed" /\ taps' = 0 /\ fired' = <<>> /\ armed' = FALSE
    /\ UNCHANGED <<kpage, mounted, active, focused, overlays, confirming, dialogCount,
                   escStack, commandPane, finding>>

CloseHelp ==
    /\ help # "closed"
    /\ help' = "closed"
    /\ escStack' = SelectSeq(escStack, LAMBDA e : e # "help")
    /\ fired' = <<>>
    /\ UNCHANGED <<kpage, mounted, active, focused, overlays, confirming, dialogCount, armed,
                   taps, commandPane, finding>>

\* The dashboard asks before it deletes; the answer closes the dialog.
Confirm ==
    /\ kpage = "dashboard" /\ ~confirming /\ overlays = {}
    /\ confirming' = TRUE /\ dialogCount' = OpenDialog(dialogCount) /\ fired' = <<>>
    /\ UNCHANGED <<kpage, mounted, active, focused, overlays, help, escStack, armed, taps,
                   commandPane, finding>>

ConfirmAnswered ==
    /\ confirming
    /\ confirming' = FALSE /\ dialogCount' = CloseDialog(dialogCount) /\ fired' = <<>>
    /\ UNCHANGED <<kpage, mounted, active, focused, overlays, help, escStack, armed, taps,
                   commandPane, finding>>

---------------------------------------------------------------------------
\* One keydown event.

\* What has the focus when the key is pressed.
PossibleTargets ==
    IF overlays # {} \/ help # "closed" THEN {"text", "button"}
    ELSE IF confirming THEN {"button", "body"}
    ELSE IF kpage = "document" /\ focused
         THEN {IF active \in CanvasPanes THEN "canvas" ELSE "text"}
    ELSE {"text", "button", "body"}

\* Something done for no pane in particular.
Did(what) == << <<what, 0>> >>

\* dispatchEscape: only the topmost handler runs; help clears its search text
\* and otherwise declines.
DispatchEscape == escStack # <<>> /\ escStack[Len(escStack)] = "help" /\ help = "typed"

\* useCanvasEscapeSequence: any other key starts the sequence again.
CountTap(key) == IF key = "Escape" THEN taps + 1 ELSE 0

\* useEscapeHandler of the active pane, which no counted dialog may cover.
PaneTakesEscape == kpage = "document" /\ ~DialogOpen
OnCanvas == active \in CanvasPanes

\* Escape in a text pane blurs the editor, then leaves the page; in a canvas the
\* second tap blurs it and the third leaves.
Leaves == PaneTakesEscape /\ (IF OnCanvas THEN taps = 2 ELSE ~focused)
Blurs == PaneTakesEscape /\ (IF OnCanvas THEN taps = 1 ELSE focused)
\* Only a canvas yields an Escape, its first, to the listeners behind it.
YieldsEscape == ~PaneTakesEscape \/ (OnCanvas /\ taps = 0)

\* The find bar's own Escape hotkey is behind the pane's listener, which was
\* added first; it returns the focus to the editor, whose pane becomes active.
ClosesFind == YieldsEscape /\ ~DialogOpen /\ finding # {}

\* The GlobalEscapeListener stops propagation, which does not stop the other
\* listeners of the window; the modal's own Escape is behind all of them.
Escape ==
    LET closes == help # "closed" /\ ~DispatchEscape /\ YieldsEscape /\ ~ClosesFind
    IN  /\ fired' = (IF DispatchEscape THEN Did("clearHelp") ELSE <<>>)
                    \o (IF Leaves THEN Did("leave") ELSE IF Blurs THEN Did("blur") ELSE <<>>)
                    \o (IF ClosesFind THEN Did("closeFind") ELSE <<>>)
                    \o (IF closes THEN Did("closeHelp") ELSE <<>>)
        /\ help' = IF closes THEN "closed" ELSE IF DispatchEscape THEN "empty" ELSE help
        /\ escStack' = IF closes THEN SelectSeq(escStack, LAMBDA e : e # "help") ELSE escStack
        /\ \/ Leaves /\ ShowKeyPage("dashboard")
           \/ /\ ClosesFind
              /\ \E p \in finding : /\ finding' = finding \ {p} /\ active' = p
                                    /\ RegisterCommands(p)
              /\ focused' = TRUE
              /\ UNCHANGED <<kpage, mounted, confirming, dialogCount>>
           \/ /\ ~Leaves /\ ~ClosesFind
              /\ focused' = (focused /\ ~Blurs)
              /\ UNCHANGED <<kpage, mounted, active, confirming, dialogCount, commandPane, finding>>
        /\ taps' = IF Leaves \/ ~OnCanvas \/ ~PaneTakesEscape THEN 0 ELSE CountTap("Escape")
        /\ armed' = FALSE
        /\ UNCHANGED overlays

\* useLeaderKeys: a second key that names a page goes there, whatever dialog
\* is open, and no other listener sees it.
LeaderResolves(key, target) == armed /\ target # "text" /\ key = "s"

OtherKey(key, target) ==
    /\ key # "Escape"
    /\ taps' = CountTap(key)
    /\ armed' = (~armed /\ key = "g" /\ target # "text")
    /\ UNCHANGED <<help, escStack>>
    /\ IF LeaderResolves(key, target)
       THEN /\ ShowKeyPage("other")
            /\ fired' = Did("go")
            /\ UNCHANGED overlays
       ELSE LET takers == Takers(key, target, TRUE) \o Takers(key, target, FALSE)
            IN  /\ fired' = [i \in DOMAIN takers |-> <<takers[i].key, takers[i].pane>>]
                /\ IF \E i \in DOMAIN takers : takers[i].key \in Overlays
                   THEN OpenOverlay(key)
                   ELSE UNCHANGED <<overlays, dialogCount>>
                /\ IF \E i \in DOMAIN takers : takers[i].key = "find"
                   THEN finding' = finding \cup {active} /\ focused' = FALSE
                   ELSE UNCHANGED <<finding, focused>>
                /\ UNCHANGED <<kpage, mounted, active, confirming, commandPane>>

KeyDown(key) ==
    IF key = "Escape" THEN Escape ELSE \E target \in PossibleTargets : OtherKey(key, target)

\* The palette's Save command, whose handler belongs to one pane.
RequestSave ==
    /\ commandPane # 0 /\ "palette" \in overlays
    /\ overlays' = overlays \ {"palette"} /\ dialogCount' = CloseDialog(dialogCount)
    /\ fired' = <<<<"save", commandPane>>>>
    /\ UNCHANGED <<kpage, mounted, active, focused, confirming, help, escStack, armed, taps,
                   commandPane, finding>>

\* RESET_MS and SEQUENCE_TIMEOUT_MS pass.
KeyTimeout ==
    /\ taps > 0 \/ armed
    /\ taps' = 0 /\ armed' = FALSE /\ fired' = <<>>
    /\ UNCHANGED <<kpage, mounted, active, focused, overlays, confirming, dialogCount, help,
                   escStack, commandPane, finding>>

KeyNext ==
    \/ \E to \in {"document", "dashboard", "other"} : GoToPage(to)
    \/ \E p \in KeyPanes : ClickPane(p) \/ ReRegister(p) \/ UnmountPane(p)
    \/ \E o \in Overlays : CloseOverlay(o)
    \/ ShowHelp \/ TypeInHelp \/ CloseHelp
    \/ Confirm \/ ConfirmAnswered
    \/ \E key \in Keys : KeyDown(key)
    \/ RequestSave
    \/ KeyTimeout

KeySpec == KeyInit /\ [][KeyNext]_keyVars

---------------------------------------------------------------------------
\* Whichever order the panes registered their hotkeys in, and however they were
\* closed, clicked and registered again, the save key and the palette's Save act
\* once, on the active pane's document (useDocumentHotkeysConfig,
\* documentCommand.store).
SaveReachesActivePane ==
    /\ kpage = "document" => active \in Range(mounted) /\ commandPane = active
    /\ \A i \in DOMAIN fired : (fired[i] \in {<<"save", p>> : p \in KeyPanes})
                                  => fired = <<<<"save", active>>>>
=============================================================================
