----------------------------- MODULE PaneLayout -----------------------------
(***************************************************************************)
(* The split panes of the document page, the layout remembered for each    *)
(* document, and the application's page history that decides which layout  *)
(* is on screen (frontend/src/pane, app/useAppNavigation.ts,               *)
(* shared/stores/paneLayout.store.ts and navHistory.store.ts).             *)
(*                                                                         *)
(* A pane tree is a function from the places of its nodes to the nodes,    *)
(* leaves [id, doc] and splits [dir].  The place of a node is the sequence *)
(* of the sides (1 or 2) that lead to it from the root.  Sizes, scroll     *)
(* positions and the ids of splits are left out: no decision reads them.   *)
(* Pane 1 is the source's "pane-1"; other ids are fresh numbers.           *)
(***************************************************************************)
EXTENDS Integers, FiniteSets, Sequences

CONSTANTS
    Docs,            \* document paths
    MaxPanes,        \* LAYOUT.maxPanes
    PaneBudgets,     \* bound: how many edits (of panes, or that fail to save) and
                     \* how many page changes, restarts and reloads a behaviour has
    NoDoc            \* a null documentPath

ASSUME PaneBounds ==
    MaxPanes \in Nat \ {0} /\ PaneBudgets \subseteq Nat \X Nat /\ NoDoc \notin Docs

VARIABLES
    panes,           \* PaneLayoutContext's state: root, active, primary
    savedLayouts,    \* layoutMap of the store, kept in localStorage
    layoutTimer,     \* usePanePersistence has a save pending
    page,            \* currentPage and navigationState.documentPath
    lastOpened,      \* PaneLayoutView's lastOpenedPathRef, NoDoc when unmounted
    persistedNav,    \* localStorage's last page
    history,         \* the webview's history entries
    pos,             \* the entry on screen, counted from 0
    traversals,      \* back/forward calls whose popstate has not come yet
    navIndex, navMax,\* navHistory.store
    dirtyError,      \* saveError.store's hasDirtyError
    pendingNav,      \* useNavGuard's pendingNavRef, its dialog being open
    leftLayout,      \* what was on screen when each document was last left
    nextPane,        \* the next fresh pane id
    paneEdits, navs  \* what is left of the budget

storeVars == <<savedLayouts, layoutTimer, leftLayout>>
historyVars == <<history, pos, navIndex, navMax, persistedNav>>
paneVars == <<panes, savedLayouts, layoutTimer, page, lastOpened, history, pos,
              traversals, navIndex, navMax, dirtyError, pendingNav, leftLayout,
              persistedNav, nextPane, paneEdits, navs>>

Leaf(id, doc) == [type |-> "leaf", id |-> id, doc |-> doc]
IsLeaf(node) == node.type = "leaf"
OnlyPane(leaf) == [place \in {<<>>} |-> leaf]
NoLayout == [root |-> OnlyPane(Leaf(0, NoDoc)), active |-> 0]
Dashboard == [name |-> "dashboard", doc |-> NoDoc]
DocumentPage(d) == [name |-> "document", doc |-> d]

---------------------------------------------------------------------------
\* paneTreeQueries: the leaves, each with its index in left-to-right order.

LeafPlaces(root) == {p \in DOMAIN root : IsLeaf(root[p])}
CountLeaves(root) == Cardinality(LeafPlaces(root))
PaneIds(root) == {root[p].id : p \in LeafPlaces(root)}
PlaceOf(root, id) == CHOOSE p \in LeafPlaces(root) : root[p].id = id
FindPane(root, id) == root[PlaceOf(root, id)]

Upto(p, n) == SubSeq(p, 1, n)
Below(p, top) == Len(top) <= Len(p) /\ Upto(p, Len(top)) = top

LeftOf(p, q) == \E n \in DOMAIN p \cap DOMAIN q : Upto(p, n - 1) = Upto(q, n - 1) /\ p[n] < q[n]
LeafIndex(root, p) == Cardinality({q \in LeafPlaces(root) : LeftOf(q, p)})
FirstLeaf(root, places) ==
    root[CHOOSE p \in places : \A q \in places : LeafIndex(root, p) <= LeafIndex(root, q)]
LastLeaf(root, places) ==
    root[CHOOSE p \in places : \A q \in places : LeafIndex(root, q) <= LeafIndex(root, p)]

---------------------------------------------------------------------------
\* paneTreeMutations.

ReplaceNode(root, id, new) ==
    [p \in DOMAIN root |-> IF IsLeaf(root[p]) /\ root[p].id = id THEN new ELSE root[p]]

SplitPane(root, id, dir, fresh) ==
    IF CountLeaves(root) >= MaxPanes \/ id \notin PaneIds(root) THEN root
    ELSE LET at == PlaceOf(root, id)
         IN  [p \in DOMAIN root \cup {Append(at, 1), Append(at, 2)} |->
                 IF p = at THEN [type |-> "split", dir |-> dir]
                 ELSE IF p = Append(at, 1) THEN root[at]
                 ELSE IF p = Append(at, 2) THEN Leaf(fresh, NoDoc)
                 ELSE root[p]]

\* The sibling takes the place of the split above the leaf.
ClosePane(root, id) ==
    IF IsLeaf(root[<<>>]) \/ id \notin PaneIds(root) THEN root
    ELSE LET at == PlaceOf(root, id)
             up == Upto(at, Len(at) - 1)
             sibling == Append(up, 3 - at[Len(at)])
             kept == DOMAIN root \ {up, at}
             Lifted(p) == IF Below(p, sibling) THEN up \o SubSeq(p, Len(at) + 1, Len(p)) ELSE p
         IN  [p \in {Lifted(q) : q \in kept} |-> root[CHOOSE q \in kept : Lifted(q) = p]]

OpenDocumentInPane(root, id, doc) == ReplaceNode(root, id, Leaf(id, doc))

SwapPaneDocuments(root, a, b) ==
    IF {a, b} \subseteq PaneIds(root)
    THEN OpenDocumentInPane(OpenDocumentInPane(root, a, FindPane(root, b).doc),
                            b, FindPane(root, a).doc)
    ELSE root

\* paneNavigation: the first split on the path that has a side in the wanted
\* direction, and the leaf of that side nearest in leaf order.
GetPaneInDirection(root, id, dir, toward) ==
    LET at == PlaceOf(root, id)
        steps == {n \in DOMAIN at : root[Upto(at, n - 1)].dir = dir /\ at[n] # toward}
        first == CHOOSE n \in steps : \A m \in steps : n <= m
        beyond == {p \in LeafPlaces(root) : Below(p, Append(Upto(at, first - 1), toward))}
    IN  IF steps = {} THEN 0
        ELSE IF toward = 1 THEN LastLeaf(root, beyond).id ELSE FirstLeaf(root, beyond).id

\* paneLayoutValidation: a stored layout is used only when it is well formed.
ValidateLayout(layout) ==
    CountLeaves(layout.root) <= MaxPanes /\ layout.active \in PaneIds(layout.root)
DefaultLayout(primary) == [root |-> OnlyPane(Leaf(1, NoDoc)), active |-> 1, primary |-> primary]
RestoreLayout(entry, d) ==
    IF ValidateLayout(entry) THEN [root |-> entry.root, active |-> entry.active, primary |-> d]
    ELSE DefaultLayout(d)

---------------------------------------------------------------------------
\* The reducer of PaneLayoutContext, and usePanePersistence: every change of
\* the state restarts the debounce, which writes the state it was started with.

PaneInit ==
    /\ panes = DefaultLayout(NoDoc)
    /\ savedLayouts = [d \in Docs |-> NoLayout]
    /\ layoutTimer = FALSE
    /\ page = Dashboard
    /\ lastOpened = NoDoc
    /\ persistedNav = Dashboard
    /\ history = <<Dashboard>>
    /\ pos = 0
    /\ traversals = <<>>
    /\ navIndex = 0 /\ navMax = 0
    /\ dirtyError = FALSE
    /\ pendingNav = <<>>
    /\ leftLayout = [d \in Docs |-> NoLayout]
    /\ nextPane = 2
    /\ \E budget \in PaneBudgets : paneEdits = budget[1] /\ navs = budget[2]

Stored(layout) == [root |-> layout.root, active |-> layout.active]

SavePaneLayout(store, layout) ==
    IF layout.primary = NoDoc THEN store
    ELSE [store EXCEPT ![layout.primary] = Stored(layout)]

\* The layout on screen goes without its document being left by a navigation.
Forgotten == [d \in Docs |-> IF d = panes.primary THEN NoLayout ELSE leftLayout[d]]

\* A dispatched edit of the panes on screen.
Edited(new) ==
    /\ page.name = "document"
    /\ paneEdits > 0
    /\ paneEdits' = paneEdits - 1
    /\ panes' = new
    /\ layoutTimer' = (new.primary # NoDoc)
    /\ leftLayout' = IF new.primary = panes.primary THEN leftLayout ELSE Forgotten
    /\ UNCHANGED <<savedLayouts, page, lastOpened, historyVars, traversals, dirtyError,
                   pendingNav, navs>>

\* The cases of the reducer.  A split activates the new pane; when the active
\* pane is closed the first leaf becomes active.
ReduceSplit(layout, id, dir) ==
    [layout EXCEPT !.root = SplitPane(@, id, dir, nextPane), !.active = nextPane]

CloseKeepsActive(layout, id) == [layout EXCEPT !.root = ClosePane(@, id)]

ReduceClose(layout, id) ==
    LET root == ClosePane(layout.root, id)
    IN  [layout EXCEPT !.root = root,
                       !.active = IF @ \in PaneIds(root) THEN @
                                  ELSE FirstLeaf(root, LeafPlaces(root)).id]

ReduceOpen(layout, id, d) == [layout EXCEPT !.root = OpenDocumentInPane(@, id, d)]
ReduceSwap(layout, a, b) == [layout EXCEPT !.root = SwapPaneDocuments(@, a, b)]
ReduceSetActive(layout, id) ==
    [layout EXCEPT !.active = IF id \in PaneIds(layout.root) THEN id ELSE @]

\* The header's buttons and menu act on their own pane, the hotkeys on the
\* active one; both refuse at the limits.
CanSplit == CountLeaves(panes.root) < MaxPanes
CanClose == CountLeaves(panes.root) > 1

Split(id, dir) ==
    /\ CanSplit
    /\ Edited(ReduceSplit(panes, id, dir))
    /\ nextPane' = nextPane + 1

Close(id) ==
    /\ CanClose
    /\ Edited(ReduceClose(panes, id))
    /\ UNCHANGED nextPane

\* The picker of a pane opens a document in it, as does a document dropped on it.
OpenFromPicker(id, d) ==
    /\ Edited(ReduceSetActive(ReduceOpen(panes, id, d), id))
    /\ UNCHANGED nextPane

\* The header of a pane with a document, dropped on another pane.
DropPane(source, id) ==
    /\ source # id
    /\ FindPane(panes.root, source).doc # NoDoc
    /\ Edited(ReduceSetActive(ReduceSwap(panes, source, id), id))
    /\ UNCHANGED nextPane

\* The focus keys.
FocusDirection(dir, toward) ==
    /\ LET id == GetPaneInDirection(panes.root, panes.active, dir, toward)
       IN  id # 0 /\ Edited(ReduceSetActive(panes, id))
    /\ UNCHANGED nextPane

\* A click or focus event inside a pane.
FocusPane(id) ==
    /\ id # panes.active
    /\ Edited(ReduceSetActive(panes, id))
    /\ UNCHANGED nextPane

\* The palette's "reset layout": no primary document, so nothing is saved from
\* here on, and a pending save is cancelled.
ResetLayout ==
    /\ Edited(DefaultLayout(NoDoc))
    /\ UNCHANGED nextPane

SaveTimerFires ==
    /\ layoutTimer
    /\ layoutTimer' = FALSE
    /\ savedLayouts' = SavePaneLayout(savedLayouts, panes)
    /\ UNCHANGED <<panes, page, lastOpened, historyVars, traversals, dirtyError, pendingNav,
                   leftLayout, nextPane, paneEdits, navs>>

---------------------------------------------------------------------------
\* loadAndRestoreLayout, and the effect of PaneLayoutView when the page it is
\* mounted on is given another document.

LoadAndRestoreLayout(store, d) ==
    IF store[d] # NoLayout THEN RestoreLayout(store[d], d)
    ELSE [DefaultLayout(d) EXCEPT !.root = OpenDocumentInPane(@, 1, d)]

\* PaneLayoutView is mounted by the first document page: its ref starts at the
\* document of that page, so only a later change opens one in the active pane.
ShowDocument(layout, d) ==
    IF lastOpened = NoDoc \/ lastOpened = d THEN layout
    ELSE [layout EXCEPT !.root = OpenDocumentInPane(@, layout.active, d)]

NotFlushed(store, layout) == store

FlushSaveLayout(store, layout) == SavePaneLayout(store, layout)

\* Leaving the layout of a document for that of another (or the same).
SwitchLayout(d) ==
    LET store == FlushSaveLayout(savedLayouts, panes)
    IN  /\ savedLayouts' = store
        /\ panes' = ShowDocument(LoadAndRestoreLayout(store, d), d)
        /\ layoutTimer' = TRUE
        /\ leftLayout' = IF panes.primary = NoDoc THEN leftLayout
                         ELSE [leftLayout EXCEPT ![panes.primary] = Stored(panes)]

ShowPage(target) ==
    /\ navs > 0
    /\ navs' = navs - 1
    /\ page' = target
    /\ lastOpened' = target.doc
    /\ IF target.name = "document" THEN SwitchLayout(target.doc)
       ELSE UNCHANGED <<panes, savedLayouts, layoutTimer, leftLayout>>
    /\ UNCHANGED <<dirtyError, nextPane, paneEdits>>

RecordPushKeepsFrontier ==
    /\ navIndex' = navIndex + 1
    /\ navMax' = navMax + 1

\* navHistory.store: a new entry truncates the forward ones.
RecordPush ==
    /\ navIndex' = navIndex + 1
    /\ navMax' = navIndex + 1

\* onNavigateRaw: the page, the stored page, the layout, and a history entry.
OnNavigateRaw(target) ==
    /\ ShowPage(target)
    /\ persistedNav' = target
    /\ history' = Append(SubSeq(history, 1, pos + 1), target)
    /\ pos' = pos + 1
    /\ RecordPush

\* guardedNavigate: an editor with an unsaved, failing document stops it.
GuardedNavigate(target) ==
    IF dirtyError
    THEN /\ pendingNav' = <<target>>
         /\ pendingNav' # pendingNav
         /\ UNCHANGED <<panes, storeVars, page, lastOpened, historyVars, traversals,
                        dirtyError, nextPane, paneEdits, navs>>
    ELSE OnNavigateRaw(target) /\ UNCHANGED <<pendingNav, traversals>>

\* handlePaneNavigate, for a link followed in a pane and for the sidebar: the pane
\* shows the document at once, whatever the guard then decides.
PaneNavigate(id, d) ==
    /\ page.name = "document"
    /\ IF dirtyError
       THEN /\ paneEdits > 0
            /\ paneEdits' = paneEdits - 1
            /\ panes' = ReduceOpen(panes, id, d)
            /\ layoutTimer' = (panes.primary # NoDoc)
            /\ pendingNav' = <<DocumentPage(d)>>
            /\ UNCHANGED <<savedLayouts, leftLayout, page, lastOpened, historyVars,
                           traversals, dirtyError, nextPane, navs>>
       ELSE OnNavigateRaw(DocumentPage(d)) /\ UNCHANGED <<pendingNav, traversals>>

\* Escape in an empty active pane closes it; in the last one it leaves the page.
EscapeEmptyPane ==
    /\ page.name = "document"
    /\ FindPane(panes.root, panes.active).doc = NoDoc
    /\ IF CanClose
       THEN Edited(ReduceClose(panes, panes.active)) /\ UNCHANGED nextPane
       ELSE GuardedNavigate(Dashboard)

ConfirmNavigation ==
    /\ pendingNav # <<>>
    /\ OnNavigateRaw(pendingNav[1])
    /\ pendingNav' = <<>>
    /\ UNCHANGED traversals

CancelNavigation ==
    /\ pendingNav # <<>>
    /\ pendingNav' = <<>>
    /\ UNCHANGED <<panes, storeVars, page, lastOpened, historyVars, traversals, dirtyError,
                   nextPane, paneEdits, navs>>

\* An editor's save gives up, or one succeeds at last.
DirtyErrorChanges ==
    /\ dirtyError' = ~dirtyError
    /\ dirtyError' => page.name = "document" /\ paneEdits > 0
    /\ paneEdits' = IF dirtyError' THEN paneEdits - 1 ELSE paneEdits
    /\ UNCHANGED <<panes, storeVars, page, lastOpened, historyVars, traversals, pendingNav,
                   nextPane, navs>>

CanGoBack == navIndex > 0
CanGoForward == navIndex < navMax

\* The webview answers history.back() later, with a popstate event.
GoBack ==
    /\ CanGoBack /\ Len(traversals) < 2
    /\ traversals' = Append(traversals, -1)
    /\ UNCHANGED <<panes, storeVars, page, lastOpened, historyVars, dirtyError, pendingNav,
                   nextPane, paneEdits, navs>>

GoForward ==
    /\ CanGoForward /\ Len(traversals) < 2
    /\ traversals' = Append(traversals, 1)
    /\ UNCHANGED <<panes, storeVars, page, lastOpened, historyVars, dirtyError, pendingNav,
                   nextPane, paneEdits, navs>>

\* handlePopState, which no guard stops.  A traversal off either end does
\* nothing and sends no event.
HandlePopState ==
    /\ traversals # <<>>
    /\ traversals' = Tail(traversals)
    /\ LET to == pos + traversals[1]
       IN  IF to \in 0 .. Len(history) - 1
           THEN /\ ShowPage(history[to + 1])
                /\ pos' = to
                /\ navIndex' = to
                /\ navMax' = IF to > navMax THEN to ELSE navMax
                /\ UNCHANGED <<history, persistedNav, pendingNav>>
           ELSE UNCHANGED <<panes, storeVars, page, lastOpened, historyVars, dirtyError,
                            pendingNav, nextPane, paneEdits, navs>>

\* The application starts again: a fresh context and history, the page from
\* localStorage, and the layout of its document when it is one.
MountedOn(target) ==
    /\ navs > 0
    /\ navs' = navs - 1
    /\ page' = target
    /\ lastOpened' = target.doc
    /\ panes' = IF target.name = "document" THEN LoadAndRestoreLayout(savedLayouts, target.doc)
                ELSE DefaultLayout(NoDoc)
    /\ layoutTimer' = (target.name = "document")
    /\ leftLayout' = Forgotten
    /\ traversals' = <<>> /\ pendingNav' = <<>> /\ dirtyError' = FALSE
    /\ UNCHANGED <<savedLayouts, persistedNav, nextPane, paneEdits>>

Restart ==
    /\ MountedOn(persistedNav)
    /\ history' = <<persistedNav>> /\ pos' = 0
    /\ navIndex' = 0 /\ navMax' = 0

\* A reload keeps the history; the frontier is pinned to the current entry.
Reload ==
    /\ MountedOn(history[pos + 1])
    /\ navIndex' = pos /\ navMax' = pos
    /\ UNCHANGED <<history, pos>>

PaneNext ==
    \/ \E id \in PaneIds(panes.root), dir \in {"horizontal", "vertical"} : Split(id, dir)
    \/ \E id \in PaneIds(panes.root) : Close(id)
    \/ \E id \in PaneIds(panes.root), d \in Docs : OpenFromPicker(id, d)
    \/ \E source, id \in PaneIds(panes.root) : DropPane(source, id)
    \/ \E dir \in {"horizontal", "vertical"}, toward \in {1, 2} : FocusDirection(dir, toward)
    \/ \E id \in PaneIds(panes.root) : FocusPane(id)
    \/ ResetLayout
    \/ SaveTimerFires
    \/ \E target \in {Dashboard} \cup {DocumentPage(d) : d \in Docs} : GuardedNavigate(target)
    \/ \E id \in PaneIds(panes.root), d \in Docs : PaneNavigate(id, d)
    \/ EscapeEmptyPane
    \/ ConfirmNavigation
    \/ CancelNavigation
    \/ DirtyErrorChanges
    \/ GoBack
    \/ GoForward
    \/ HandlePopState
    \/ Restart
    \/ Reload

PaneSpec == PaneInit /\ [][PaneNext]_paneVars

---------------------------------------------------------------------------
\* Whatever is split, closed, swapped, restored or reset, the panes on screen
\* and every stored layout keep pairwise distinct ids, at most MaxPanes leaves,
\* and an active pane that is one of the leaves (so restoreLayout never has to
\* fall back, and the hotkeys always act on a pane that exists).
PanesWellFormed ==
    \A layout \in {Stored(panes)} \cup ({savedLayouts[d] : d \in Docs} \ {NoLayout}) :
        /\ Cardinality(PaneIds(layout.root)) = CountLeaves(layout.root)
        /\ CountLeaves(layout.root) <= MaxPanes
        /\ layout.active \in PaneIds(layout.root)

\* The layout stored for a document that is not on screen is the one it was left
\* with: a navigation that overtakes the debounced save loses no pane change,
\* and the save of one document's panes never lands under another's name.
StoredAsLeft ==
    \A d \in Docs : (d # panes.primary /\ leftLayout[d] # NoLayout)
                        => savedLayouts[d] = leftLayout[d]

\* Once the webview has answered, the back and forward buttons tell the truth:
\* the store's index is the entry on screen, and forward is offered only when
\* there is an entry to go forward to.
HistoryMirrored ==
    /\ navIndex = pos
    /\ page = history[pos + 1]
    /\ CanGoForward => pos + 1 < Len(history)
=============================================================================
