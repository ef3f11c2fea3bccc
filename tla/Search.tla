------------------------------- MODULE Search -------------------------------
(***************************************************************************)
(* Searching the vault: the in-memory index                                *)
(* (search-index/searchIndex.store.ts), the finder over it                 *)
(* (global-search/GlobalSearch.tsx, useDocumentSearch.ts, with its         *)
(* preview) and the search page, which asks the backend                    *)
(* (search/SearchPage.tsx).                                                *)
(*                                                                         *)
(* A query is a sequence of tokens [kind, value]; kinds are "word",        *)
(* "field" (title: and body:), "bool" (AND, OR), "project", "tag",         *)
(* "exclude" and "phrase".  A document has a type, a project, tags and the *)
(* words of its title and body.                                            *)
(*                                                                         *)
(*   vault, vaultEvents   what the backend has indexed, and the number of  *)
(*                        changes not announced to the window yet          *)
(*   index                the store, its debounce and its running export   *)
(*   finder, preview      the overlay; preview.calls keeps cancelled ones  *)
(*   searchPage, pageCalls    the search page, its queries to the backend  *)
(*   went                 the last navigation                              *)
(*                                                                         *)
(* The page does not use the index, and shares nothing with the finder but *)
(* the vault: surface says which of the two a behaviour is about.          *)
(***************************************************************************)
EXTENDS Integers, Sequences, FiniteSets, FiniteSetsExt, Filters

CONSTANTS DocOrder,        \* every document, the newest first
          SearchDoc,       \* its type, project, tags and words
          ActiveAliases,   \* the projects the window lists
          SearchQueries, FilterTokens, ChipToken,
          PartOf,          \* pairs of tokens whose text is part of another's
          SearchLimit, MaxSearchSteps

VARIABLES vault, vaultEvents, index, surface, finder, preview, searchPage, pageCalls,
          went, searchSteps

indexVars == <<vault, vaultEvents, index>>
finderVars == <<finder, preview>>
searchPageVars == <<searchPage, pageCalls>>
searchVars == <<vault, vaultEvents, index, surface, finder, preview, searchPage,
                pageCalls, went, searchSteps>>

SearchDocs == {DocOrder[i] : i \in DOMAIN DocOrder}

ASSUME SearchAssumption == DocOrder \in Seq(SearchDocs) /\ SearchLimit \in Nat

----------------------------------------------------------------------------
(* Matching.                                                               *)

Values(q, kind) == {q[i].value : i \in {j \in DOMAIN q : q[j].kind = kind}}

\* parseQuery leaves the operators the finder lacks in the text: "title:a"
\* is then searched for as the two words.
TextWords(q) ==
    Values(q, "word") \cup Values(q, "bool") \cup Values(q, "field")
        \cup (IF Values(q, "field") = {} THEN {} ELSE {"title"})

PassesFilters(d, q) ==
    /\ Values(q, "project") = {} \/ SearchDoc[d].project \in Values(q, "project")
    /\ Values(q, "tag") \subseteq SearchDoc[d].tags
    /\ Values(q, "phrase") \subseteq SearchDoc[d].words
    /\ Values(q, "exclude") \cap SearchDoc[d].words = {}

\* MiniSearch joins the words with AND, over the tags too.
TextMatches(d, q) == TextWords(q) \subseteq SearchDoc[d].words \cup SearchDoc[d].tags

SearchIn(docs, q) ==
    LET asks == TextWords(q) \cup Values(q, "phrase") \cup Values(q, "project")
                    \cup Values(q, "tag")
        hits == KeptAt(DocOrder, {i \in DOMAIN DocOrder : /\ DocOrder[i] \in docs
                                                          /\ TextMatches(DocOrder[i], q)
                                                          /\ PassesFilters(DocOrder[i], q)})
    IN  IF asks = {} THEN <<>> ELSE SubSeq(hits, 1, Min({SearchLimit, Len(hits)}))

\* The backend's full-text query; a document may come back once per match.
QueryRows(docs, q) ==
    LET hits == SearchIn(docs, q) IN hits \o SubSeq(hits, 1, Min({1, Len(hits)}))

\* groupedResults: one row per path, in order of first appearance.
GroupedResults(rows) ==
    KeptAt(rows, {i \in DOMAIN rows : \A j \in 1..(i - 1) : rows[j] # rows[i]})

----------------------------------------------------------------------------
(* The vault and the index.                                                *)

SearchStep == searchSteps < MaxSearchSteps /\ searchSteps' = searchSteps + 1

NoExport == [state |-> "none", docs |-> {}]

VaultChanges(d) ==
    /\ SearchStep
    /\ vault' = IF d \in vault THEN vault \ {d} ELSE vault \cup {d}
    /\ vaultEvents' = vaultEvents + 1
    /\ UNCHANGED <<index, surface, finderVars, searchPageVars, went>>

\* Mutant: the request is dropped.
BuiltUnlessBusy(ix) == IF ix.status = "building" THEN ix
                       ELSE [ix EXCEPT !.status = "building", !.pending = FALSE,
                                       !.export = [state |-> "sent", docs |-> {}]]

\* build: a request while one runs is kept for when it ends.
Built(ix) == IF ix.status = "building" THEN [ix EXCEPT !.pending = TRUE]
             ELSE [ix EXCEPT !.status = "building", !.pending = FALSE,
                             !.export = [state |-> "sent", docs |-> {}]]

ShownAt(items, at) == IF items = <<>> THEN "none" ELSE items[Min({at, Len(items) - 1}) + 1]

\* GlobalSearchPreview's effect, when the selected row is another: the call
\* under way is cancelled, a cached document is shown, a note needs none.
PreviewOf(pv, item, fresh) ==
    LET old == {[c EXCEPT !.live = FALSE] : c \in {e \in pv.calls : e.state = "sent"}}
    IN  IF item = pv.item /\ ~fresh THEN pv
        ELSE IF item = "none" \/ SearchDoc[item].type = "note" \/ item \in pv.cache
        THEN [pv EXCEPT !.item = item, !.status = "idle", !.calls = old,
                        !.content = IF item \in pv.cache THEN item ELSE "none"]
        ELSE [pv EXCEPT !.item = item, !.status = "loading", !.content = "none",
                        !.calls = old \cup {[path |-> item, state |-> "timer", live |-> TRUE]}]

\* The result list is computed again when the query or the status of the
\* index has changed; a new list is shown from its top.
Refreshed(ix, f) ==
    LET again == f.open /\ (ix.status # index.status \/ f.query # finder.query)
        results == IF ~again THEN f.results ELSE SearchIn(ix.docs, f.query)
    IN  [f EXCEPT !.results = results,
                  !.at = IF again /\ (f.query # <<>> \/ finder.query # <<>>)
                         THEN 0 ELSE f.at]

Items(f) == IF f.query = <<>> THEN f.recents ELSE f.results

IndexBecomes(ix) ==
    /\ index' = ix
    /\ finder' = Refreshed(ix, finder)
    /\ preview' = IF ~finder.open THEN preview
                  ELSE PreviewOf(preview, ShownAt(Items(finder'), finder'.at), FALSE)

ScheduleRebuild ==
    /\ vaultEvents > 0
    /\ vaultEvents' = vaultEvents - 1
    /\ IndexBecomes([index EXCEPT !.timer = TRUE])
    /\ UNCHANGED <<vault, surface, searchPageVars, went, searchSteps>>

RebuildTimer ==
    /\ index.timer
    /\ IndexBecomes(Built([index EXCEPT !.timer = FALSE]))
    /\ UNCHANGED <<vault, vaultEvents, surface, searchPageVars, went, searchSteps>>

\* The finder offers to rebuild an index that failed.
RebuildIndex ==
    /\ SearchStep
    /\ finder.open /\ index.status = "error" /\ Items(finder) = <<>>
    /\ IndexBecomes(Built(index))
    /\ UNCHANGED <<vault, vaultEvents, surface, searchPageVars, went>>

ExportIndex ==
    /\ index.export.state = "sent"
    /\ index' = [index EXCEPT !.export = [state |-> "read", docs |-> vault]]
    /\ UNCHANGED <<vault, vaultEvents, surface, finderVars, searchPageVars, went, searchSteps>>

Settled(ix) == IF ix.pending THEN Built(ix) ELSE ix

BuildEnds ==
    /\ \/ /\ index.export.state = "read"
          /\ IndexBecomes(Settled([index EXCEPT !.status = "ready", !.export = NoExport,
                                                !.docs = index.export.docs]))
       \/ /\ index.export.state = "sent"
          /\ IndexBecomes(Settled([index EXCEPT !.status = "error", !.export = NoExport]))
    /\ UNCHANGED <<vault, vaultEvents, surface, searchPageVars, went, searchSteps>>

----------------------------------------------------------------------------
(* The finder.  Every change of its list or of the selection moves the     *)
(* preview.                                                                *)

FinderBecomes(f) ==
    /\ finder' = Refreshed(index, f)
    /\ preview' = PreviewOf(preview, ShownAt(Items(finder'), finder'.at), ~finder.open)
    /\ UNCHANGED <<indexVars, surface, searchPageVars>>

InFinder == surface = "finder" /\ finder.open

\* The last query is typed again; the recent documents are fetched anew.
OpenFinder ==
    /\ SearchStep
    /\ surface = "finder" /\ ~finder.open
    /\ FinderBecomes([finder EXCEPT !.open = TRUE, !.query = finder.last, !.at = 0,
                          !.results = SearchIn(index.docs, finder.last),
                          !.recents = <<>>, !.recentCall = "sent", !.recentError = FALSE])
    /\ UNCHANGED went

ClosedFinder ==
    /\ finder' = [finder EXCEPT !.open = FALSE, !.last = finder.query, !.recentCall = "none",
                                !.query = <<>>, !.results = <<>>, !.recents = <<>>]
    /\ preview' = [item |-> "none", status |-> "idle", content |-> "none",
                   cache |-> {}, calls |-> {}]
    /\ UNCHANGED <<indexVars, surface, searchPageVars>>

CloseFinder == SearchStep /\ InFinder /\ ClosedFinder /\ UNCHANGED went

SetQuery(q) ==
    /\ SearchStep /\ InFinder /\ q # finder.query
    /\ FinderBecomes([finder EXCEPT !.query = q])
    /\ UNCHANGED went

MoveSelection(delta) ==
    LET n == Len(Items(finder))
    IN  /\ SearchStep /\ InFinder /\ n > 0
        /\ FinderBecomes([finder EXCEPT !.at = (finder.at + delta + n) % n])
        /\ UNCHANGED went

\* Entering a row with the mouse selects it.
HoverRow(i) ==
    /\ SearchStep /\ InFinder /\ i < Len(Items(finder))
    /\ FinderBecomes([finder EXCEPT !.at = i])
    /\ UNCHANGED went

Destination(d, split, find) ==
    [page |-> IF SearchDoc[d].type = "note" THEN "journal" ELSE "document", doc |-> d,
     split |-> split /\ SearchDoc[d].type # "note",
     find |-> IF SearchDoc[d].type = "note" THEN <<>> ELSE find,
     project |-> IF SearchDoc[d].project \in ActiveAliases THEN SearchDoc[d].project
                 ELSE went.project]

OpenItem(split) ==
    LET item == ShownAt(Items(finder), finder.at)
    IN  /\ SearchStep /\ InFinder /\ item # "none"
        /\ went' = Destination(item, split, finder.query)
        /\ ClosedFinder

RecentsAnswer ==
    /\ finder.recentCall = "sent"
    /\ FinderBecomes([finder EXCEPT !.recentCall = "none",
            !.recents = KeptAt(DocOrder, {i \in DOMAIN DocOrder :
                            DocOrder[i] \in vault /\ SearchDoc[DocOrder[i]].type # "note"}),
            !.at = IF finder.query = <<>> THEN 0 ELSE finder.at])
    /\ UNCHANGED <<went, searchSteps>>

RecentsFail ==
    /\ finder.recentCall = "sent"
    /\ FinderBecomes([finder EXCEPT !.recentCall = "none", !.recentError = TRUE])
    /\ UNCHANGED <<went, searchSteps>>

RetryRecent ==
    /\ SearchStep /\ InFinder
    /\ finder.recentError /\ finder.query = <<>> /\ finder.recents = <<>>
    /\ index.status # "error"
    /\ FinderBecomes([finder EXCEPT !.recentCall = "sent", !.recentError = FALSE])
    /\ UNCHANGED went

PreviewChanges(new) ==
    /\ preview' = new
    /\ UNCHANGED <<indexVars, surface, finder, searchPageVars, went, searchSteps>>

PreviewTimer(c) ==
    /\ c.state = "timer"
    /\ PreviewChanges([preview EXCEPT !.calls = (@ \ {c}) \cup {[c EXCEPT !.state = "sent"]}])

Wanted(c) == c.live

PreviewAnswers(c) ==
    /\ c.state = "sent"
    /\ PreviewChanges(
           IF Wanted(c)
           THEN [preview EXCEPT !.calls = @ \ {c}, !.cache = @ \cup {c.path},
                                !.content = c.path, !.status = "idle"]
           ELSE [preview EXCEPT !.calls = @ \ {c}])

PreviewFails(c) ==
    /\ c.state = "sent"
    /\ PreviewChanges(
           IF Wanted(c)
           THEN [preview EXCEPT !.calls = @ \ {c}, !.content = "none", !.status = "error"]
           ELSE [preview EXCEPT !.calls = @ \ {c}])

----------------------------------------------------------------------------
(* The search page.                                                        *)

OnSearchPage == surface = "page" /\ UNCHANGED <<indexVars, surface, finderVars>>

\* The effect of a new query: a new generation and a new debounce.
PageQuery(q) ==
    /\ OnSearchPage
    /\ searchPage' = IF q = searchPage.query THEN searchPage
               ELSE [searchPage EXCEPT !.query = q, !.gen = @ + 1, !.timer = TRUE]
    /\ UNCHANGED <<pageCalls, went>>

TypeQuery(q) == SearchStep /\ q # searchPage.query /\ searchPage.focus = "input" /\ PageQuery(q)

\* A filter whose text the query already contains is not added.
AddFilterToQuery(tok) ==
    /\ SearchStep
    /\ PageQuery(IF \E i \in DOMAIN searchPage.query :
                        searchPage.query[i] = tok \/ <<tok, searchPage.query[i]>> \in PartOf
                 THEN searchPage.query ELSE Append(searchPage.query, tok))

\* The chips are shown with an empty query; the other button clears one that
\* found nothing.
ClickChip ==
    /\ SearchStep /\ searchPage.query = <<>> /\ searchPage.rows = <<>> /\ ~searchPage.loading /\ ~searchPage.error
    /\ OnSearchPage
    /\ searchPage' = [searchPage EXCEPT !.query = <<ChipToken>>, !.gen = @ + 1, !.timer = TRUE,
                            !.focus = "input"]
    /\ UNCHANGED <<pageCalls, went>>

ClearSearch ==
    /\ SearchStep /\ searchPage.query # <<>> /\ searchPage.rows = <<>> /\ ~searchPage.loading /\ ~searchPage.error
    /\ PageQuery(<<>>)

\* The clamp of the selection to the rows is part of every change of them.
WithRows(p, rows) ==
    LET n == Len(GroupedResults(rows))
    IN  [p EXCEPT !.rows = rows, !.at = IF @ > n - 1 THEN Max({0, n - 1}) ELSE @]

PerformSearch ==
    /\ searchPage.timer
    /\ OnSearchPage
    /\ IF searchPage.query = <<>>
       THEN /\ searchPage' = WithRows([searchPage EXCEPT !.timer = FALSE, !.error = FALSE,
                                             !.loading = FALSE], <<>>)
            /\ UNCHANGED pageCalls
       ELSE /\ searchPage' = [searchPage EXCEPT !.timer = FALSE, !.loading = TRUE, !.error = FALSE]
            /\ pageCalls' = pageCalls \cup
                   {[gen |-> searchPage.gen, query |-> searchPage.query, state |-> "sent", rows |-> <<>>]}
    /\ UNCHANGED <<went, searchSteps>>

\* The backend reads its index at some moment of the call.
QueryServed(c) ==
    /\ c.state = "sent"
    /\ OnSearchPage
    /\ \/ pageCalls' = (pageCalls \ {c}) \cup
              {[c EXCEPT !.state = "done", !.rows = QueryRows(vault, c.query)]}
       \/ pageCalls' = (pageCalls \ {c}) \cup {[c EXCEPT !.state = "failed"]}
    /\ UNCHANGED <<searchPage, went, searchSteps>>

\* Mutant: any answer is shown.
AnyGeneration(c) == TRUE

OfThisGeneration(c) == c.gen = searchPage.gen

QueryAnswers(c) ==
    /\ c.state # "sent"
    /\ OnSearchPage
    /\ pageCalls' = pageCalls \ {c}
    /\ searchPage' = IF ~OfThisGeneration(c) THEN searchPage
               ELSE IF c.state = "done"
               THEN [WithRows(searchPage, c.rows) EXCEPT !.at = 0, !.loading = FALSE]
               ELSE [WithRows(searchPage, <<>>) EXCEPT !.error = TRUE, !.loading = FALSE]
    /\ UNCHANGED <<went, searchSteps>>

\* Tab and Escape leave the field for the first row when there is one (rows
\* are hidden behind an error); Tab selects it, focusing does so as well.
LeaveInput ==
    /\ SearchStep /\ searchPage.focus = "input"
    /\ OnSearchPage
    /\ searchPage' = IF searchPage.rows # <<>> /\ ~searchPage.error
               THEN [searchPage EXCEPT !.focus = "rows", !.at = 0]
               ELSE [searchPage EXCEPT !.focus = "none"]
    /\ UNCHANGED <<pageCalls, went>>

FocusInput ==
    /\ SearchStep /\ searchPage.focus # "input"
    /\ OnSearchPage
    /\ searchPage' = [searchPage EXCEPT !.focus = "input"]
    /\ UNCHANGED <<pageCalls, went>>

\* j and k; j with no rows leaves the selection at -1.
StepRow(delta) ==
    LET n == Len(GroupedResults(searchPage.rows))
        at == IF delta > 0 THEN Min({searchPage.at + 1, n - 1}) ELSE Max({searchPage.at - 1, 0})
    IN  /\ SearchStep /\ searchPage.focus # "input"
        /\ OnSearchPage
        /\ searchPage' = [searchPage EXCEPT !.at = at, !.focus = IF n > 0 /\ ~searchPage.error THEN "rows" ELSE @]
        /\ UNCHANGED <<pageCalls, went>>

OpenResult(i) ==
    /\ SearchStep /\ i < Len(GroupedResults(searchPage.rows)) /\ ~searchPage.error
    /\ OnSearchPage
    /\ went' = Destination(GroupedResults(searchPage.rows)[i + 1], FALSE, <<>>)
    /\ searchPage' = [searchPage EXCEPT !.at = i, !.focus = "rows"]
    /\ UNCHANGED pageCalls

----------------------------------------------------------------------------
SearchInit ==
    /\ vault \in {{}, SearchDocs} /\ vaultEvents = 0
    /\ index = [status |-> "building", docs |-> {}, pending |-> FALSE, timer |-> FALSE,
                export |-> [state |-> "sent", docs |-> {}]]
    /\ surface \in {"page", "finder"}
    /\ finder = [open |-> FALSE, query |-> <<>>, results |-> <<>>, recents |-> <<>>,
                 recentCall |-> "none", recentError |-> FALSE, at |-> 0, last |-> <<>>]
    /\ preview = [item |-> "none", status |-> "idle", content |-> "none",
                  cache |-> {}, calls |-> {}]
    /\ searchPage = [query |-> <<>>, gen |-> 1, timer |-> TRUE, loading |-> FALSE,
               rows |-> <<>>, error |-> FALSE, at |-> 0, focus |-> "input"]
    /\ pageCalls = {}
    /\ went = [page |-> "search", doc |-> "none", split |-> FALSE, find |-> <<>>,
               project |-> "none"]
    /\ searchSteps = 0

FinderNext ==
    \/ OpenFinder \/ CloseFinder \/ RecentsAnswer \/ RecentsFail \/ RetryRecent
    \/ RebuildIndex
    \/ \E q \in SearchQueries : SetQuery(q)
    \/ \E delta \in {-1, 1} : MoveSelection(delta)
    \/ \E i \in 0..(Len(DocOrder) - 1) : HoverRow(i)
    \/ \E split \in BOOLEAN : OpenItem(split)
    \/ \E c \in preview.calls : PreviewTimer(c) \/ PreviewAnswers(c) \/ PreviewFails(c)

PageNext ==
    \/ \E q \in SearchQueries : TypeQuery(q)
    \/ \E tok \in FilterTokens : AddFilterToQuery(tok)
    \/ ClickChip \/ ClearSearch \/ PerformSearch \/ LeaveInput \/ FocusInput
    \/ \E delta \in {-1, 1} : StepRow(delta)
    \/ \E i \in 0..(Len(DocOrder) - 1) : OpenResult(i)
    \/ \E c \in pageCalls : QueryServed(c) \/ QueryAnswers(c)

SearchNext ==
    \/ \E d \in SearchDocs : VaultChanges(d)
    \/ /\ surface = "finder"
       /\ ScheduleRebuild \/ RebuildTimer \/ ExportIndex \/ BuildEnds \/ FinderNext
    \/ PageNext

SearchSpec == SearchInit /\ [][SearchNext]_searchVars

----------------------------------------------------------------------------
(* The finder misses nothing: when every change of the vault has been      *)
(* announced, no rebuild is due or running and the last one succeeded, the *)
(* rows listed for the query are what a search of the vault itself gives.  *)
(* It rests on build's coalescing of requests that come while it runs and  *)
(* on the list being computed again when the status changes.               *)
FinderFindsVault ==
    /\ finder.open /\ finder.query # <<>>
    /\ vaultEvents = 0 /\ ~index.timer /\ index.status = "ready"
    => finder.results = SearchIn(vault, finder.query)

(* The rows of the search page answer the query in its field: with no      *)
(* debounce and no search running, the listed rows match the query shown,  *)
(* and an empty query lists none, however the answers of earlier queries   *)
(* are delayed.                                                            *)
PageAnswersQuery ==
    surface = "page" /\ ~searchPage.timer /\ ~searchPage.loading =>
        \A i \in DOMAIN searchPage.rows :
            /\ searchPage.query # <<>>
            /\ TextMatches(searchPage.rows[i], searchPage.query)
            /\ PassesFilters(searchPage.rows[i], searchPage.query)

============================================================================
