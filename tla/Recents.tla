-------------------------------- MODULE Recents --------------------------------
(***************************************************************************)
(* The list of recently opened documents (shared/stores/                   *)
(* recentDocuments.store.ts): it is stored, follows entry events, and      *)
(* whenever its paths change every document is fetched again, to refresh   *)
(* the titles and drop what is deleted.  Such a round takes several calls, *)
(* and the list changes meanwhile.                                         *)
(***************************************************************************)
EXTENDS Integers, Sequences, FiniteSets, Functions, Filters

CONSTANTS
    RecentPaths,    \* document paths
    MaxRecents,     \* MAX_RECENT_DOCUMENTS
    MaxRecentSteps  \* bound: documents opened, renamed, deleted

ASSUME RecentsAssumption == MaxRecents \in Nat

VARIABLES
    held,           \* path -> title the service holds, or "deleted"
    entryEvents,    \* entry/updated and entry/deleted on their way: <<path, title>>
    recents,        \* sequence of [path, title]
    rounds,         \* fetch rounds under way: [snapshot, answers, cancelled]
    opened,         \* paths that have to be listed (see RecentsKept)
    recentSteps

recentVars == <<held, entryEvents, recents, rounds, opened, recentSteps>>

Titles == {"t1", "t2"}
PathsOf(list) == [i \in DOMAIN list |-> list[i].path]
Listing(list) == Range(PathsOf(list))
Unanswered == "unanswered"

\* The effect fetches every document of the list it is run with.
Round(list) ==
    [snapshot |-> list, answers |-> [p \in Listing(list) |-> Unanswered], cancelled |-> FALSE]

RecentInit ==
    /\ held = [p \in RecentPaths |-> "t1"] /\ entryEvents = {} /\ recents = <<>>
    /\ rounds = {} /\ opened = {} /\ recentSteps = 0

Busy == recentSteps < MaxRecentSteps /\ recentSteps' = recentSteps + 1

NotCancelled(rs) == rs

CancelRounds(rs) == {[r EXCEPT !.cancelled = TRUE] : r \in rs}

\* set({documents}), persisted at once; the effect runs again when the paths
\* are other ones, and its cleanup cancels the round before.
SetDocuments(list, rs) ==
    /\ recents' = list
    /\ rounds' = IF PathsOf(list) = PathsOf(recents) THEN rs
                 ELSE CancelRounds(rs) \cup (IF list = <<>> THEN {} ELSE {Round(list)})

Without(list, p) == KeptAt(list, {i \in DOMAIN list : list[i].path # p})

Capped(list) == SubSeq(list, 1, IF Len(list) < MaxRecents THEN Len(list) ELSE MaxRecents)

AddRecentDocument(p) ==
    /\ Busy /\ held[p] # "deleted"
    /\ SetDocuments(Capped(<<[path |-> p, title |-> held[p]]>> \o Without(recents, p)), rounds)
    /\ opened' = (opened \cup {p}) \cap Listing(recents')
    /\ UNCHANGED <<held, entryEvents>>

RemoveRecentDocument(p) == SetDocuments(Without(recents, p), rounds) /\ opened' = opened \ {p}

ClearRecentDocuments ==
    /\ Busy /\ recents # <<>> /\ SetDocuments(<<>>, rounds) /\ opened' = {}
    /\ UNCHANGED <<held, entryEvents>>

UpdateRecentDocumentTitle(p, title) ==
    /\ SetDocuments([i \in DOMAIN recents |-> IF recents[i].path = p
                                              THEN [recents[i] EXCEPT !.title = title]
                                              ELSE recents[i]], rounds)
    /\ UNCHANGED opened

\* Somebody renames or deletes a document; the event comes later.
EntryChanges(p, title) ==
    /\ Busy /\ held[p] \notin {"deleted", title}
    /\ held' = [held EXCEPT ![p] = title] /\ entryEvents' = entryEvents \cup {<<p, title>>}
    /\ UNCHANGED <<recents, rounds, opened>>

EntryEvent(e) ==
    /\ e \in entryEvents /\ entryEvents' = entryEvents \ {e}
    /\ IF e[2] = "deleted" THEN RemoveRecentDocument(e[1])
       ELSE UpdateRecentDocumentTitle(e[1], e[2])
    /\ UNCHANGED <<held, recentSteps>>

\* getDocument: any failure counts as deleted.
FetchAnswers(r, p, ok) ==
    /\ p \in DOMAIN r.answers /\ r.answers[p] = Unanswered
    /\ rounds' = (rounds \ {r}) \cup
                 {[r EXCEPT !.answers[p] = IF ok THEN held[p] ELSE "deleted"]}
    /\ UNCHANGED <<held, entryEvents, recents, opened, recentSteps>>

Validated(r) ==
    LET live == KeptAt(r.snapshot, {i \in DOMAIN r.snapshot :
                                          r.answers[r.snapshot[i].path] # "deleted"})
    IN  [i \in DOMAIN live |-> [live[i] EXCEPT !.title = r.answers[live[i].path]]]

RoundEnds(r) ==
    /\ \A p \in DOMAIN r.answers : r.answers[p] # Unanswered
    /\ IF r.cancelled \/ Validated(r) = r.snapshot
       THEN rounds' = rounds \ {r} /\ UNCHANGED <<recents, opened>>
       ELSE /\ SetDocuments(Validated(r), rounds \ {r})
            /\ opened' = opened \ {p \in DOMAIN r.answers : r.answers[p] = "deleted"}
    /\ UNCHANGED <<held, entryEvents, recentSteps>>

RecentNext ==
    \/ \E p \in RecentPaths : AddRecentDocument(p)
    \/ ClearRecentDocuments
    \/ \E p \in RecentPaths, title \in Titles \cup {"deleted"} : EntryChanges(p, title)
    \/ \E e \in entryEvents : EntryEvent(e)
    \/ \E r \in rounds : RoundEnds(r)
    \/ \E r \in rounds, p \in RecentPaths, ok \in BOOLEAN : FetchAnswers(r, p, ok)

RecentSpec == RecentInit /\ [][RecentNext]_recentVars

---------------------------------------------------------------------------
\* A document that was opened stays listed until newer ones push it out, the
\* list is cleared, or it is said to be deleted (by its event, or by the answer
\* to its own fetch): a round that started before it was opened never takes it
\* away, and no path is listed twice (addRecentDocument, the effect's cleanup).
RecentsKept == opened \subseteq Listing(recents) /\ Cardinality(Listing(recents)) = Len(recents)
=============================================================================
