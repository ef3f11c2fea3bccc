----------------------------- MODULE BrowseProofs -----------------------------
(***************************************************************************)
(* Proofs about finding one's way: the document list of the dashboard is   *)
(* the current project's once everything has arrived, loading the projects *)
(* settles which one is current, and the finder misses no document.  All   *)
(* three hold for any documents, projects, queries and number of steps.    *)
(***************************************************************************)
EXTENDS DocumentList, ProjectsPage, Search, WellFoundedInduction, TLAPS

---------------------------------------------------------------------------
(* The document list.                                                      *)

(* A load has the fields the proofs use, and a token no newer than the     *)
(* list's.                                                                 *)
LoadShape(l) ==
    /\ {"token", "alias", "archived", "answer"} \subseteq DOMAIN l
    /\ l.token \in Nat \ {0} /\ l.token <= listing.token

(* An operation has done what it has no more to do, and waits for a load   *)
(* only at its end.                                                        *)
JobShape(j) ==
    /\ {"kind", "todo", "paths", "token"} \subseteq DOMAIN j
    /\ j.todo \subseteq j.paths
    /\ j.todo # {} => j.token = 0

DashTypes ==
    /\ undelivered \in Nat
    /\ {"token", "alias", "archived", "documents", "failed"} \subseteq DOMAIN listing
    /\ listing.token \in Nat
    /\ JobShape(job)
    /\ \A l \in loads : LoadShape(l)
    /\ \A l, k \in loads : l.token = k.token => l = k

(* The list need not know of a change yet: its event is on the way, or it  *)
(* was made by a move that has not come to its reload.                     *)
Unreported ==
    \/ undelivered > 0
    \/ movedUnheard
    \/ job.kind \in Projects /\ job.todo # job.paths /\ job.token = 0

Answers(l) == l.answer \in {<<"none">>, <<"read", Listed(listing.alias, listing.archived)>>}

(* ListIsCurrent is not inductive: it says nothing while calls or events   *)
(* are out.  What is carried along is that the list's request is always    *)
(* for the current project and filter, and that its answer, unread, on the *)
(* way or delivered, is up to date unless a change is still unreported.    *)
ListFollows ==
    /\ listing.alias = current /\ listing.archived = showArchived
    /\ \A l \in loads : l.token = listing.token =>
           l.alias = listing.alias /\ l.archived = listing.archived
    /\ \/ Unreported
       \/ \E l \in loads : l.token = listing.token /\ Answers(l)
       \/ /\ \A l \in loads : l.token # listing.token
          /\ listing.failed \/ listing.documents = Listed(listing.alias, listing.archived)

ListInvariant == DashTypes /\ (current # NoProject => ListFollows)

(* The invariant gives the property (DocumentContext): with no call under  *)
(* way and nothing unreported, only the delivered list is left.            *)
LEMMA FollowingIsCurrent ==
    ASSUME ListInvariant PROVE ListIsCurrent
<1> SUFFICES ASSUME loads = {}, undelivered = 0, job = NoJob, ~listing.failed, ~movedUnheard,
                    current # NoProject
             PROVE  listing.documents = Listed(current, showArchived)
    BY Zenon DEF ListIsCurrent
<1>1. ~Unreported
    BY DEF Unreported, NoJob
<1>q. QED
    BY <1>1, Zenon DEF ListInvariant, ListFollows

(* The window opens with the list of the project it shows.                 *)
LEMMA ListStarts ==
    ASSUME DashInit PROVE ListInvariant
<1>1. /\ undelivered = 0 /\ loads = {} /\ job = NoJob /\ showArchived = FALSE
      /\ listing = [token |-> 0, alias |-> current, archived |-> FALSE,
                    documents |-> Listed(current, FALSE), failed |-> FALSE]
    BY Zenon DEF DashInit
<1>2. DashTypes
    BY <1>1, Zenon DEF DashTypes, NoJob, JobShape
<1>3. ListFollows
    BY <1>1, Zenon DEF ListFollows
<1>q. QED
    BY <1>2, <1>3, Zenon DEF ListInvariant

(* loadDocuments, whoever calls it: the request is for what is current     *)
(* after the step, and it has not been answered.                           *)
LEMMA LoadingFollows ==
    ASSUME DashTypes, NEW alias, NEW archived, LoadDocuments(alias, archived),
           undelivered' \in Nat, JobShape(job)',
           current' # NoProject => current' = alias /\ showArchived' = archived
    PROVE  ListInvariant'
<1> PICK l : l = [token |-> listing.token + 1, alias |-> alias, archived |-> archived,
                  answer |-> <<"none">>]
    BY Zenon
<1>1. /\ {"token", "alias", "archived", "answer"} \subseteq DOMAIN l
      /\ l.token = listing.token + 1 /\ l.alias = alias /\ l.archived = archived
      /\ l.answer = <<"none">>
    BY Zenon
<1>2. /\ listing' = [listing EXCEPT !.token = @ + 1, !.alias = alias, !.archived = archived,
                                    !.failed = FALSE]
      /\ loads' = loads \cup {l}
    BY Zenon DEF LoadDocuments
<1>3. /\ DOMAIN listing' = DOMAIN listing
      /\ listing'.token = listing.token + 1 /\ listing'.alias = alias
      /\ listing'.archived = archived
    BY <1>2, Zenon DEF DashTypes
<1>4. listing.token \in Nat /\ \A k \in loads : LoadShape(k)
    BY Zenon DEF DashTypes
<1>5. \A k \in loads : k.token \in Nat /\ k.token < listing.token + 1
    BY <1>4 DEF LoadShape
<1>6. \A k \in loads' : LoadShape(k)'
    <2> SUFFICES ASSUME NEW k \in loads' PROVE LoadShape(k)'
        BY Zenon
    <2>1. CASE k \in loads
        BY <2>1, <1>3, <1>4, <1>5 DEF LoadShape
    <2>2. CASE k = l
        BY <2>2, <1>1, <1>3, <1>4 DEF LoadShape
    <2>q. QED
        BY <2>1, <2>2, <1>2, Zenon
<1>7. \A k, m \in loads' : k.token = m.token => k = m
    BY <1>1, <1>2, <1>4, <1>5, SMTT(30) DEF DashTypes
<1>8. DashTypes'
    BY <1>3, <1>4, <1>6, <1>7 DEF DashTypes
<1>9. ASSUME current' # NoProject PROVE ListFollows'
    <2>1. Answers(l)'
        BY <1>1, Zenon DEF Answers
    <2>2. l \in loads' /\ l.token = listing'.token
        BY <1>1, <1>2, <1>3, Zenon
    <2>3. \A k \in loads' : k.token = listing'.token => k = l
        BY <1>1, <1>2, <1>3, <1>4, <1>5, SMTT(30)
    <2>4. \A k \in loads' : k.token = listing'.token =>
              k.alias = listing'.alias /\ k.archived = listing'.archived
        BY <2>3, <1>1, <1>3, ZenonT(30)
    <2>5. listing'.alias = current' /\ listing'.archived = showArchived'
        BY <1>3, <1>9, ZenonT(30)
    <2>q. QED
        BY <2>1, <2>2, <2>4, <2>5, ZenonT(30) DEF ListFollows
<1>q. QED
    BY <1>8, <1>9, Zenon DEF ListInvariant

(* Nothing the list is about changes, and no operation has begun to do     *)
(* anything: rows, selections, dialogs and starting an operation.          *)
LEMMA QuietFollows ==
    ASSUME ListInvariant,
           UNCHANGED <<library, undelivered, current, showArchived, listing, loads, movedUnheard>>,
           \/ job' = job
           \/ job = NoJob /\ JobShape(job') /\ job'.todo = job'.paths
    PROVE  ListInvariant'
<1>1. /\ library' = library /\ undelivered' = undelivered /\ current' = current
      /\ showArchived' = showArchived /\ listing' = listing /\ loads' = loads
      /\ movedUnheard' = movedUnheard
    BY Zenon
<1>2. JobShape(job)'
    BY Zenon DEF ListInvariant, DashTypes
<1>3. DashTypes'
    BY <1>1, <1>2, ZenonT(30) DEF ListInvariant, DashTypes, LoadShape
<1>4. Unreported => Unreported'
    BY <1>1 DEF Unreported, NoJob
<1>5. current # NoProject => ListFollows'
    BY <1>1, <1>4, ZenonT(30) DEF ListInvariant, ListFollows, Answers, Listed
<1>q. QED
    BY <1>1, <1>3, <1>5, ZenonT(30) DEF ListInvariant

(* With no current project nothing is claimed of the list.                 *)
LEMMA NoProjectFollows ==
    ASSUME ListInvariant, listing' = listing, loads' = loads, undelivered' \in Nat,
           JobShape(job)', current' = NoProject
    PROVE  ListInvariant'
<1>1. DashTypes'
    BY Zenon DEF ListInvariant, DashTypes, LoadShape
<1>q. QED
    BY <1>1, Zenon DEF ListInvariant

(* ListByProject: the latest request reads what is listed at that moment;  *)
(* an older one concerns nobody.                                           *)
LEMMA ReadFollows ==
    ASSUME ListInvariant, NEW l \in loads, ListRead(l)
    PROVE  ListInvariant'
<1> PICK k : k = [l EXCEPT !.answer = <<"read", Listed(l.alias, l.archived)>>]
    BY Zenon
<1>1. /\ library' = library /\ undelivered' = undelivered /\ current' = current
      /\ showArchived' = showArchived /\ listing' = listing /\ job' = job
      /\ movedUnheard' = movedUnheard /\ loads' = (loads \ {l}) \cup {k}
    BY Zenon DEF ListRead
<1>2. DashTypes /\ LoadShape(l)
    BY Zenon DEF ListInvariant, DashTypes
<1>3. /\ DOMAIN k = DOMAIN l /\ k.token = l.token /\ k.alias = l.alias
      /\ k.archived = l.archived /\ k.answer = <<"read", Listed(l.alias, l.archived)>>
    BY <1>2, Zenon DEF LoadShape
<1>4. \A m \in loads' : LoadShape(m)'
    <2>1. LoadShape(k)
        BY <1>2, <1>3, Zenon DEF LoadShape
    <2>2. \A m \in loads' : LoadShape(m)
        BY <2>1, <1>1, <1>2, ZenonT(30) DEF DashTypes
    <2>q. QED
        BY <2>2, <1>1, Zenon DEF LoadShape
<1>5. \A m, n \in loads' : m.token = n.token => m = n
    <2>1. \A m \in loads \ {l} : m.token # k.token
        BY <1>2, <1>3, Zenon DEF DashTypes
    <2>2. \A m, n \in loads \ {l} : m.token = n.token => m = n
        BY <1>2, Zenon DEF DashTypes
    <2>q. QED
        BY <2>1, <2>2, <1>1, ZenonT(30)
<1>6. DashTypes'
    BY <1>1, <1>2, <1>4, <1>5, Zenon DEF DashTypes
<1>7. ASSUME current # NoProject PROVE ListFollows'
    <2>1. ListFollows
        BY <1>7, Zenon DEF ListInvariant
    <2>2. \A m \in loads' : m.token = listing.token =>
              m.alias = listing.alias /\ m.archived = listing.archived
        BY <2>1, <1>1, <1>3, ZenonT(30) DEF ListFollows
    <2>3. Unreported => Unreported'
        BY <1>1, Zenon DEF Unreported
    <2>4. CASE l.token = listing.token
        <3>1. k.answer = <<"read", Listed(listing.alias, listing.archived)>>
            BY <2>1, <2>4, <1>3, ZenonT(30) DEF ListFollows
        <3>2. Answers(k)'
            BY <3>1, <1>1, ZenonT(30) DEF Answers, Listed
        <3>q. QED
            BY <3>2, <2>1, <2>2, <2>4, <1>1, <1>3, ZenonT(30) DEF ListFollows
    <2>5. CASE l.token # listing.token
        <3>1. \A m \in loads : m.token = listing.token => m \in loads'
            BY <2>5, <1>1, ZenonT(30)
        <3>2. \A m \in loads' : m.token = listing.token => m \in loads
            BY <2>5, <1>1, <1>3, ZenonT(30)
        <3>3. \A m : Answers(m) => Answers(m)'
            BY <1>1, Zenon DEF Answers, Listed
        <3>4. listing.documents = Listed(listing.alias, listing.archived) =>
                  listing'.documents = Listed(listing.alias, listing.archived)'
            BY <1>1, Zenon DEF Listed
        <3>q. QED
            BY <3>1, <3>2, <3>3, <3>4, <2>1, <2>2, <2>3, <1>1, ZenonT(30) DEF ListFollows
    <2>q. QED
        BY <2>4, <2>5, Zenon
<1>q. QED
    BY <1>1, <1>6, <1>7, ZenonT(30) DEF ListInvariant

(* loadDocuments' answer: the latest request's is the list, or the load has *)
(* failed; any other is dropped, and changes nothing but the operation that *)
(* waited for it.                                                          *)
LEMMA DeliveryFollows ==
    ASSUME ListInvariant, NEW l \in loads, NEW ok \in BOOLEAN, ListDelivered(l, ok)
    PROVE  ListInvariant'
<1>1. /\ library' = library /\ undelivered' = undelivered /\ current' = current
      /\ showArchived' = showArchived /\ movedUnheard' = movedUnheard /\ loads' = loads \ {l}
      /\ ok => l.answer # <<"none">>
      /\ JobAfter(l.token)
    BY Zenon DEF ListDelivered
<1>2. /\ l.token = listing.token =>
             listing' = IF ok THEN [listing EXCEPT !.documents = l.answer[2]]
                        ELSE [listing EXCEPT !.failed = TRUE]
      /\ l.token # listing.token => listing' = listing
    BY Zenon DEF ListDelivered, IsLatest
<1>3. DashTypes
    BY Zenon DEF ListInvariant
<1>4. /\ DOMAIN listing' = DOMAIN listing /\ listing'.token = listing.token
      /\ listing'.alias = listing.alias /\ listing'.archived = listing.archived
      /\ l.token = listing.token => IF ok THEN listing'.documents = l.answer[2]
                                    ELSE listing'.failed = TRUE
    BY <1>2, <1>3, Zenon DEF DashTypes
<1>5. \/ job' = job
      \/ job' = NoJob /\ job.token = l.token
    BY <1>1, ZenonT(30) DEF JobAfter
<1>6. JobShape(job)'
    BY <1>3, <1>5 DEF DashTypes, JobShape, NoJob
<1>7. DashTypes'
    BY <1>1, <1>3, <1>4, <1>6, ZenonT(30) DEF DashTypes, LoadShape
<1>8. Unreported => Unreported'
    <2>1. l.token # 0
        BY <1>3, Zenon DEF DashTypes, LoadShape
    <2>q. QED
        BY <2>1, <1>1, <1>5, ZenonT(30) DEF Unreported
<1>9. ASSUME current # NoProject PROVE ListFollows'
    <2>1. ListFollows
        BY <1>9, ZenonT(30) DEF ListInvariant
    <2>2. \A m : Answers(m) => Answers(m)'
        BY <1>1, <1>4, ZenonT(30) DEF Answers, Listed
    <2>3. Listed(listing.alias, listing.archived)' = Listed(listing.alias, listing.archived)
        BY <1>1, <1>4, ZenonT(30) DEF Listed
    <2>4. CASE l.token = listing.token
        <3>1. \A m \in loads' : m.token # listing.token
            BY <2>4, <1>1, <1>3, ZenonT(30) DEF DashTypes
        <3>2. \A m \in loads : m.token = listing.token => m = l
            BY <2>4, <1>3, ZenonT(30) DEF DashTypes
        <3>3. Unreported \/ Answers(l)
            BY <3>2, <2>1, <2>4, ZenonT(30) DEF ListFollows
        <3>4. CASE ok
            <4>1. Answers(l) => l.answer = <<"read", Listed(listing.alias, listing.archived)>>
                BY <3>4, <1>1, ZenonT(30) DEF Answers
            <4>2. Answers(l) => listing'.documents = Listed(listing.alias, listing.archived)
                BY <4>1, <3>4, <2>4, <1>4, SMTT(30)
            <4>q. QED
                BY <4>2, <3>1, <3>3, <2>1, <2>3, <1>1, <1>4, <1>8, ZenonT(30) DEF ListFollows
        <3>5. CASE ~ok
            BY <3>5, <3>1, <2>1, <2>4, <1>1, <1>4, ZenonT(30) DEF ListFollows
        <3>q. QED
            BY <3>4, <3>5, Zenon
    <2>5. CASE l.token # listing.token
        <3>1. listing' = listing
            BY <2>5, <1>2, Zenon
        <3>2. \A m \in loads : m.token = listing.token => m \in loads'
            BY <2>5, <1>1, ZenonT(30)
        <3>q. QED
            BY <3>1, <3>2, <2>1, <2>2, <2>3, <1>1, <1>8, ZenonT(30) DEF ListFollows
    <2>q. QED
        BY <2>4, <2>5, Zenon
<1>q. QED
    BY <1>1, <1>7, <1>9, ZenonT(30) DEF ListInvariant

(* A change made elsewhere sends an event.                                 *)
LEMMA ElsewhereFollows ==
    ASSUME ListInvariant, NEW d \in AllDocs, ChangedElsewhere(d)
    PROVE  ListInvariant'
<1>1. /\ undelivered' = undelivered + 1 /\ current' = current /\ showArchived' = showArchived
      /\ listing' = listing /\ loads' = loads /\ job' = job
    BY Zenon DEF ChangedElsewhere
<1>2. DashTypes /\ undelivered \in Nat
    BY Zenon DEF ListInvariant, DashTypes
<1>3. undelivered' \in Nat /\ undelivered' > 0
    BY <1>1, <1>2
<1>4. DashTypes'
    BY <1>1, <1>2, <1>3, ZenonT(30) DEF DashTypes, LoadShape
<1>5. current # NoProject => ListFollows'
    BY <1>1, <1>3, ZenonT(30) DEF ListInvariant, ListFollows, Unreported
<1>q. QED
    BY <1>1, <1>4, <1>5, ZenonT(30) DEF ListInvariant

(* A call of an operation: what it changes is reported by an event, except *)
(* by a move, which the reload at its end will show; a move that fails     *)
(* half-way is remembered.                                                 *)
LEMMA CallFollows ==
    ASSUME ListInvariant, JobCall
    PROVE  ListInvariant'
<1>1. /\ current' = current /\ showArchived' = showArchived /\ listing' = listing
      /\ loads' = loads
    BY Zenon DEF JobCall
<1>2. PICK d \in job.todo : CallDone(d) \/ CallFails(d)
    BY Zenon DEF JobCall
<1>3. DashTypes /\ undelivered \in Nat /\ JobShape(job)
    BY Zenon DEF ListInvariant, DashTypes
<1> PICK rest : rest = [job EXCEPT !.todo = @ \ {d}]
    BY Zenon
<1>4. /\ DOMAIN rest = DOMAIN job /\ rest.todo = job.todo \ {d} /\ rest.paths = job.paths
      /\ rest.kind = job.kind /\ rest.token = job.token
    BY <1>3, Zenon DEF JobShape
<1>5. JobShape(rest) /\ rest.todo # rest.paths /\ rest.token = 0
    BY <1>3, <1>4, Zenon DEF JobShape
<1>6. JobShape(NoJob)
    BY Zenon DEF JobShape, NoJob
<1>7. CASE CallDone(d)
    <2>1. /\ undelivered' = IF job.kind \in Projects THEN undelivered ELSE undelivered + 1
          /\ job' = rest
        BY <1>7, Zenon DEF CallDone
    <2>2. undelivered' \in Nat /\ (job.kind \notin Projects => undelivered' > 0)
        BY <2>1, <1>3
    <2>3. DashTypes'
        BY <2>1, <2>2, <1>1, <1>3, <1>5, ZenonT(30) DEF DashTypes, LoadShape
    <2>4. Unreported'
        BY <2>1, <2>2, <1>4, <1>5, ZenonT(30) DEF Unreported
    <2>q. QED
        BY <2>3, <2>4, <1>1, Zenon DEF ListInvariant, ListFollows
<1>8. CASE CallFails(d)
    <2>1. /\ library' = library /\ undelivered' = undelivered
          /\ job' = rest \/ job' = NoJob
          /\ movedUnheard' = (movedUnheard \/ (job.kind \in Projects /\ job.todo # job.paths))
        BY <1>8, Zenon DEF CallFails
    <2>2. JobShape(job)'
        BY <2>1, <1>5, <1>6, ZenonT(30)
    <2>3. DashTypes'
        BY <2>1, <2>2, <1>1, <1>3, ZenonT(30) DEF DashTypes, LoadShape
    <2>4. Unreported => Unreported'
        BY <2>1, Zenon DEF Unreported
    <2>q. QED
        BY <2>1, <2>3, <2>4, <1>1, ZenonT(30) DEF ListInvariant, ListFollows, Answers, Listed
<1>q. QED
    BY <1>2, <1>7, <1>8, Zenon

(* reloadDocuments at the end of an operation.                             *)
LEMMA ReloadFollows ==
    ASSUME ListInvariant, JobReloads
    PROVE  ListInvariant'
<1>1. undelivered' = undelivered /\ current' = current /\ showArchived' = showArchived
    BY Zenon DEF JobReloads
<1>2. DashTypes /\ undelivered' \in Nat /\ JobShape(job)
    BY <1>1, Zenon DEF ListInvariant, DashTypes
<1>3. CASE current = NoProject
    <2>1. job' = NoJob /\ listing' = listing /\ loads' = loads
        BY <1>3, Zenon DEF JobReloads
    <2>2. JobShape(job)'
        BY <2>1, Zenon DEF JobShape, NoJob
    <2>q. QED
        BY <2>1, <2>2, <1>1, <1>2, <1>3, NoProjectFollows, ZenonT(30)
<1>4. CASE current # NoProject
    <2>1. /\ LoadDocuments(current, showArchived) /\ job.todo = {}
          /\ job' = [job EXCEPT !.token = listing.token + 1]
        BY <1>4, Zenon DEF JobReloads
    <2>2. JobShape(job)'
        BY <2>1, <1>2, Zenon DEF JobShape
    <2>q. QED
        BY <2>1, <2>2, <1>1, <1>2, LoadingFollows, ZenonT(30)
<1>q. QED
    BY <1>3, <1>4, Zenon

(* The list is asked for when the project, the filter or a document has    *)
(* changed.                                                                *)
LEMMA AskingFollows ==
    ASSUME ListInvariant,
           \/ \E p \in Projects \cup {NoProject} : SwitchProject(p)
           \/ ToggleArchived
           \/ EventArrives
    PROVE  ListInvariant'
<1>1. DashTypes /\ undelivered \in Nat /\ JobShape(job)
    BY Zenon DEF ListInvariant, DashTypes
<1>2. ASSUME NEW p \in Projects \cup {NoProject}, SwitchProject(p) PROVE ListInvariant'
    <2>1. /\ undelivered' = undelivered /\ job' = job /\ current' = p
          /\ showArchived' = showArchived
          /\ IF p = NoProject THEN listing' = listing /\ loads' = loads
             ELSE LoadDocuments(p, showArchived)
        BY <1>2, Zenon DEF SwitchProject
    <2>2. JobShape(job)' /\ undelivered' \in Nat
        BY <2>1, <1>1, ZenonT(30)
    <2>3. CASE p = NoProject
        BY <2>1, <2>2, <2>3, NoProjectFollows, ZenonT(30)
    <2>4. CASE p # NoProject
        BY <2>1, <2>2, <2>4, <1>1, LoadingFollows, ZenonT(30)
    <2>q. QED
        BY <2>3, <2>4, Zenon
<1>3. ASSUME ToggleArchived PROVE ListInvariant'
    <2>1. /\ undelivered' = undelivered /\ job' = job /\ current' = current
          /\ showArchived' = ~showArchived
          /\ IF current = NoProject THEN listing' = listing /\ loads' = loads
             ELSE LoadDocuments(current, ~showArchived)
        BY <1>3, Zenon DEF ToggleArchived
    <2>2. JobShape(job)' /\ undelivered' \in Nat
        BY <2>1, <1>1, ZenonT(30)
    <2>3. CASE current = NoProject
        BY <2>1, <2>2, <2>3, NoProjectFollows, ZenonT(30)
    <2>4. CASE current # NoProject
        BY <2>1, <2>2, <2>4, <1>1, LoadingFollows, ZenonT(30)
    <2>q. QED
        BY <2>3, <2>4, Zenon
<1>4. ASSUME EventArrives PROVE ListInvariant'
    <2>1. /\ undelivered > 0 /\ undelivered' = undelivered - 1 /\ job' = job
          /\ current' = current /\ showArchived' = showArchived
          /\ IF listing.alias = NoProject THEN listing' = listing /\ loads' = loads
             ELSE LoadDocuments(listing.alias, listing.archived)
        BY <1>4, ZenonT(30) DEF EventArrives
    <2>2. undelivered' \in Nat
        BY <2>1, <1>1
    <2>3. JobShape(job)'
        BY <2>1, <1>1, ZenonT(30)
    <2>4. current # NoProject => listing.alias = current /\ listing.archived = showArchived
        BY Zenon DEF ListInvariant, ListFollows
    <2>5. CASE listing.alias = NoProject
        BY <2>1, <2>2, <2>3, <2>4, <2>5, NoProjectFollows, ZenonT(30)
    <2>6. CASE listing.alias # NoProject
        BY <2>1, <2>2, <2>3, <2>4, <2>6, <1>1, LoadingFollows, ZenonT(30)
    <2>q. QED
        BY <2>5, <2>6, Zenon
<1>q. QED
    BY <1>2, <1>3, <1>4, ZenonT(30)

(* Every step of the dashboard keeps the invariant.                        *)
LEMMA ListStepFollows ==
    ASSUME ListInvariant, [DashNext]_dashVars
    PROVE  ListInvariant'
<1>1. CASE UNCHANGED dashVars
    BY <1>1, QuietFollows, ZenonT(30) DEF dashVars
<1>2. ASSUME \/ \E d \in AllDocs : TogglePath(d)
             \/ \E field \in {"updated", "title"} : SetSort(field)
             \/ \E i \in DOMAIN listing.documents : HighlightRow(i)
             \/ HighlightNext \/ HighlightPrevious \/ ToggleHighlighted
             \/ SelectAllDocuments \/ EscapeDashboard \/ DeleteSelected \/ MoveSelected
      PROVE  ListInvariant'
    <2>1. ListUnchanged
        BY <1>2, ZenonT(30) DEF TogglePath, SetSort, HighlightRow, HighlightNext, HighlightPrevious,
            ToggleHighlighted, SelectAllDocuments, EscapeDashboard, DeleteSelected,
            MoveSelected, OpenDialogFor
    <2>q. QED
        BY <2>1, QuietFollows, ZenonT(30) DEF ListUnchanged
<1>3. ASSUME \/ \E p \in Projects : ConfirmMove(p)
             \/ ArchiveSelected \/ RestoreSelected \/ UndoArchive \/ ConfirmDelete
      PROVE  ListInvariant'
    <2>1. \E kind, paths : StartJob(kind, paths)
        BY <1>3, ZenonT(30) DEF ConfirmMove, ArchiveSelected, RestoreSelected, UndoArchive,
            ConfirmDelete
    <2>2. PICK kind, paths : StartJob(kind, paths)
        BY <2>1, Zenon
    <2>3. job = NoJob /\ job' = [kind |-> kind, todo |-> paths, paths |-> paths, token |-> 0]
        BY <2>2, ZenonT(30) DEF StartJob
    <2>4. JobShape(job') /\ job'.todo = job'.paths
        BY <2>3, Zenon DEF JobShape
    <2>5. UNCHANGED <<library, undelivered, current, showArchived, listing, loads, movedUnheard>>
        BY <2>2, ZenonT(30) DEF StartJob
    <2>q. QED
        BY <2>3, <2>4, <2>5, QuietFollows, ZenonT(30)
<1>q. QED
    BY <1>1, <1>2, <1>3, AskingFollows, ReadFollows, DeliveryFollows, ElsewhereFollows,
       CallFollows, ReloadFollows, ZenonT(30) DEF DashNext

(* When every call has been answered and every event has arrived, the      *)
(* dashboard lists the current project's documents under the current       *)
(* filter: DocumentContext drops every answer but the latest request's,    *)
(* and every change of what is current or of the documents makes one.      *)
THEOREM ListSettles == DashSpec => []ListIsCurrent
<1>1. DashInit => ListInvariant
    BY ListStarts, Zenon
<1>2. ListInvariant /\ [DashNext]_dashVars => ListInvariant'
    BY ListStepFollows, Zenon
<1>3. ListInvariant => ListIsCurrent
    BY FollowingIsCurrent, Zenon
<1>q. QED
    BY <1>1, <1>2, <1>3, PTL DEF DashSpec

---------------------------------------------------------------------------
(* Projects.                                                               *)

(* A set of numbers that is not empty has a least one.                     *)
LEMMA LeastNumber ==
    ASSUME NEW T \in SUBSET Nat, T # {}
    PROVE  \E i \in T : \A j \in T : i <= j
<1>1. PICK i \in T : \A j \in T : ~(<<j, i>> \in OpToRel(<, Nat))
    BY NatLessThanWellFounded, WFMin, ZenonT(30)
<1>2. \A j \in T : ~(j < i)
    BY <1>1, Zenon DEF OpToRel
<1>q. QED
    BY <1>2

(* projects[0]: the first of some projects is one of them.                 *)
LEMMA FirstIsOne ==
    ASSUME NEW S \in SUBSET AllProjects, S # {}
    PROVE  First(S) \in S
<1> DEFINE T == {i \in DOMAIN ProjectOrder : ProjectOrder[i] \in S}
<1>1. DOMAIN ProjectOrder \subseteq Nat
    BY ProjectOrderAssumption
<1>2. T \in SUBSET Nat /\ T # {}
    BY <1>1, Zenon DEF AllProjects, Range
<1>3. PICK i \in T : \A j \in T : i <= j
    BY <1>2, LeastNumber, Zenon
<1>4. \A j \in 1..(i - 1) : ProjectOrder[j] \notin S
    BY <1>3, ProjectOrderAssumption
<1>5. \E p \in S : \E k \in DOMAIN ProjectOrder :
          /\ p = ProjectOrder[k]
          /\ \A j \in 1..(k - 1) : ProjectOrder[j] \notin S
    BY <1>4, ZenonT(30)
<1>q. QED
    BY <1>5, Zenon DEF First

(* The store keeps its fields, and a list that has been read names         *)
(* projects.                                                               *)
ProjectLoadShape(l) ==
    /\ {"n", "active", "archived", "command"} \subseteq DOMAIN l
    /\ l.active = Unread \/ l.active \subseteq AllProjects

StoreFields == {"current", "previous", "projects", "archived", "last", "loading"}

ProjectTypes ==
    /\ StoreFields \subseteq DOMAIN store
    /\ \A l \in projLoads : ProjectLoadShape(l)

(* loadProjects: what delivering the two lists makes current.              *)
LEMMA DoneSettles ==
    ASSUME ProjectTypes, NEW l \in projLoads, LoadDone(l)
    PROVE  /\ store.current \in store'.projects => store'.current = store.current
           /\ store'.current \in store'.projects \/ (store'.current = Nobody /\ store'.projects = {})
           /\ store'.current # Nobody => store'.last = store'.current
<1> PICK new : new = NextCurrent(l.active)
    BY Zenon
<1>1. /\ l.active # Unread
      /\ store' = [store EXCEPT !.projects = l.active, !.archived = l.archived,
                     !.current = new, !.loading = FALSE,
                     !.last = IF new # Nobody THEN new ELSE @]
    BY Zenon DEF LoadDone
<1>2. /\ store'.projects = l.active /\ store'.current = new
      /\ new # Nobody => store'.last = new
    BY <1>1, Zenon DEF ProjectTypes, StoreFields
<1>3. l.active \subseteq AllProjects
    BY <1>1, ZenonT(30) DEF ProjectTypes, ProjectLoadShape
<1>4. l.active # {} => First(l.active) \in l.active
    BY <1>3, FirstIsOne, Zenon
<1>5. /\ store.current \in l.active => new = store.current
      /\ new \in l.active \/ (new = Nobody /\ l.active = {})
    BY <1>4, Zenon DEF NextCurrent, Fallback
<1>q. QED
    BY <1>2, <1>5, ZenonT(30)

(* Asking for the lists, and only that, adds a load.                       *)
LEMMA WithLoadTypes ==
    ASSUME ProjectTypes, NEW command, WithLoad(store, projLoads, command)
    PROVE  ProjectTypes'
<1> PICK l : l = [n |-> 1 + Cardinality(projLoads), active |-> Unread, archived |-> Unread,
                  command |-> command]
    BY Zenon
<1>1. store' = [store EXCEPT !.loading = TRUE] /\ projLoads' = projLoads \cup {l}
    BY Zenon DEF WithLoad
<1>2. ProjectLoadShape(l)
    BY Zenon DEF ProjectLoadShape
<1>3. DOMAIN store' = DOMAIN store
    BY <1>1, Zenon
<1>q. QED
    BY <1>1, <1>2, <1>3, ZenonT(30) DEF ProjectTypes, ProjectLoadShape

(* The two calls of a load answer with what the service holds.             *)
LEMMA ListingTypes ==
    ASSUME ProjectTypes, NEW l \in projLoads, ListActive(l) \/ ListArchived(l)
    PROVE  ProjectTypes'
<1>1. ProjectLoadShape(l)
    BY Zenon DEF ProjectTypes
<1> PICK k : \/ ListActive(l) /\ k = [l EXCEPT !.active = InState("active")]
             \/ ListArchived(l) /\ k = [l EXCEPT !.archived = InState("archived")]
    BY Zenon
<1>2. InState("active") \subseteq AllProjects
    BY Zenon DEF InState
<1>3. ProjectLoadShape(k)
    BY <1>1, <1>2, Zenon DEF ProjectLoadShape
<1>q. QED
    BY <1>3, Zenon DEF ProjectTypes, ProjectLoadShape, ListActive, ListArchived

(* Every step of the page keeps the store's fields.                        *)
LEMMA ProjectStepTypes ==
    ASSUME ProjectTypes, [ProjNext]_projVars
    PROVE  ProjectTypes'
<1>1. ASSUME store' = store, projLoads' = projLoads PROVE ProjectTypes'
    BY <1>1, Zenon DEF ProjectTypes, ProjectLoadShape
<1>2. ASSUME DOMAIN store' = DOMAIN store, projLoads' \subseteq projLoads PROVE ProjectTypes'
    BY <1>2, Zenon DEF ProjectTypes, ProjectLoadShape
<1>3. ASSUME NEW l \in projLoads, LoadDone(l) \/ LoadFails(l) PROVE ProjectTypes'
    <2>1. /\ projLoads' = projLoads \ {l}
          /\ \/ store' = [store EXCEPT !.loading = FALSE]
             \/ \E new : store' = [store EXCEPT !.projects = l.active, !.archived = l.archived,
                                     !.current = new, !.loading = FALSE,
                                     !.last = IF new # Nobody THEN new ELSE @]
        BY <1>3, Zenon DEF LoadDone, LoadFails
    <2>2. DOMAIN store' = DOMAIN store
        BY <2>1, ZenonT(30)
    <2>q. QED
        BY <2>1, <2>2, <1>2, ZenonT(30)
<1>4. ASSUME NEW p \in AllProjects, ChooseProject(p) PROVE ProjectTypes'
    <2>1. /\ projLoads' = projLoads
          /\ store' = [store EXCEPT !.current = p, !.last = p,
                         !.previous = IF store.current \notin {Nobody, p} THEN store.current ELSE @]
        BY <1>4, ZenonT(30) DEF ChooseProject, SetCurrentProject, PageUnchanged
    <2>2. DOMAIN store' = DOMAIN store
        BY <2>1, Zenon
    <2>q. QED
        BY <2>1, <2>2, <1>2, ZenonT(30)
<1>5. ASSUME SwitchToLastProject PROVE ProjectTypes'
    <2>1. /\ projLoads' = projLoads
          /\ store' = [store EXCEPT !.current = store.previous, !.previous = store.current]
        BY <1>5, ZenonT(30) DEF SwitchToLastProject, PageUnchanged
    <2>2. DOMAIN store' = DOMAIN store
        BY <2>1, Zenon
    <2>q. QED
        BY <2>1, <2>2, <1>2, ZenonT(30)
<1>6. ASSUME NEW c \in commands, CommandAnswered(c) PROVE ProjectTypes'
    <2>1. CASE Answer(c)[1] = "done"
        BY <2>1, <1>6, WithLoadTypes, ZenonT(30) DEF CommandAnswered
    <2>2. CASE Answer(c)[1] = "asks"
        BY <2>2, <1>1, <1>6, Zenon DEF CommandAnswered
    <2>3. CASE Answer(c)[1] \notin {"done", "asks"}
        BY <2>3, <1>1, <1>6, Zenon DEF CommandAnswered
    <2>q. QED
        BY <2>1, <2>2, <2>3, ZenonT(30)
<1>7. ASSUME \/ UNCHANGED projVars
             \/ \E p \in AllProjects : \/ SelectArchivedRow(p) \/ OpenRename(p)
                                       \/ HandleCreateProject(p) \/ TypeAlias(p)
             \/ \E step \in {-1, 1} : SelectRow(step)
             \/ \E p \in AllProjects, kind \in {"archive", "unarchive", "delete", "hard"} :
                  ExecuteProjectCommand(kind, p)
             \/ HandleRenameSubmit \/ OpenNewProject \/ CancelDialog
             \/ \E r \in AllProjects \cup {"new"} : RequestManage(r)
             \/ OnConfirm \/ OnCancel
      PROVE  ProjectTypes'
    <2>1. store' = store /\ projLoads' = projLoads
        BY <1>7, ZenonT(30) DEF projVars, SelectArchivedRow, OpenRename, HandleCreateProject, TypeAlias,
            SelectRow, ExecuteProjectCommand, HandleRenameSubmit, OpenNewProject, CancelDialog,
            RequestManage, OnConfirm, OnCancel, PageUnchanged
    <2>q. QED
        BY <2>1, <1>1, Zenon
<1>8. ASSUME ProjectChanged PROVE ProjectTypes'
    BY <1>8, WithLoadTypes, ZenonT(30) DEF ProjectChanged
<1>q. QED
    BY <1>3, <1>4, <1>5, <1>6, <1>7, <1>8, ListingTypes, ZenonT(30) DEF ProjNext

(* Delivering the project lists leaves the user on an active project, the  *)
(* same one if it still is active, and on none only if there is none       *)
(* (loadProjects in project.store.ts), and what is current is remembered.  *)
THEOREM LoadsSettleCurrentProject == ProjSpec => LoadSettlesCurrent
<1> DEFINE Settles(l) ==
        LoadDone(l) =>
          /\ store.current \in store'.projects => store'.current = store.current
          /\ store'.current \in store'.projects \/ (store'.current = Nobody /\ store'.projects = {})
          /\ store'.current # Nobody => store'.last = store'.current
<1>1. ProjInit => ProjectTypes
    <2> SUFFICES ASSUME ProjInit PROVE ProjectTypes
        BY Zenon
    <2>1. PICK last : store = [current |-> Nobody, previous |-> Nobody, projects |-> {},
                               archived |-> {}, last |-> last, loading |-> TRUE]
        BY Zenon DEF ProjInit
    <2>2. projLoads = {[n |-> 1, active |-> Unread, archived |-> Unread, command |-> NoCommand]}
        BY ZenonT(30) DEF ProjInit
    <2>q. QED
        BY <2>1, <2>2, SMTT(30) DEF ProjectTypes, ProjectLoadShape, StoreFields
<1>2. ProjectTypes /\ [ProjNext]_projVars => ProjectTypes'
    BY ProjectStepTypes, Zenon
<1>3. ProjectTypes /\ [ProjNext]_projVars => [\A l \in projLoads : Settles(l)]_projVars
    BY DoneSettles, ZenonT(30)
<1>q. QED
    BY <1>1, <1>2, <1>3, PTL DEF ProjSpec, LoadSettlesCurrent

---------------------------------------------------------------------------
(* The finder.                                                             *)

FinderFields == {"open", "query", "results", "recents", "recentCall", "recentError", "at", "last"}

(* The index is being built exactly while its export is out.               *)
IndexShape(ix) ==
    /\ {"status", "docs", "pending", "timer", "export"} \subseteq DOMAIN ix
    /\ {"state", "docs"} \subseteq DOMAIN ix.export
    /\ ix.export.state \in {"sent", "read"} <=> ix.status = "building"

(* The index has the vault, or something is still to happen to it: an      *)
(* event, the debounce, a request kept for the end of the build, or the    *)
(* reading of the export under way.                                        *)
VaultKnown ==
    \/ vaultEvents > 0
    \/ index.timer
    \/ index.status = "error"
    \/ /\ index.status = "building"
       /\ index.pending \/ index.export.state = "sent" \/ index.export.docs = vault
    \/ index.status = "ready" /\ index.docs = vault

(* While the index is ready the rows are those of a search in it: they are *)
(* computed again whenever the query or the status changes.                *)
RowsAnswer ==
    finder.open /\ index.status = "ready" => finder.results = SearchIn(index.docs, finder.query)

FinderInvariant ==
    /\ vaultEvents \in Nat
    /\ FinderFields \subseteq DOMAIN finder
    /\ IndexShape(index)
    /\ VaultKnown
    /\ RowsAnswer

(* The finder with another list: what matters of Refreshed.                *)
LEMMA RefreshedRows ==
    ASSUME NEW ix, NEW f, FinderFields \subseteq DOMAIN f
    PROVE  /\ FinderFields \subseteq DOMAIN Refreshed(ix, f)
           /\ Refreshed(ix, f).open = f.open /\ Refreshed(ix, f).query = f.query
           /\ Refreshed(ix, f).results =
                  IF f.open /\ (ix.status # index.status \/ f.query # finder.query)
                  THEN SearchIn(ix.docs, f.query) ELSE f.results
<1> PICK again : again = (f.open /\ (ix.status # index.status \/ f.query # finder.query))
    BY Zenon
<1> PICK results : results = IF ~again THEN f.results ELSE SearchIn(ix.docs, f.query)
    BY Zenon
<1> PICK at : at = IF again /\ (f.query # <<>> \/ finder.query # <<>>) THEN 0 ELSE f.at
    BY Zenon
<1>1. Refreshed(ix, f) = [f EXCEPT !.results = results, !.at = at]
    BY Zenon DEF Refreshed
<1>2. /\ FinderFields \subseteq DOMAIN Refreshed(ix, f)
      /\ Refreshed(ix, f).open = f.open /\ Refreshed(ix, f).query = f.query
      /\ Refreshed(ix, f).results = results
    BY <1>1, Zenon DEF FinderFields
<1>q. QED
    BY <1>2, ZenonT(30)

(* The index changes: the open finder searches again if its status did.    *)
LEMMA IndexKeepsRows ==
    ASSUME FinderInvariant, NEW ix, IndexBecomes(ix),
           ix.status = "ready" => index.status # "ready" \/ ix.docs = index.docs
    PROVE  index' = ix /\ FinderFields \subseteq DOMAIN finder' /\ RowsAnswer'
<1>1. index' = ix /\ finder' = Refreshed(ix, finder)
    BY Zenon DEF IndexBecomes
<1>2. FinderFields \subseteq DOMAIN finder /\ RowsAnswer
    BY Zenon DEF FinderInvariant
<1>3. /\ FinderFields \subseteq DOMAIN finder'
      /\ finder'.open = finder.open /\ finder'.query = finder.query
      /\ finder'.results = IF finder.open /\ ix.status # index.status
                           THEN SearchIn(ix.docs, finder.query) ELSE finder.results
    BY <1>1, <1>2, RefreshedRows, ZenonT(30)
<1>q. QED
    BY <1>1, <1>2, <1>3, ZenonT(30) DEF RowsAnswer

(* The finder changes: it searches again if the query did.                 *)
LEMMA FinderKeepsRows ==
    ASSUME FinderInvariant, NEW f, FinderFields \subseteq DOMAIN f, FinderBecomes(f),
           f.open /\ f.query = finder.query =>
               \/ f.results = SearchIn(index.docs, f.query)
               \/ finder.open /\ f.results = finder.results
    PROVE  FinderInvariant'
<1>1. /\ finder' = Refreshed(index, f) /\ vault' = vault /\ vaultEvents' = vaultEvents
      /\ index' = index
    BY Zenon DEF FinderBecomes, indexVars
<1>2. /\ FinderFields \subseteq DOMAIN finder'
      /\ finder'.open = f.open /\ finder'.query = f.query
      /\ finder'.results = IF f.open /\ f.query # finder.query
                           THEN SearchIn(index.docs, f.query) ELSE f.results
    BY <1>1, RefreshedRows, ZenonT(30)
<1>3. RowsAnswer'
    BY <1>1, <1>2, ZenonT(30) DEF FinderInvariant, RowsAnswer
<1>q. QED
    BY <1>1, <1>2, <1>3, ZenonT(30) DEF FinderInvariant, VaultKnown, IndexShape

(* build: a request ends in a build of its own, now or after the one that  *)
(* runs.                                                                   *)
LEMMA BuiltWill ==
    ASSUME NEW ix, IndexShape(ix)
    PROVE  /\ IndexShape(Built(ix)) /\ Built(ix).status = "building"
           /\ Built(ix).pending \/ Built(ix).export.state = "sent"
<1>1. CASE ix.status = "building"
    <2>1. Built(ix) = [ix EXCEPT !.pending = TRUE]
        BY <1>1, ZenonT(30) DEF Built
    <2>q. QED
        BY <2>1, <1>1, Zenon DEF IndexShape
<1>2. CASE ix.status # "building"
    <2>1. Built(ix) = [ix EXCEPT !.status = "building", !.pending = FALSE,
                                 !.export = [state |-> "sent", docs |-> {}]]
        BY <1>2, ZenonT(30) DEF Built
    <2>2. /\ DOMAIN Built(ix) = DOMAIN ix /\ Built(ix).status = "building"
          /\ Built(ix).export = [state |-> "sent", docs |-> {}]
        BY <2>1, Zenon DEF IndexShape
    <2>q. QED
        BY <2>2 DEF IndexShape
<1>q. QED
    BY <1>1, <1>2, Zenon

(* A step that touches neither the index nor the finder.                   *)
LEMMA FinderRests ==
    ASSUME FinderInvariant, vault' = vault, vaultEvents' = vaultEvents, index' = index,
           finder' = finder
    PROVE  FinderInvariant'
BY Zenon DEF FinderInvariant, IndexShape, VaultKnown, RowsAnswer

(* The index changes, and what the vault holds will reach it.              *)
LEMMA IndexKept ==
    ASSUME FinderInvariant, NEW ix, IndexBecomes(ix), IndexShape(ix),
           ix.status = "ready" => index.status # "ready" \/ ix.docs = index.docs,
           vault' = vault, vaultEvents' \in Nat,
           \/ ix.timer
           \/ ix.status = "error"
           \/ ix.status = "building" /\ (ix.pending \/ ix.export.state = "sent")
           \/ ix.status = "ready" /\ (ix.docs = vault \/ vaultEvents' > 0)
    PROVE  FinderInvariant'
<1>1. index' = ix /\ FinderFields \subseteq DOMAIN finder' /\ RowsAnswer'
    BY IndexKeepsRows, ZenonT(30)
<1>2. VaultKnown'
    BY <1>1, ZenonT(30) DEF VaultKnown
<1>q. QED
    BY <1>1, <1>2, ZenonT(30) DEF FinderInvariant, IndexShape

(* A change of the vault is on its way until a rebuild is scheduled.       *)
LEMMA ChangeKept ==
    ASSUME FinderInvariant, NEW d \in SearchDocs, VaultChanges(d)
    PROVE  FinderInvariant'
<1>1. vaultEvents' = vaultEvents + 1 /\ index' = index /\ finder' = finder
    BY Zenon DEF VaultChanges, finderVars
<1>2. vaultEvents \in Nat
    BY Zenon DEF FinderInvariant
<1>3. vaultEvents' \in Nat /\ vaultEvents' > 0
    BY <1>1, <1>2
<1>q. QED
    BY <1>1, <1>3, ZenonT(30) DEF FinderInvariant, IndexShape, VaultKnown, RowsAnswer

(* scheduleRebuild: an event starts the debounce again.                    *)
LEMMA ScheduleKept ==
    ASSUME FinderInvariant, ScheduleRebuild
    PROVE  FinderInvariant'
<1> PICK ix : ix = [index EXCEPT !.timer = TRUE]
    BY Zenon
<1>1. /\ vaultEvents > 0 /\ vaultEvents' = vaultEvents - 1 /\ vault' = vault
      /\ IndexBecomes(ix)
    BY Zenon DEF ScheduleRebuild
<1>2. vaultEvents \in Nat /\ IndexShape(index)
    BY Zenon DEF FinderInvariant
<1>3. vaultEvents' \in Nat
    BY <1>1, <1>2
<1>4. IndexShape(ix) /\ ix.timer /\ ix.docs = index.docs
    BY <1>2, Zenon DEF IndexShape
<1>q. QED
    BY <1>1, <1>3, <1>4, IndexKept, ZenonT(30)

(* The debounce and the button both ask for a build.                       *)
LEMMA BuildAskedKept ==
    ASSUME FinderInvariant, RebuildTimer \/ RebuildIndex
    PROVE  FinderInvariant'
<1>1. PICK ix : /\ ix = index \/ ix = [index EXCEPT !.timer = FALSE]
                /\ IndexBecomes(Built(ix))
    BY Zenon DEF RebuildTimer, RebuildIndex
<1>2. vault' = vault /\ vaultEvents' = vaultEvents
    BY Zenon DEF RebuildTimer, RebuildIndex
<1>3. vaultEvents' \in Nat /\ IndexShape(index)
    BY <1>2, ZenonT(30) DEF FinderInvariant
<1>4. IndexShape(ix)
    BY <1>1, <1>3, Zenon DEF IndexShape
<1>5. /\ IndexShape(Built(ix)) /\ Built(ix).status = "building"
      /\ Built(ix).pending \/ Built(ix).export.state = "sent"
    BY <1>4, BuiltWill, ZenonT(30)
<1>6. Built(ix).status # "ready"
    BY <1>5, Zenon
<1>q. QED
    BY <1>1, <1>2, <1>3, <1>5, <1>6, IndexKept, ZenonT(30)

(* The export reads the vault as it is at that moment.                     *)
LEMMA ExportKept ==
    ASSUME FinderInvariant, ExportIndex
    PROVE  FinderInvariant'
<1>1. /\ index.export.state = "sent" /\ vault' = vault /\ vaultEvents' = vaultEvents
      /\ finder' = finder
      /\ index' = [index EXCEPT !.export = [state |-> "read", docs |-> vault]]
    BY Zenon DEF ExportIndex, finderVars
<1>2. IndexShape(index)
    BY Zenon DEF FinderInvariant
<1>3. index.status = "building"
    BY <1>1, <1>2, Zenon DEF IndexShape
<1>4. /\ DOMAIN index' = DOMAIN index /\ index'.status = "building"
      /\ index'.export = [state |-> "read", docs |-> vault]
    BY <1>1, <1>2, <1>3, Zenon DEF IndexShape
<1>5. IndexShape(index)'
    BY <1>2, <1>4 DEF IndexShape
<1>6. VaultKnown'
    BY <1>1, <1>4 DEF VaultKnown
<1>7. RowsAnswer'
    BY <1>4, Zenon DEF RowsAnswer
<1>q. QED
    BY <1>1, <1>5, <1>6, <1>7, ZenonT(30) DEF FinderInvariant

(* build ends: with the exported documents, or an error, and in another    *)
(* build if one was asked for meanwhile.                                   *)
LEMMA BuildEndKept ==
    ASSUME FinderInvariant, BuildEnds
    PROVE  FinderInvariant'
<1>1. vault' = vault /\ vaultEvents' = vaultEvents
    BY Zenon DEF BuildEnds
<1>2. PICK ix : /\ \/ /\ index.export.state = "read"
                      /\ ix = [index EXCEPT !.status = "ready", !.export = NoExport,
                                            !.docs = index.export.docs]
                   \/ /\ index.export.state = "sent"
                      /\ ix = [index EXCEPT !.status = "error", !.export = NoExport]
                /\ IndexBecomes(Settled(ix))
    BY Zenon DEF BuildEnds
<1>3. IndexShape(index) /\ VaultKnown /\ vaultEvents' \in Nat
    BY <1>1, ZenonT(30) DEF FinderInvariant
<1>4. index.status = "building"
    BY <1>2, <1>3, Zenon DEF IndexShape
<1>5. /\ IndexShape(ix) /\ ix.timer = index.timer /\ ix.pending = index.pending
      /\ \/ ix.status = "ready" /\ ix.docs = index.export.docs /\ index.export.state = "read"
         \/ ix.status = "error"
    <2>1. /\ DOMAIN ix = DOMAIN index /\ ix.timer = index.timer /\ ix.pending = index.pending
          /\ ix.export = [state |-> "none", docs |-> {}]
        BY <1>2, <1>3, ZenonT(30) DEF IndexShape, NoExport
    <2>2. \/ ix.status = "ready" /\ ix.docs = index.export.docs /\ index.export.state = "read"
          \/ ix.status = "error"
        BY <1>2, <1>3, ZenonT(30) DEF IndexShape
    <2>3. IndexShape(ix)
        BY <2>1, <2>2, <1>3, SMTT(30) DEF IndexShape
    <2>q. QED
        BY <2>1, <2>2, <2>3, ZenonT(30)
<1>6. CASE ix.pending
    <2>1. Settled(ix) = Built(ix)
        BY <1>6, Zenon DEF Settled
    <2>2. /\ IndexShape(Built(ix)) /\ Built(ix).status = "building"
          /\ Built(ix).pending \/ Built(ix).export.state = "sent"
        BY <1>5, BuiltWill, ZenonT(30)
    <2>3. Built(ix).status # "ready"
        BY <2>2, Zenon
    <2>q. QED
        BY <2>1, <2>2, <2>3, <1>1, <1>2, <1>3, IndexKept, ZenonT(30)
<1>7. CASE ~ix.pending
    <2>1. Settled(ix) = ix
        BY <1>7, ZenonT(30) DEF Settled
    <2>2. ix.status = "ready" => ix.timer \/ ix.docs = vault \/ vaultEvents' > 0
        BY <1>1, <1>3, <1>4, <1>5, <1>7, Zenon DEF VaultKnown
    <2>3. index.status # "ready"
        BY <1>4, Zenon
    <2>q. QED
        BY <2>1, <2>2, <2>3, <1>1, <1>2, <1>3, <1>5, IndexKept, ZenonT(30)
<1>q. QED
    BY <1>6, <1>7, Zenon

(* What the finder does when it is opened, typed in or moved in, and when  *)
(* the recent documents arrive.                                            *)
LEMMA FinderStepKept ==
    ASSUME FinderInvariant,
           \/ OpenFinder \/ RecentsAnswer \/ RecentsFail \/ RetryRecent
           \/ \E q \in SearchQueries : SetQuery(q)
           \/ \E delta \in {-1, 1} : MoveSelection(delta)
           \/ \E i \in 0..(Len(DocOrder) - 1) : HoverRow(i)
    PROVE  FinderInvariant'
<1> USE DEF FinderFields
<1>1. FinderFields \subseteq DOMAIN finder
    BY Zenon DEF FinderInvariant
<1>2. CASE OpenFinder
    <2> PICK rows : rows = SearchIn(index.docs, finder.last)
        BY Zenon
    <2>1. PICK f : /\ f = [finder EXCEPT !.open = TRUE, !.query = finder.last, !.at = 0,
                              !.results = rows, !.recents = <<>>, !.recentCall = "sent",
                              !.recentError = FALSE]
                   /\ FinderBecomes(f)
        BY <1>2, ZenonT(30) DEF OpenFinder
    <2>2. FinderFields \subseteq DOMAIN f /\ f.results = rows /\ f.query = finder.last
        BY <2>1, <1>1, Zenon
    <2>q. QED
        BY <2>1, <2>2, FinderKeepsRows, ZenonT(30)
<1>3. ASSUME NEW q \in SearchQueries, SetQuery(q) PROVE FinderInvariant'
    <2>1. PICK f : f = [finder EXCEPT !.query = q] /\ FinderBecomes(f) /\ q # finder.query
        BY <1>3, ZenonT(30) DEF SetQuery
    <2>2. FinderFields \subseteq DOMAIN f /\ f.query = q
        BY <2>1, <1>1, Zenon
    <2>q. QED
        BY <2>1, <2>2, FinderKeepsRows, ZenonT(30)
<1>4. ASSUME NEW at, NEW f, f = [finder EXCEPT !.at = at], finder.open, FinderBecomes(f)
      PROVE  FinderInvariant'
    <2>1. FinderFields \subseteq DOMAIN f /\ f.results = finder.results
        BY <1>1, <1>4, Zenon
    <2>q. QED
        BY <2>1, <1>4, FinderKeepsRows, ZenonT(30)
<1>5. ASSUME NEW delta \in {-1, 1}, MoveSelection(delta) PROVE FinderInvariant'
    BY <1>4, <1>5, ZenonT(30) DEF MoveSelection, InFinder
<1>6. ASSUME NEW i \in 0..(Len(DocOrder) - 1), HoverRow(i) PROVE FinderInvariant'
    BY <1>4, <1>6, ZenonT(30) DEF HoverRow, InFinder
<1>7. CASE RecentsAnswer \/ RecentsFail \/ RetryRecent
    <2>1. PICK f, call, recents, at, error :
              /\ \/ f = [finder EXCEPT !.recentCall = call, !.recents = recents, !.at = at]
                 \/ f = [finder EXCEPT !.recentCall = call, !.recentError = error]
              /\ FinderBecomes(f)
        BY <1>7, ZenonT(30) DEF RecentsAnswer, RecentsFail, RetryRecent
    <2>2. /\ FinderFields \subseteq DOMAIN f /\ f.results = finder.results
          /\ f.open = finder.open
        BY <2>1, <1>1, ZenonT(30)
    <2>q. QED
        BY <2>1, <2>2, FinderKeepsRows, ZenonT(30)
<1>q. QED
    BY <1>2, <1>3, <1>5, <1>6, <1>7, ZenonT(30)

(* A closed finder lists nothing.                                          *)
LEMMA CloseKept ==
    ASSUME FinderInvariant, ClosedFinder
    PROVE  FinderInvariant'
<1>1. /\ vault' = vault /\ vaultEvents' = vaultEvents /\ index' = index
      /\ finder' = [finder EXCEPT !.open = FALSE, !.last = finder.query, !.recentCall = "none",
                                  !.query = <<>>, !.results = <<>>, !.recents = <<>>]
    BY Zenon DEF ClosedFinder, indexVars
<1>2. FinderFields \subseteq DOMAIN finder
    BY Zenon DEF FinderInvariant
<1>3. FinderFields \subseteq DOMAIN finder' /\ finder'.open = FALSE
    BY <1>1, <1>2, Zenon DEF FinderFields
<1>q. QED
    BY <1>1, <1>3, ZenonT(30) DEF FinderInvariant, IndexShape, VaultKnown, RowsAnswer

(* Every step of searching keeps the invariant.                            *)
LEMMA SearchStepKept ==
    ASSUME FinderInvariant, [SearchNext]_searchVars
    PROVE  FinderInvariant'
<1>1. CASE UNCHANGED searchVars
    BY <1>1, FinderRests, ZenonT(30) DEF searchVars
<1>2. CASE PageNext
    <2>1. OnSearchPage
        BY <1>2, ZenonT(30) DEF PageNext, TypeQuery, AddFilterToQuery, PageQuery, ClickChip, ClearSearch,
            PerformSearch, LeaveInput, FocusInput, StepRow, OpenResult, QueryServed, QueryAnswers
    <2>q. QED
        BY <2>1, FinderRests, ZenonT(30) DEF OnSearchPage, indexVars, finderVars
<1>3. ASSUME NEW c \in preview.calls, PreviewTimer(c) \/ PreviewAnswers(c) \/ PreviewFails(c)
      PROVE  FinderInvariant'
    <2>1. \E new : PreviewChanges(new)
        BY <1>3, ZenonT(30) DEF PreviewTimer, PreviewAnswers, PreviewFails
    <2>q. QED
        BY <2>1, FinderRests, ZenonT(30) DEF PreviewChanges, indexVars
<1>4. ASSUME CloseFinder \/ \E split \in BOOLEAN : OpenItem(split) PROVE FinderInvariant'
    BY <1>4, CloseKept, ZenonT(30) DEF CloseFinder, OpenItem
<1>q. QED
    BY <1>1, <1>2, <1>3, <1>4, ChangeKept, ScheduleKept, BuildAskedKept, ExportKept,
       BuildEndKept, FinderStepKept, ZenonT(30), ZenonT(30) DEF SearchNext, FinderNext

(* The finder misses nothing (searchIndex.store's build, useDocumentSearch): *)
(* when every change of the vault has been announced, no rebuild is due or *)
(* running and the last one succeeded, its rows are a search of the vault. *)
THEOREM FinderMissesNothing == SearchSpec => []FinderFindsVault
<1>1. SearchInit => FinderInvariant
    <2> SUFFICES ASSUME SearchInit PROVE FinderInvariant
        BY Zenon
    <2>1. /\ vaultEvents = 0
          /\ index = [status |-> "building", docs |-> {}, pending |-> FALSE, timer |-> FALSE,
                      export |-> [state |-> "sent", docs |-> {}]]
          /\ finder = [open |-> FALSE, query |-> <<>>, results |-> <<>>, recents |-> <<>>,
                       recentCall |-> "none", recentError |-> FALSE, at |-> 0, last |-> <<>>]
        BY ZenonT(30) DEF SearchInit
    <2>2. IndexShape(index) /\ VaultKnown
        BY <2>1, Zenon DEF IndexShape, VaultKnown
    <2>3. FinderFields \subseteq DOMAIN finder /\ ~finder.open
        BY <2>1, Zenon DEF FinderFields
    <2>q. QED
        BY <2>1, <2>2, <2>3, Zenon DEF FinderInvariant, RowsAnswer
<1>2. FinderInvariant /\ [SearchNext]_searchVars => FinderInvariant'
    BY SearchStepKept, Zenon
<1>3. FinderInvariant => FinderFindsVault
    <2> SUFFICES ASSUME FinderInvariant, finder.open, vaultEvents = 0, ~index.timer,
                        index.status = "ready"
                 PROVE  finder.results = SearchIn(vault, finder.query)
        BY Zenon DEF FinderFindsVault
    <2>1. index.docs = vault
        BY DEF FinderInvariant, VaultKnown
    <2>q. QED
        BY <2>1, ZenonT(30) DEF FinderInvariant, RowsAnswer
<1>q. QED
    BY <1>1, <1>2, <1>3, PTL DEF SearchSpec
=============================================================================
