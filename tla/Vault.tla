------------------------------- MODULE Vault -------------------------------
(***************************************************************************)
(* One document of the vault: its JSON file, its row in the doc table, its *)
(* entry in the full-text index, and everybody who writes them: the        *)
(* operations of internal/document/service.go and internal/tag/service.go, *)
(* the indexer, the debounced file watcher of internal/indexer/watcher.go, *)
(* git pulls and other programs.  Documents do not interact, so one path is*)
(* modelled.                                                               *)
(*                                                                         *)
(* Every writer writes one version of the file, so a version is named after*)
(* its writer; ComputeFileHash tells versions apart, so a hash is the      *)
(* version itself.  The doc_tag, doc_link and doc_asset rows are           *)
(* written in the transactions that write the doc row and are not kept     *)
(* apart from it.                                                          *)
(***************************************************************************)
EXTENDS Integers, Sequences, FiniteSets

CONSTANTS
    Clients,        \* goroutines that run one operation of a service each
    Externals,      \* writes by other programs
    Slots,          \* timer callbacks of the watcher that may exist at once
    Kinds,          \* the operations clients may run in this instance
    Faults,         \* {"index"}: an index transaction of a Save may fail
    Timely,         \* TRUE: what runs when a timer is armed ends before it fires
    ErrorsCap,      \* capacity of Watcher.errors, which nobody reads
    MaxRestarts,    \* how often the application may stop
    Original,       \* the writer of the version found at the start
    None, Corrupt

ASSUME VaultAssumption ==
    /\ Clients \cap (Externals \cup {Original}) = {}
    /\ Clients \cap Slots = {}
    /\ Original \notin Externals
    /\ {None, Corrupt} \cap (Clients \cup Externals \cup Slots \cup {Original}) = {}
    /\ None # Corrupt
    /\ None \notin [ver : Clients \cup Externals \cup {Original}, archived : BOOLEAN]
    /\ Kinds \subseteq {"create", "save", "update", "tag", "move", "archive",
                        "archiveProject", "restore", "delete", "purge", "list",
                        "reindex", "pull"}
    /\ Timely \in BOOLEAN
    /\ ErrorsCap \in Nat
    /\ MaxRestarts \in Nat

VARIABLES
    disk,           \* the file: a version, Corrupt (unparsable) or None
    row,            \* the doc row: [ver, archived] or None
    fts,            \* the version in fts_doc, or None
    saveMu,         \* Service.saveMu: its holder or None
    pc, kind,       \* step and operation of each client
    view,           \* the version an operation works on
    got,            \* the version IndexDocument has read and not yet committed
    events,         \* file system events not yet taken by the event loop
    timer,          \* state of each timer callback
    debounce,       \* Watcher.debounce[path]: a slot or None
    reconciled,     \* Watcher.reconciledHashes[path]: a version or None
    errors,         \* number of errors in Watcher.errors
    app,            \* "up", "closing", "down" or "scan"
    restarts,
    external,       \* state of each external write: "idle", "half" or "done"
    raced           \* history: the index was left out of date unseen

indexVars == <<row, fts>>
clientVars == <<saveMu, pc, kind, view, got>>
watchVars == <<timer, debounce, reconciled, errors>>
appVars == <<app, restarts>>
vars == <<disk, indexVars, clientVars, events, watchVars, appVars, external, raced>>

Version == Clients \cup Externals \cup {Original}

AllKinds == {"create", "save", "update", "tag", "move", "archive", "archiveProject",
             "restore", "delete", "purge", "list", "reindex", "pull"}
ClientSteps == {"idle", "loaded", "write", "note", "index", "tx", "undo", "unfile",
                "unrow", "prune", "unindex", "forget", "done"}
TimerSteps == {"free", "armed", "read", "tx", "remove", "blocked", "finish"}
Timer == [step : TimerSteps, op : {"write", "remove"}, hash : Version \cup {None},
          got : Version \cup {None}, waits : SUBSET (Clients \cup Slots)]
FreeTimer == [step |-> "free", op |-> "write", hash |-> None, got |-> None, waits |-> {}]

FileTypeOK ==
    /\ disk \in Version \cup {Corrupt, None}
    /\ events \in Seq({"write", "remove"})
    /\ external \in [Externals -> {"idle", "half", "done"}]

IndexTypeOK ==
    /\ row \in [ver : Version, archived : BOOLEAN] \cup {None}
    /\ fts \in Version \cup {None}

ClientTypeOK ==
    /\ saveMu \in Clients \cup {None}
    /\ pc \in [Clients -> ClientSteps]
    /\ kind \in [Clients -> AllKinds \cup {None}]
    /\ view \in [Clients -> Version \cup {None}]
    /\ got \in [Clients -> Version \cup {None}]

WatchTypeOK ==
    /\ timer \in [Slots -> Timer]
    /\ debounce \in Slots \cup {None}
    /\ reconciled \in Version \cup {None}
    /\ errors \in 0..ErrorsCap

AppTypeOK ==
    /\ app \in {"up", "closing", "down", "scan"}
    /\ restarts \in 0..MaxRestarts
    /\ raced \in BOOLEAN

TypeOK == FileTypeOK /\ IndexTypeOK /\ ClientTypeOK /\ WatchTypeOK /\ AppTypeOK

\* A vault whose document was indexed by the scan at the start, or one in which
\* the document is yet to be created.
Init ==
    /\ \/ disk = Original /\ row = [ver |-> Original, archived |-> FALSE]
       \/ disk = None /\ row = None
    /\ fts = IF row = None THEN None ELSE row.ver
    /\ saveMu = None
    /\ pc = [p \in Clients |-> "idle"]
    /\ kind = [p \in Clients |-> None]
    /\ view = [p \in Clients |-> None]
    /\ got = [p \in Clients |-> None]
    /\ events = <<>>
    /\ timer = [w \in Slots |-> FreeTimer]
    /\ debounce = None
    /\ reconciled = None
    /\ errors = 0
    /\ app = "up"
    /\ restarts = 0
    /\ external = [x \in Externals |-> "idle"]
    /\ raced = FALSE

----------------------------------------------------------------------------
(* Files and index. *)

Readable == disk \in Version
Active == row # None /\ ~row.archived
Archived == row # None /\ row.archived
DbOpen == app # "closing"

\* Version v is in the index, as far as an archived document is kept there.
Indexed(v) == Archived \/ (Active /\ row.ver = v /\ fts = v)

\* The watcher has recorded the hash of v, or a callback is about to.
Noted(v) ==
    \/ reconciled = v
    \/ \E w \in Slots : timer[w].step = "finish" /\ timer[w].hash = v

\* What is on disk has been indexed or noted: the watcher need not look again.
Settled == Indexed(disk) \/ Noted(disk)

\* fsnotify delivers an event to a running watcher; a repeated one adds nothing.
Emitted(op) ==
    IF app # "up" \/ (events # <<>> /\ events[Len(events)] = op)
    THEN events ELSE Append(events, op)

\* writeFileAtomic: the version appears as a whole.
WriteFile(v) == disk' = v /\ events' = Emitted("write")

DeleteFile ==
    /\ disk' = None
    /\ events' = IF disk = None THEN events ELSE Emitted("remove")

\* MUTANT of IndexTx: the full-text entry is not replaced.
IndexTxTable(v) ==
    IF row # None /\ row.archived
    THEN UNCHANGED indexVars
    ELSE row' = [ver |-> v, archived |-> FALSE] /\ fts' = IF fts = None THEN v ELSE fts

\* The transaction of IndexDocument: archived rows are left alone.
IndexTx(v) ==
    IF row # None /\ row.archived
    THEN UNCHANGED indexVars
    ELSE row' = [ver |-> v, archived |-> FALSE] /\ fts' = v

----------------------------------------------------------------------------
(* Clients: the operations of the document and tag services. *)

\* What a client's step leaves alone besides disk, events, the index, reconciled.
Outside == UNCHANGED <<timer, debounce, errors, appVars, external>>

Step(p, from, to) == pc[p] = from /\ pc' = [pc EXCEPT ![p] = to]

\* The locals of a call go out of scope when it returns, and so does saveMu.
Return(p) ==
    /\ pc' = [pc EXCEPT ![p] = "done"]
    /\ view' = [view EXCEPT ![p] = None]
    /\ got' = [got EXCEPT ![p] = None]
    /\ saveMu' = IF saveMu = p THEN None ELSE saveMu
    /\ UNCHANGED kind

\* A client starts operation k.
Begin(p, k, to) ==
    /\ app = "up" /\ k \in Kinds
    /\ Step(p, "idle", to)
    /\ kind' = [kind EXCEPT ![p] = k]

\* Get: the editor, or update_document of the MCP server, reads the document.
Load(p) ==
    /\ \E k \in {"save", "update"} : Begin(p, k, "loaded")
    /\ row # None /\ Readable
    /\ view' = [view EXCEPT ![p] = disk]
    /\ UNCHANGED <<disk, indexVars, saveMu, got, events, reconciled, raced>>
    /\ Outside

\* MUTANT of SaveChecks: ExpectedHash is not compared.
SaveChecksUnhashed(p) == Readable

\* Save's checks of an existing document; only the editor sends ExpectedHash.
SaveChecks(p) == Readable /\ (kind[p] = "save" => disk = view[p])

\* Save up to the write: take saveMu, read the existing file, compare hashes.
SaveBegin(p) ==
    /\ saveMu = None
    /\ pc[p] = "loaded"
    /\ app # "down"
    /\ \/ SaveChecks(p) /\ Step(p, "loaded", "write") /\ saveMu' = p
          /\ UNCHANGED <<kind, view, got>>
       \/ ~SaveChecks(p) /\ Return(p)
    /\ UNCHANGED <<disk, indexVars, events, reconciled, raced>>
    /\ Outside

\* A path nobody has used, as the identifier in a new document's path gives it.
FreshPath ==
    /\ disk = None /\ row = None
    /\ \A q \in Clients : kind[q] \in {None, "reindex"}
    /\ \A x \in Externals : external[x] = "idle"

\* Save of a document that has no path yet.
SaveNew(p) ==
    /\ saveMu = None
    /\ FreshPath
    /\ Begin(p, "create", "write")
    /\ saveMu' = p
    /\ view' = [view EXCEPT ![p] = Original]
    /\ UNCHANGED <<disk, indexVars, got, events, reconciled, raced>>
    /\ Outside

\* MoveToProject: saveMu, the file and the active row are read.
MoveBegin(p) ==
    /\ saveMu = None
    /\ Readable /\ Active
    /\ Begin(p, "move", "write")
    /\ saveMu' = p
    /\ view' = [view EXCEPT ![p] = disk]
    /\ UNCHANGED <<disk, indexVars, got, events, reconciled, raced>>
    /\ Outside

\* AddTagsToDocument and its siblings: UpdateFile reads the file, without saveMu.
TagBegin(p) ==
    /\ Readable
    /\ Begin(p, "tag", "write")
    /\ view' = [view EXCEPT ![p] = disk]
    /\ UNCHANGED <<disk, indexVars, saveMu, got, events, reconciled, raced>>
    /\ Outside

NextOfWrite(k) == IF k = "move" THEN "index" ELSE "note"

\* WriteFile of Save, MoveToProject and UpdateFile.
Write(p) ==
    /\ pc[p] = "write"
    /\ WriteFile(p)
    /\ IF kind[p] = "tag"
       THEN Return(p)
       ELSE Step(p, "write", NextOfWrite(kind[p])) /\ UNCHANGED <<saveMu, kind, view, got>>
    /\ UNCHANGED <<indexVars, reconciled, raced>>
    /\ Outside

\* Save reads the file back and tells the watcher its hash.
NoteAppWrite(p) ==
    /\ Step(p, "note", "index")
    /\ reconciled' = IF Readable THEN disk ELSE reconciled
    /\ UNCHANGED <<disk, indexVars, saveMu, kind, view, got, events, raced>>
    /\ Outside

Saving(p) == kind[p] \in {"create", "save", "update"}

\* An index call of a client failed: Save deletes the file, the others return.
IndexFails(p) ==
    /\ IF Saving(p)
       THEN pc' = [pc EXCEPT ![p] = "undo"] /\ UNCHANGED <<saveMu, kind, view, got>>
       ELSE Return(p)
    /\ UNCHANGED <<indexVars, raced>>

\* IndexDocument, first half: the file is read before the transaction begins.
IndexRead(p) ==
    /\ pc[p] = "index"
    /\ \/ /\ Readable
          /\ pc' = [pc EXCEPT ![p] = "tx"]
          /\ got' = [got EXCEPT ![p] = disk]
          /\ UNCHANGED <<saveMu, kind, view, indexVars, raced>>
       \/ ~Readable /\ IndexFails(p)
    /\ UNCHANGED <<disk, events, reconciled>>
    /\ Outside

\* IndexDocument, second half: the transaction.
IndexCommit(p) ==
    /\ pc[p] = "tx"
    /\ \/ /\ DbOpen
          /\ IndexTx(got[p])
          /\ raced' = (raced \/ (got[p] # disk /\ Settled /\ ~Archived))
          /\ Return(p)
       \/ (~DbOpen \/ (Saving(p) /\ "index" \in Faults)) /\ IndexFails(p)
    /\ UNCHANGED <<disk, events, reconciled>>
    /\ Outside

\* Save removes the file it has just written.
UndoSave(p) ==
    /\ pc[p] = "undo"
    /\ DeleteFile
    /\ Return(p)
    /\ UNCHANGED <<indexVars, reconciled, raced>>
    /\ Outside

\* SoftDelete marks the row, then RemoveDocument drops the full-text entry;
\* SoftDeleteByProject marks the row only.
Archive(p) ==
    /\ Active
    /\ \/ Begin(p, "archive", "unindex") \/ Begin(p, "archiveProject", "done")
    /\ row' = [ver |-> row.ver, archived |-> TRUE]
    /\ UNCHANGED <<disk, fts, saveMu, view, got, events, reconciled, raced>>
    /\ Outside

\* Restore unmarks the row and reindexes, without saveMu.
Restore(p) ==
    /\ row # None /\ row.archived
    /\ Begin(p, "restore", "index")
    /\ row' = [ver |-> row.ver, archived |-> FALSE]
    /\ UNCHANGED <<disk, fts, saveMu, view, got, events, reconciled, raced>>
    /\ Outside

\* HardDelete finds an active row, then deletes file, row and full-text entry;
\* HardDeleteBatch deletes the row, archived or not, before the file.
HardDelete(p) ==
    /\ \/ Active /\ Begin(p, "delete", "unfile") /\ UNCHANGED row
       \/ row # None /\ Begin(p, "purge", "unfile") /\ row' = None
    /\ UNCHANGED <<disk, fts, saveMu, view, got, events, reconciled, raced>>
    /\ Outside

HardDeleteFile(p) ==
    /\ Step(p, "unfile", IF kind[p] = "purge" THEN "unindex" ELSE "unrow")
    /\ DeleteFile
    /\ UNCHANGED <<indexVars, saveMu, kind, view, got, reconciled, raced>>
    /\ Outside

HardDeleteRow(p) ==
    /\ pc[p] = "unrow"
    /\ \/ DbOpen /\ row # None /\ row' = None /\ Step(p, "unrow", "unindex")
          /\ raced' = (raced \/ disk # None)
          /\ UNCHANGED <<saveMu, kind, view, got>>
       \/ (row = None \/ ~DbOpen) /\ Return(p) /\ UNCHANGED <<row, raced>>
    /\ UNCHANGED <<disk, fts, events, reconciled>>
    /\ Outside

\* RemoveDocument
Unindex(p) ==
    /\ pc[p] = "unindex"
    /\ fts' = IF DbOpen THEN None ELSE fts
    /\ raced' = (raced \/ (disk # None /\ ~(row # None /\ row.archived)))
    /\ Return(p)
    /\ UNCHANGED <<disk, row, events, reconciled>>
    /\ Outside

\* ListByProject prunes the row of a file it did not find.
List(p) ==
    /\ row # None
    /\ Begin(p, "list", IF disk = None THEN "prune" ELSE "done")
    /\ UNCHANGED <<disk, indexVars, saveMu, view, got, events, reconciled, raced>>
    /\ Outside

Prune(p) ==
    /\ pc[p] = "prune"
    /\ \/ DbOpen /\ row # None /\ row' = None /\ Step(p, "prune", "unindex")
          /\ raced' = (raced \/ disk # None)
          /\ UNCHANGED <<saveMu, kind, view, got>>
       \/ (row = None \/ ~DbOpen) /\ Return(p) /\ UNCHANGED <<row, raced>>
    /\ UNCHANGED <<disk, fts, events, reconciled>>
    /\ Outside

\* ReindexDatabase: ClearIndex, then the scan comes to this document.
Reindex(p) ==
    /\ Begin(p, "reindex", "index")
    /\ row' = None /\ fts' = None
    /\ UNCHANGED <<disk, saveMu, view, got, events, reconciled, raced>>
    /\ Outside

\* A git pull adds or changes the file, and ReindexPaths indexes it; or it
\* removes the file, and ReindexPaths drops it from the index.
Pull(p) ==
    /\ disk # Corrupt
    /\ \/ Begin(p, "pull", "index") /\ WriteFile(p)
       \/ disk # None /\ Begin(p, "pull", "forget") /\ DeleteFile
    /\ UNCHANGED <<indexVars, saveMu, view, got, reconciled, raced>>
    /\ Outside

Forget(p) ==
    /\ pc[p] = "forget"
    /\ IF DbOpen
       THEN row' = None /\ fts' = None /\ raced' = (raced \/ disk # None)
       ELSE UNCHANGED <<indexVars, raced>>
    /\ Return(p)
    /\ UNCHANGED <<disk, events, reconciled>>
    /\ Outside

----------------------------------------------------------------------------
(* The watcher. *)

\* What a step of the watcher leaves alone besides the index and raced.
Watching == UNCHANGED <<disk, clientVars, appVars, external>>

Running(w) == timer[w].step \in {"read", "tx", "remove", "finish"}
InCall(p) == pc[p] \notin {"idle", "loaded", "done"}
UnderWay == {p \in Clients : InCall(p)} \cup {w \in Slots : Running(w)}

ArmedTimer(op) ==
    [step |-> "armed", op |-> op, hash |-> None, got |-> None, waits |-> UnderWay]

\* handleEvent, scheduleIndexing: the timer in the map is stopped if it has not
\* fired, and a new one takes its place.
HandleEvent ==
    /\ app = "up" /\ events # <<>>
    /\ events' = Tail(events)
    /\ LET stopped == {w \in Slots : w = debounce /\ timer[w].step = "armed"}
           free == {w \in Slots : timer[w].step = "free"} \cup stopped
       IN \E w \in free :
             /\ timer' = [v \in Slots |->
                            IF v = w
                            THEN ArmedTimer(Head(events))
                            ELSE IF v \in stopped THEN FreeTimer ELSE timer[v]]
             /\ debounce' = w
    /\ UNCHANGED <<indexVars, reconciled, errors, raced>>
    /\ Watching

\* The timer callback returns and deletes the map's entry, whichever it is.
CallbackEnds(w) ==
    /\ timer' = [v \in Slots |-> IF v = w THEN FreeTimer
                                 ELSE [timer[v] EXCEPT !.waits = @ \ {w}]]
    /\ debounce' = None

\* The 500 ms have passed, in which what was under way has ended.
Elapsed(w) == Timely => timer[w].waits \cap UnderWay = {}

\* MUTANT of SelfWrite: a suppression flag instead of a hash.
SelfWriteFlag == reconciled # None

\* isReconciled, of the hash diskContentHash could read
SelfWrite == Readable /\ reconciled = disk

\* executeIndexing: a removal forgets the hash, a write is compared with it.
TimerFires(w) ==
    /\ timer[w].step = "armed" /\ app # "down"
    /\ Elapsed(w)
    /\ \/ /\ timer[w].op = "remove"
          /\ reconciled' = None
          /\ timer' = [timer EXCEPT ![w].step = "remove"]
          /\ UNCHANGED debounce
       \/ /\ timer[w].op = "write" /\ SelfWrite
          /\ CallbackEnds(w)
          /\ UNCHANGED reconciled
       \/ /\ timer[w].op = "write" /\ ~SelfWrite
          /\ timer' = [timer EXCEPT ![w].step = "read",
                                    ![w].hash = IF Readable THEN disk ELSE None]
          /\ UNCHANGED <<reconciled, debounce>>
    /\ UNCHANGED <<indexVars, events, errors, raced>>
    /\ Watching

\* MUTANT of SendError: the channel has no limit.
SendErrorUnbounded(w) ==
    errors' = errors + 1 /\ timer' = [timer EXCEPT ![w].step = "finish"]

\* w.errors <- err: blocks for good once the channel is full.
SendError(w) ==
    \/ /\ errors < ErrorsCap
       /\ errors' = errors + 1
       /\ timer' = [timer EXCEPT ![w].step = "finish"]
    \/ /\ errors = ErrorsCap
       /\ timer' = [v \in Slots |-> IF v = w THEN [timer[v] EXCEPT !.step = "blocked"]
                                    ELSE [timer[v] EXCEPT !.waits = @ \ {w}]]
       /\ UNCHANGED errors

CallbackRead(w) ==
    /\ timer[w].step = "read"
    /\ \/ /\ Readable
          /\ timer' = [timer EXCEPT ![w].step = "tx", ![w].got = disk]
          /\ UNCHANGED errors
       \/ ~Readable /\ SendError(w)
    /\ UNCHANGED <<indexVars, events, debounce, reconciled, raced>>
    /\ Watching

\* The callback indexes what is no longer on disk, and no later callback will
\* notice: it is about to record the hash of what is on disk; or that is settled,
\* and the callback did not see the version it indexes when it took the hash, or
\* another callback runs beside it.
Overtaken(w) ==
    /\ timer[w].got # disk /\ ~Archived
    /\ \/ timer[w].hash = disk
       \/ /\ Settled
          /\ timer[w].got # timer[w].hash \/ \E v \in Slots \ {w} : Running(v)

CallbackCommit(w) ==
    /\ timer[w].step = "tx"
    /\ \/ /\ DbOpen
          /\ IndexTx(timer[w].got)
          /\ timer' = [timer EXCEPT ![w].step = "finish"]
          /\ raced' = (raced \/ Overtaken(w))
          /\ UNCHANGED errors
       \/ ~DbOpen /\ SendError(w) /\ UNCHANGED <<indexVars, raced>>
    /\ UNCHANGED <<events, debounce, reconciled>>
    /\ Watching

\* RemoveDocumentCompletely
CallbackRemove(w) ==
    /\ timer[w].step = "remove"
    /\ \/ DbOpen /\ row' = None /\ fts' = None /\ CallbackEnds(w) /\ UNCHANGED errors
          /\ raced' = (raced \/ (Readable /\ Settled))
       \/ ~DbOpen /\ UNCHANGED <<indexVars, debounce, raced>> /\ SendError(w)
    /\ UNCHANGED <<events, reconciled>>
    /\ Watching

\* setReconciled and, unless the file was removed, Emit(EntryExternalChange).
CallbackReport(w) ==
    /\ timer[w].step = "finish"
    /\ CallbackEnds(w)
    /\ reconciled' = IF timer[w].hash = None THEN reconciled ELSE timer[w].hash
    /\ UNCHANGED <<indexVars, events, errors, raced>>
    /\ Watching

----------------------------------------------------------------------------
(* Other programs, start and stop. *)

\* Another program replaces the file, puts the first version back (which the
\* watcher takes for known when it has recorded its hash), removes the file, or
\* begins to write it in place.
ExternalChange(x) ==
    /\ external[x] = "idle"
    /\ \/ /\ Readable
          /\ WriteFile(x)
          /\ external' = [external EXCEPT ![x] = "done"]
          /\ raced' = (raced \/ app = "scan")
       \/ /\ disk # Original /\ row # None
          /\ WriteFile(Original)
          /\ external' = [external EXCEPT ![x] = "done"]
          /\ raced' = (raced \/ app = "scan" \/ (Noted(Original) /\ ~Indexed(Original)))
       \/ /\ disk # None
          /\ DeleteFile
          /\ external' = [external EXCEPT ![x] = "done"]
          /\ raced' = (raced \/ app = "scan")
       \/ /\ Readable
          /\ disk' = Corrupt /\ events' = Emitted("write")
          /\ external' = [external EXCEPT ![x] = "half"]
          /\ raced' = (raced \/ app = "scan")
    /\ UNCHANGED <<indexVars, clientVars, watchVars, appVars>>

\* ... and finishes to write it, unless the file was deleted or replaced.
ExternalFinish(x) ==
    /\ external[x] = "half"
    /\ external' = [external EXCEPT ![x] = "done"]
    /\ IF disk = Corrupt
       THEN WriteFile(x)
       ELSE UNCHANGED <<disk, events>>
    /\ raced' = (raced \/ app = "scan")
    /\ UNCHANGED <<indexVars, clientVars, watchVars, appVars>>

\* App.Shutdown: the watcher stops, with the timer its map holds; then the
\* database is closed.  Service calls under way go on.
Shutdown ==
    /\ app = "up" /\ restarts < MaxRestarts
    /\ app' = "closing"
    /\ timer' = [w \in Slots |-> IF w = debounce /\ timer[w].step = "armed"
                                 THEN FreeTimer ELSE timer[w]]
    /\ debounce' = None
    /\ events' = <<>>
    /\ UNCHANGED <<disk, indexVars, clientVars, reconciled, errors, restarts, external, raced>>

\* os.Exit, or a crash.
Exit ==
    /\ app \in {"up", "closing"} /\ restarts < MaxRestarts
    /\ restarts' = restarts + 1
    /\ app' = "down"
    /\ saveMu' = None
    /\ pc' = [p \in Clients |-> IF pc[p] = "idle" THEN "idle" ELSE "done"]
    /\ view' = [p \in Clients |-> None] /\ got' = [p \in Clients |-> None]
    /\ events' = <<>>
    /\ timer' = [w \in Slots |-> FreeTimer]
    /\ debounce' = None /\ reconciled' = None /\ errors' = 0
    /\ UNCHANGED <<disk, indexVars, kind, external, raced>>

\* app.New: ScanAndIndexVault ...
StartScan ==
    /\ app = "down"
    /\ app' = "scan"
    /\ IF Readable THEN IndexTx(disk) ELSE UNCHANGED indexVars
    /\ UNCHANGED <<disk, clientVars, events, watchVars, restarts, external, raced>>

\* ... and only then Watcher.Start: changes in between go unseen.
StartWatching ==
    /\ app = "scan"
    /\ app' = "up"
    /\ UNCHANGED <<disk, indexVars, clientVars, events, watchVars, restarts, external, raced>>

----------------------------------------------------------------------------

ClientStep(p) ==
    \/ Load(p) \/ SaveBegin(p) \/ SaveNew(p) \/ MoveBegin(p) \/ TagBegin(p)
    \/ Write(p) \/ NoteAppWrite(p) \/ IndexRead(p) \/ IndexCommit(p) \/ UndoSave(p)
    \/ Archive(p) \/ Restore(p)
    \/ HardDelete(p) \/ HardDeleteFile(p) \/ HardDeleteRow(p) \/ Unindex(p)
    \/ List(p) \/ Prune(p) \/ Reindex(p) \/ Pull(p) \/ Forget(p)

CallbackStep(w) ==
    \/ TimerFires(w) \/ CallbackRead(w) \/ CallbackCommit(w)
    \/ CallbackRemove(w) \/ CallbackReport(w)

Next ==
    \/ \E p \in Clients : ClientStep(p)
    \/ HandleEvent
    \/ \E w \in Slots : CallbackStep(w)
    \/ \E x \in Externals : ExternalChange(x) \/ ExternalFinish(x)
    \/ Shutdown \/ Exit \/ StartScan \/ StartWatching

Spec == Init /\ [][Next]_vars

----------------------------------------------------------------------------
(* Properties. *)

Quiet ==
    /\ app = "up" /\ events = <<>>
    /\ \A p \in Clients : ~InCall(p)
    /\ \A w \in Slots : timer[w].step \in {"free", "blocked"}

\* Once everything has settled, the doc row and the full-text index of a readable
\* document hold what is on disk, unless it is archived, whatever saves, moves,
\* tag updates, watcher callbacks and other programs did.  The exceptions (raced)
\* are an index call without saveMu that commits what is no longer on disk, and a
\* program that puts back a version whose hash the watcher has recorded although
\* the index holds another.  It rests on Save's read-back hash and on the
\* watcher's order of indexing first and recording the hash afterwards.
IndexAgreesWhenQuiet ==
    (Quiet /\ ~raced /\ Readable) =>
        /\ row # None
        /\ ~row.archived => row.ver = disk /\ fts = disk

\* What a Save that sends ExpectedHash, or a MoveToProject, overwrites is the
\* version it has checked, unless one of the writers that do not take saveMu (a
\* tag update, a pull, another program) came between: never what another Save or
\* move has written.
OverwritesOnlyWhatItChecked ==
    [][\A p \in Clients :
          (pc[p] = "write" /\ pc'[p] # "write" /\ kind[p] \in {"save", "move"}
             /\ Readable)
              => \/ disk = view[p]
                 \/ disk \in Clients => kind[disk] \in {"tag", "pull"}]_vars

\* The two halves of the index never show two versions: where the doc table and
\* the full-text index both know the document, they know the same version, since
\* every transaction that changes one of them to a version changes the other.
SearchMatchesTable ==
    (row # None /\ fts # None) => row.ver = fts

\* "so the app never sees a phantom external-change for its own saves"
\* (NoteAppWrite): what executeIndexing reports as an external change was not
\* written by Save.
NoPhantomChange ==
    [][\A w \in Slots :
          (timer[w].step = "finish" /\ timer'[w].step = "free" /\ timer[w].hash # None)
              => \/ timer[w].hash \notin Clients
                 \/ kind[timer[w].hash] \in {"tag", "move", "pull"}]_vars

\* "No data loss if database corrupts" (GUIDELINES.md): a Save of an existing
\* document never ends with the document gone, whatever the database does.
SaveKeepsDocument ==
    [][\A p \in Clients :
          (kind[p] \in {"save", "update"} /\ pc[p] # "done" /\ pc'[p] = "done"
             /\ disk # None) => disk' # None]_vars
============================================================================
