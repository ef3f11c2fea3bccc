---------------------------- MODULE VaultProofs ----------------------------
(***************************************************************************)
(* Proofs about Vault, for any number of clients, timers, other programs   *)
(* and restarts: its type invariant, the agreement of the two halves of the*)
(* index, that a hash-checked save overwrites only what it checked, and    *)
(* that the index agrees with the file once everything is at rest.         *)
(***************************************************************************)
EXTENDS Vault, TLAPS

\* Who is about to commit an index transaction has read a version.
GotInv ==
    /\ \A p \in Clients : pc[p] = "tx" => got[p] \in Version
    /\ \A w \in Slots : timer[w].step = "tx" => timer[w].got \in Version

\* From its checks to the end of its index transaction, a Save or a move.
InSaveSection(p) ==
    /\ kind[p] \in {"create", "save", "update", "move"}
    /\ pc[p] \in {"write", "note", "index", "tx", "undo"}

\* That section is entered by the holder of saveMu only, and every other
\* writer that has read the file is a tag update; a document is loaded to be
\* saved or updated.
LockInv ==
    /\ \A p \in Clients : InSaveSection(p) => saveMu = p
    /\ \A p \in Clients : pc[p] = "write" => InSaveSection(p) \/ kind[p] = "tag"
    /\ \A p \in Clients : pc[p] = "loaded" => kind[p] \in {"save", "update"}

\* Who wrote the file has begun its operation, so its kind will not change.
WriterInv == disk \in Clients => pc[disk] # "idle"

\* The file is what the checks saw, or was written by someone without saveMu.
CheckInv ==
    \A p \in Clients :
        (pc[p] = "write" /\ kind[p] \in {"save", "move"} /\ disk \in Version)
            => disk = view[p] \/ (disk \in Clients => kind[disk] \in {"tag", "pull"})

\* Steps keep the type of what clients hold.
LEMMA ClientTypeStep ==
    ClientTypeOK /\ FileTypeOK /\ [Next]_vars => ClientTypeOK'
<1> SUFFICES ASSUME ClientTypeOK, FileTypeOK, [Next]_vars
             PROVE  ClientTypeOK'
  BY Zenon
<1> USE VaultAssumption
<1>1. ASSUME NEW p \in Clients, Load(p) PROVE ClientTypeOK'
  BY <1>1 DEF Load, Begin, Readable, Outside, Step, ClientTypeOK, ClientSteps,
     AllKinds
<1>2. ASSUME NEW p \in Clients, SaveBegin(p) PROVE ClientTypeOK'
  BY <1>2, Zenon DEF SaveBegin, Step, Return, Outside, ClientTypeOK, ClientSteps, AllKinds
<1>3. ASSUME NEW p \in Clients, SaveNew(p) PROVE ClientTypeOK'
  BY <1>3, Zenon DEF SaveNew, Begin, Outside, Step, Version, ClientTypeOK, ClientSteps,
     AllKinds
<1>4. ASSUME NEW p \in Clients, MoveBegin(p) PROVE ClientTypeOK'
  BY <1>4, Zenon DEF MoveBegin, Begin, Readable, Outside, Step, ClientTypeOK, ClientSteps,
     AllKinds
<1>5. ASSUME NEW p \in Clients, TagBegin(p) PROVE ClientTypeOK'
  BY <1>5, Zenon DEF TagBegin, Begin, Readable, Outside, Step, ClientTypeOK, ClientSteps,
     AllKinds
<1>6. ASSUME NEW p \in Clients, Write(p) PROVE ClientTypeOK'
  BY <1>6 DEF Write, Step, Return, NextOfWrite, Outside, ClientTypeOK, ClientSteps,
     AllKinds
<1>7. ASSUME NEW p \in Clients, NoteAppWrite(p) PROVE ClientTypeOK'
  BY <1>7, Zenon DEF NoteAppWrite, Step, Readable, Outside, ClientTypeOK, ClientSteps,
     AllKinds
<1>8. ASSUME NEW p \in Clients, IndexRead(p) PROVE ClientTypeOK'
  BY <1>8 DEF IndexRead, IndexFails, Readable, Outside, Return, ClientTypeOK,
     ClientSteps, AllKinds
<1>9. ASSUME NEW p \in Clients, IndexCommit(p) PROVE ClientTypeOK'
  BY <1>9 DEF IndexCommit, Return, IndexFails, Outside, ClientTypeOK, ClientSteps,
     AllKinds
<1>10. ASSUME NEW p \in Clients, UndoSave(p) PROVE ClientTypeOK'
  BY <1>10, Zenon DEF UndoSave, Return, Outside, ClientTypeOK, ClientSteps, AllKinds
<1>11. ASSUME NEW p \in Clients, Archive(p) PROVE ClientTypeOK'
  BY <1>11 DEF Archive, Begin, Outside, Step, ClientTypeOK, ClientSteps, AllKinds
<1>12. ASSUME NEW p \in Clients, Restore(p) PROVE ClientTypeOK'
  BY <1>12, Zenon DEF Restore, Begin, Outside, Step, ClientTypeOK, ClientSteps, AllKinds
<1>13. ASSUME NEW p \in Clients, HardDelete(p) PROVE ClientTypeOK'
  BY <1>13 DEF HardDelete, Begin, Outside, Step, ClientTypeOK, ClientSteps, AllKinds
<1>14. ASSUME NEW p \in Clients, HardDeleteFile(p) PROVE ClientTypeOK'
  BY <1>14, Zenon DEF HardDeleteFile, Step, Outside, ClientTypeOK, ClientSteps, AllKinds
<1>15. ASSUME NEW p \in Clients, HardDeleteRow(p) PROVE ClientTypeOK'
  BY <1>15 DEF HardDeleteRow, Step, Return, Outside, ClientTypeOK, ClientSteps,
     AllKinds
<1>16. ASSUME NEW p \in Clients, Unindex(p) PROVE ClientTypeOK'
  BY <1>16, Zenon DEF Unindex, Return, Outside, ClientTypeOK, ClientSteps, AllKinds
<1>17. ASSUME NEW p \in Clients, List(p) PROVE ClientTypeOK'
  BY <1>17, Zenon DEF List, Begin, Outside, Step, ClientTypeOK, ClientSteps, AllKinds
<1>18. ASSUME NEW p \in Clients, Prune(p) PROVE ClientTypeOK'
  BY <1>18 DEF Prune, Step, Return, Outside, ClientTypeOK, ClientSteps, AllKinds
<1>19. ASSUME NEW p \in Clients, Reindex(p) PROVE ClientTypeOK'
  BY <1>19, Zenon DEF Reindex, Begin, Outside, Step, ClientTypeOK, ClientSteps, AllKinds
<1>20. ASSUME NEW p \in Clients, Pull(p) PROVE ClientTypeOK'
  BY <1>20 DEF Pull, Begin, Outside, Step, ClientTypeOK, ClientSteps, AllKinds
<1>21. ASSUME NEW p \in Clients, Forget(p) PROVE ClientTypeOK'
  BY <1>21, Zenon DEF Forget, Return, Outside, ClientTypeOK, ClientSteps, AllKinds
<1>22. CASE HandleEvent
  BY <1>22, Zenon DEF HandleEvent, Watching, clientVars, ClientTypeOK, ClientSteps,
     AllKinds
<1>23. ASSUME NEW w \in Slots, TimerFires(w) PROVE ClientTypeOK'
  BY <1>23, Zenon DEF TimerFires, Readable, Watching, clientVars, ClientTypeOK,
     ClientSteps, AllKinds
<1>24. ASSUME NEW w \in Slots, CallbackRead(w) PROVE ClientTypeOK'
  BY <1>24, Zenon DEF CallbackRead, Readable, Watching, clientVars, ClientTypeOK,
     ClientSteps, AllKinds
<1>25. ASSUME NEW w \in Slots, CallbackCommit(w) PROVE ClientTypeOK'
  BY <1>25, Zenon DEF CallbackCommit, Watching, clientVars, ClientTypeOK, ClientSteps,
     AllKinds
<1>26. ASSUME NEW w \in Slots, CallbackRemove(w) PROVE ClientTypeOK'
  BY <1>26, Zenon DEF CallbackRemove, Readable, Watching, clientVars, ClientTypeOK,
     ClientSteps, AllKinds
<1>27. ASSUME NEW w \in Slots, CallbackReport(w) PROVE ClientTypeOK'
  BY <1>27, Zenon DEF CallbackReport, Watching, clientVars, ClientTypeOK, ClientSteps,
     AllKinds
<1>28. ASSUME NEW x \in Externals, ExternalChange(x) PROVE ClientTypeOK'
  BY <1>28, Zenon DEF ExternalChange, Readable, clientVars, ClientTypeOK, ClientSteps,
     AllKinds
<1>29. ASSUME NEW x \in Externals, ExternalFinish(x) PROVE ClientTypeOK'
  BY <1>29, Zenon DEF ExternalFinish, clientVars, ClientTypeOK, ClientSteps, AllKinds
<1>30. CASE Shutdown
  BY <1>30, Zenon DEF Shutdown, clientVars, ClientTypeOK, ClientSteps, AllKinds
<1>31. CASE Exit
  BY <1>31, Zenon DEF Exit, ClientTypeOK, ClientSteps, AllKinds
<1>32. CASE StartScan
  BY <1>32, Zenon DEF StartScan, Readable, clientVars, ClientTypeOK, ClientSteps, AllKinds
<1>33. CASE StartWatching
  BY <1>33, Zenon DEF StartWatching, clientVars, ClientTypeOK, ClientSteps, AllKinds
<1>34. CASE UNCHANGED vars
  BY <1>34, Zenon DEF vars, clientVars, ClientTypeOK, ClientSteps, AllKinds
<1> QED
  BY <1>1, <1>2, <1>3, <1>4, <1>5, <1>6, <1>7, <1>8, <1>9, <1>10, <1>11, <1>12,
     <1>13, <1>14, <1>15, <1>16, <1>17, <1>18, <1>19, <1>20, <1>21, <1>22, <1>23,
     <1>24, <1>25, <1>26, <1>27, <1>28, <1>29, <1>30, <1>31, <1>32, <1>33, <1>34, Zenon DEF
     Next, ClientStep, CallbackStep

\* An unused timer is a timer.
LEMMA FreeTimerType == FreeTimer \in Timer
BY Zenon DEF FreeTimer, Timer, TimerSteps

\* What executeIndexing leaves behind when its error is sent or blocks.
LEMMA SendErrorType ==
    ASSUME WatchTypeOK, NEW w \in Slots, SendError(w)
    PROVE  timer' \in [Slots -> Timer] /\ errors' \in 0..ErrorsCap
<1>1. ASSUME NEW v \in Slots
      PROVE  /\ timer[v] \in Timer
             /\ [timer[v] EXCEPT !.waits = @ \ {w}] \in Timer
             /\ [timer[v] EXCEPT !.step = "blocked"] \in Timer
             /\ [timer[v] EXCEPT !.step = "finish"] \in Timer
  BY DEF WatchTypeOK, Timer, TimerSteps
<1>2. timer' \in [Slots -> Timer]
  BY <1>1, Zenon DEF SendError, WatchTypeOK
<1>3. errors' \in 0..ErrorsCap
  BY VaultAssumption DEF SendError, WatchTypeOK
<1> QED
  BY <1>2, <1>3, Zenon

\* ... and when its callback returns.
LEMMA CallbackEndsType ==
    ASSUME WatchTypeOK, NEW w \in Slots, CallbackEnds(w)
    PROVE  timer' \in [Slots -> Timer] /\ debounce' \in Slots \cup {None}
<1>1. ASSUME NEW v \in Slots
      PROVE  [timer[v] EXCEPT !.waits = @ \ {w}] \in Timer
  BY DEF WatchTypeOK, Timer
<1> QED
  BY <1>1, FreeTimerType, Zenon DEF CallbackEnds

\* Steps keep the type of what the watcher holds.
LEMMA WatchTypeStep ==
    WatchTypeOK /\ FileTypeOK /\ [Next]_vars => WatchTypeOK'
<1> SUFFICES ASSUME WatchTypeOK, FileTypeOK, [Next]_vars
             PROVE  WatchTypeOK'
  BY Zenon
<1> USE VaultAssumption DEF FileTypeOK
<1>1. ASSUME NEW p \in Clients, Load(p) PROVE WatchTypeOK'
  BY <1>1, Zenon DEF Load, Readable, Outside, WatchTypeOK, TimerSteps
<1>2. ASSUME NEW p \in Clients, SaveBegin(p) PROVE WatchTypeOK'
  BY <1>2, Zenon DEF SaveBegin, Outside, WatchTypeOK, TimerSteps
<1>3. ASSUME NEW p \in Clients, SaveNew(p) PROVE WatchTypeOK'
  BY <1>3, Zenon DEF SaveNew, Outside, WatchTypeOK, TimerSteps
<1>4. ASSUME NEW p \in Clients, MoveBegin(p) PROVE WatchTypeOK'
  BY <1>4, Zenon DEF MoveBegin, Readable, Outside, WatchTypeOK, TimerSteps
<1>5. ASSUME NEW p \in Clients, TagBegin(p) PROVE WatchTypeOK'
  BY <1>5, Zenon DEF TagBegin, Readable, Outside, WatchTypeOK, TimerSteps
<1>6. ASSUME NEW p \in Clients, Write(p) PROVE WatchTypeOK'
  BY <1>6, Zenon DEF Write, Outside, WatchTypeOK, TimerSteps
<1>7. ASSUME NEW p \in Clients, NoteAppWrite(p) PROVE WatchTypeOK'
  BY <1>7, Zenon DEF NoteAppWrite, Readable, Outside, WatchTypeOK, TimerSteps
<1>8. ASSUME NEW p \in Clients, IndexRead(p) PROVE WatchTypeOK'
  BY <1>8, Zenon DEF IndexRead, Readable, Outside, WatchTypeOK, TimerSteps
<1>9. ASSUME NEW p \in Clients, IndexCommit(p) PROVE WatchTypeOK'
  BY <1>9, Zenon DEF IndexCommit, Outside, WatchTypeOK, TimerSteps
<1>10. ASSUME NEW p \in Clients, UndoSave(p) PROVE WatchTypeOK'
  BY <1>10, Zenon DEF UndoSave, Outside, WatchTypeOK, TimerSteps
<1>11. ASSUME NEW p \in Clients, Archive(p) PROVE WatchTypeOK'
  BY <1>11, Zenon DEF Archive, Outside, WatchTypeOK, TimerSteps
<1>12. ASSUME NEW p \in Clients, Restore(p) PROVE WatchTypeOK'
  BY <1>12, Zenon DEF Restore, Outside, WatchTypeOK, TimerSteps
<1>13. ASSUME NEW p \in Clients, HardDelete(p) PROVE WatchTypeOK'
  BY <1>13, Zenon DEF HardDelete, Outside, WatchTypeOK, TimerSteps
<1>14. ASSUME NEW p \in Clients, HardDeleteFile(p) PROVE WatchTypeOK'
  BY <1>14, Zenon DEF HardDeleteFile, Outside, WatchTypeOK, TimerSteps
<1>15. ASSUME NEW p \in Clients, HardDeleteRow(p) PROVE WatchTypeOK'
  BY <1>15, Zenon DEF HardDeleteRow, Outside, WatchTypeOK, TimerSteps
<1>16. ASSUME NEW p \in Clients, Unindex(p) PROVE WatchTypeOK'
  BY <1>16, Zenon DEF Unindex, Outside, WatchTypeOK, TimerSteps
<1>17. ASSUME NEW p \in Clients, List(p) PROVE WatchTypeOK'
  BY <1>17, Zenon DEF List, Outside, WatchTypeOK, TimerSteps
<1>18. ASSUME NEW p \in Clients, Prune(p) PROVE WatchTypeOK'
  BY <1>18, Zenon DEF Prune, Outside, WatchTypeOK, TimerSteps
<1>19. ASSUME NEW p \in Clients, Reindex(p) PROVE WatchTypeOK'
  BY <1>19, Zenon DEF Reindex, Outside, WatchTypeOK, TimerSteps
<1>20. ASSUME NEW p \in Clients, Pull(p) PROVE WatchTypeOK'
  BY <1>20, Zenon DEF Pull, Outside, WatchTypeOK, TimerSteps
<1>21. ASSUME NEW p \in Clients, Forget(p) PROVE WatchTypeOK'
  BY <1>21, Zenon DEF Forget, Outside, WatchTypeOK, TimerSteps
<1>22. CASE HandleEvent
  <2>1. events \in Seq({"write", "remove"}) /\ events # <<>>
    BY <1>22, Zenon DEF HandleEvent, FileTypeOK
  <2>2. Head(events) \in {"write", "remove"}
    BY <2>1
  <2>3. ArmedTimer(Head(events)) \in Timer
    BY <2>2, Zenon DEF ArmedTimer, UnderWay, Timer, TimerSteps
  <2> QED
    BY <1>22, <2>3, FreeTimerType DEF HandleEvent, WatchTypeOK
<1>23. ASSUME NEW w \in Slots, TimerFires(w) PROVE WatchTypeOK'
  <2>1. \A v \in Slots : timer[v] \in Timer
    BY Zenon DEF WatchTypeOK
  <2>2. CASE timer[w].op = "remove"
    <3>1. [timer[w] EXCEPT !.step = "remove"] \in Timer
      BY <2>1 DEF Timer, TimerSteps
    <3> QED
      BY <1>23, <2>2, <3>1 DEF TimerFires, WatchTypeOK
  <2>3. CASE timer[w].op = "write" /\ SelfWrite
    BY <1>23, <2>3, CallbackEndsType, Zenon DEF TimerFires, WatchTypeOK
  <2>4. CASE timer[w].op = "write" /\ ~SelfWrite
    <3> DEFINE h == IF Readable THEN disk ELSE None
               t == [timer EXCEPT ![w].step = "read"]
    <3>1. h \in Version \cup {None}
      BY Zenon DEF Readable
    <3>2. timer' = [t EXCEPT ![w].hash = h]
      BY <1>23, <2>4, Zenon DEF TimerFires
    <3>3. t \in [Slots -> Timer]
      BY DEF WatchTypeOK, Timer, TimerSteps
    <3> HIDE DEF h, t
    <3>4. timer' \in [Slots -> Timer]
      BY <3>1, <3>2, <3>3, SMTT(30) DEF Timer
    <3> QED
      BY <1>23, <2>4, <3>4, Zenon DEF TimerFires, WatchTypeOK
  <2> QED
    BY <1>23, <2>2, <2>3, <2>4, Zenon DEF TimerFires
<1>24. ASSUME NEW w \in Slots, CallbackRead(w) PROVE WatchTypeOK'
  <2>1. ASSUME timer' = [timer EXCEPT ![w].step = "tx", ![w].got = disk], Readable
        PROVE  timer' \in [Slots -> Timer]
    <3>1. disk \in Version /\ timer[w] \in Timer
      BY <2>1, Zenon DEF WatchTypeOK, Readable
    <3>2. ASSUME NEW r \in Timer, NEW v \in Version
          PROVE  [r EXCEPT !.step = "tx", !.got = v] \in Timer
      BY <3>2, Zenon DEF Timer, TimerSteps
    <3> QED
      BY <2>1, <3>1, <3>2, Zenon DEF WatchTypeOK
  <2>2. timer' \in [Slots -> Timer] /\ errors' \in 0..ErrorsCap
    BY <1>24, <2>1, SendErrorType, Zenon DEF CallbackRead, WatchTypeOK
  <2>3. UNCHANGED <<debounce, reconciled>>
    BY <1>24, Zenon DEF CallbackRead
  <2> QED
    BY <2>2, <2>3, Zenon DEF WatchTypeOK
<1>25. ASSUME NEW w \in Slots, CallbackCommit(w) PROVE WatchTypeOK'
  <2>1. ASSUME timer' = [timer EXCEPT ![w].step = "finish"]
        PROVE  timer' \in [Slots -> Timer]
    <3>1. [timer[w] EXCEPT !.step = "finish"] \in Timer
      BY SMTT(30) DEF WatchTypeOK, Timer, TimerSteps
    <3> QED
      BY <2>1, <3>1, Zenon DEF WatchTypeOK
  <2>2. timer' \in [Slots -> Timer] /\ errors' \in 0..ErrorsCap
    BY <1>25, <2>1, SendErrorType, Zenon DEF CallbackCommit, WatchTypeOK
  <2>3. UNCHANGED <<debounce, reconciled>>
    BY <1>25, Zenon DEF CallbackCommit
  <2> QED
    BY <2>2, <2>3, Zenon DEF WatchTypeOK
<1>26. ASSUME NEW w \in Slots, CallbackRemove(w) PROVE WatchTypeOK'
  BY <1>26, SendErrorType, CallbackEndsType, FreeTimerType, Zenon DEF CallbackRemove,
     Readable, WatchTypeOK, TimerSteps
<1>27. ASSUME NEW w \in Slots, CallbackReport(w) PROVE WatchTypeOK'
  <2>1. timer[w].hash \in Version \cup {None}
    BY Zenon DEF WatchTypeOK, Timer
  <2> QED
    BY <1>27, <2>1, CallbackEndsType, Zenon DEF CallbackReport, WatchTypeOK
<1>28. ASSUME NEW x \in Externals, ExternalChange(x) PROVE WatchTypeOK'
  BY <1>28, Zenon DEF ExternalChange, Readable, watchVars, WatchTypeOK, TimerSteps
<1>29. ASSUME NEW x \in Externals, ExternalFinish(x) PROVE WatchTypeOK'
  BY <1>29, Zenon DEF ExternalFinish, watchVars, WatchTypeOK, TimerSteps
<1>30. CASE Shutdown
  BY <1>30, FreeTimerType, Zenon DEF Shutdown, WatchTypeOK, TimerSteps
<1>31. CASE Exit
  BY <1>31, FreeTimerType DEF Exit, WatchTypeOK, TimerSteps
<1>32. CASE StartScan
  BY <1>32, Zenon DEF StartScan, Readable, watchVars, WatchTypeOK, TimerSteps
<1>33. CASE StartWatching
  BY <1>33, Zenon DEF StartWatching, watchVars, WatchTypeOK, TimerSteps
<1>34. CASE UNCHANGED vars
  BY <1>34, Zenon DEF vars, watchVars, WatchTypeOK, TimerSteps
<1> QED
  BY <1>1, <1>2, <1>3, <1>4, <1>5, <1>6, <1>7, <1>8, <1>9, <1>10, <1>11, <1>12,
     <1>13, <1>14, <1>15, <1>16, <1>17, <1>18, <1>19, <1>20, <1>21, <1>22, <1>23,
     <1>24, <1>25, <1>26, <1>27, <1>28, <1>29, <1>30, <1>31, <1>32, <1>33, <1>34, Zenon DEF
     Next, ClientStep, CallbackStep

\* What a file system event adds to the queue.
LEMMA EmittedType ==
    ASSUME FileTypeOK, NEW op \in {"write", "remove"}
    PROVE  Emitted(op) \in Seq({"write", "remove"})
BY DEF FileTypeOK, Emitted

\* Steps keep the type of the file and its events.
LEMMA FileTypeStep ==
    FileTypeOK /\ [Next]_vars => FileTypeOK'
<1> SUFFICES ASSUME FileTypeOK, [Next]_vars
             PROVE  FileTypeOK'
  BY Zenon
<1> USE VaultAssumption
<1>1. ASSUME NEW p \in Clients, Load(p) PROVE FileTypeOK'
  BY <1>1, Zenon DEF Load, Outside, FileTypeOK
<1>2. ASSUME NEW p \in Clients, SaveBegin(p) PROVE FileTypeOK'
  BY <1>2, Zenon DEF SaveBegin, Outside, FileTypeOK
<1>3. ASSUME NEW p \in Clients, SaveNew(p) PROVE FileTypeOK'
  BY <1>3, Zenon DEF SaveNew, Outside, FileTypeOK
<1>4. ASSUME NEW p \in Clients, MoveBegin(p) PROVE FileTypeOK'
  BY <1>4, Zenon DEF MoveBegin, Outside, FileTypeOK
<1>5. ASSUME NEW p \in Clients, TagBegin(p) PROVE FileTypeOK'
  BY <1>5, Zenon DEF TagBegin, Outside, FileTypeOK
<1>6. ASSUME NEW p \in Clients, Write(p) PROVE FileTypeOK'
  BY <1>6, EmittedType, Zenon DEF Write, WriteFile, Outside, Version, FileTypeOK
<1>7. ASSUME NEW p \in Clients, NoteAppWrite(p) PROVE FileTypeOK'
  BY <1>7, Zenon DEF NoteAppWrite, Outside, FileTypeOK
<1>8. ASSUME NEW p \in Clients, IndexRead(p) PROVE FileTypeOK'
  BY <1>8, Zenon DEF IndexRead, Outside, FileTypeOK
<1>9. ASSUME NEW p \in Clients, IndexCommit(p) PROVE FileTypeOK'
  BY <1>9, Zenon DEF IndexCommit, Outside, FileTypeOK
<1>10. ASSUME NEW p \in Clients, UndoSave(p) PROVE FileTypeOK'
  BY <1>10, EmittedType, Zenon DEF UndoSave, DeleteFile, Outside, FileTypeOK
<1>11. ASSUME NEW p \in Clients, Archive(p) PROVE FileTypeOK'
  BY <1>11, Zenon DEF Archive, Outside, FileTypeOK
<1>12. ASSUME NEW p \in Clients, Restore(p) PROVE FileTypeOK'
  BY <1>12, Zenon DEF Restore, Outside, FileTypeOK
<1>13. ASSUME NEW p \in Clients, HardDelete(p) PROVE FileTypeOK'
  BY <1>13, Zenon DEF HardDelete, Outside, FileTypeOK
<1>14. ASSUME NEW p \in Clients, HardDeleteFile(p) PROVE FileTypeOK'
  BY <1>14, EmittedType, Zenon DEF HardDeleteFile, DeleteFile, Outside, FileTypeOK
<1>15. ASSUME NEW p \in Clients, HardDeleteRow(p) PROVE FileTypeOK'
  BY <1>15, Zenon DEF HardDeleteRow, Outside, FileTypeOK
<1>16. ASSUME NEW p \in Clients, Unindex(p) PROVE FileTypeOK'
  BY <1>16, Zenon DEF Unindex, Outside, FileTypeOK
<1>17. ASSUME NEW p \in Clients, List(p) PROVE FileTypeOK'
  BY <1>17, Zenon DEF List, Outside, FileTypeOK
<1>18. ASSUME NEW p \in Clients, Prune(p) PROVE FileTypeOK'
  BY <1>18, Zenon DEF Prune, Outside, FileTypeOK
<1>19. ASSUME NEW p \in Clients, Reindex(p) PROVE FileTypeOK'
  BY <1>19, Zenon DEF Reindex, Outside, FileTypeOK
<1>20. ASSUME NEW p \in Clients, Pull(p) PROVE FileTypeOK'
  BY <1>20, EmittedType, Zenon DEF Pull, WriteFile, DeleteFile, Outside, Version,
     FileTypeOK
<1>21. ASSUME NEW p \in Clients, Forget(p) PROVE FileTypeOK'
  BY <1>21, Zenon DEF Forget, Outside, FileTypeOK
<1>22. CASE HandleEvent
  BY <1>22 DEF HandleEvent, Watching, FileTypeOK
<1>23. ASSUME NEW w \in Slots, TimerFires(w) PROVE FileTypeOK'
  BY <1>23, Zenon DEF TimerFires, Watching, FileTypeOK
<1>24. ASSUME NEW w \in Slots, CallbackRead(w) PROVE FileTypeOK'
  BY <1>24, Zenon DEF CallbackRead, Watching, FileTypeOK
<1>25. ASSUME NEW w \in Slots, CallbackCommit(w) PROVE FileTypeOK'
  BY <1>25, Zenon DEF CallbackCommit, Watching, FileTypeOK
<1>26. ASSUME NEW w \in Slots, CallbackRemove(w) PROVE FileTypeOK'
  BY <1>26, Zenon DEF CallbackRemove, Watching, FileTypeOK
<1>27. ASSUME NEW w \in Slots, CallbackReport(w) PROVE FileTypeOK'
  BY <1>27, Zenon DEF CallbackReport, Watching, FileTypeOK
<1>28. ASSUME NEW x \in Externals, ExternalChange(x) PROVE FileTypeOK'
  BY <1>28, EmittedType, Zenon DEF ExternalChange, WriteFile, DeleteFile, Version,
     FileTypeOK
<1>29. ASSUME NEW x \in Externals, ExternalFinish(x) PROVE FileTypeOK'
  BY <1>29, EmittedType, Zenon DEF ExternalFinish, WriteFile, Version, FileTypeOK
<1>30. CASE Shutdown
  BY <1>30 DEF Shutdown, FileTypeOK
<1>31. CASE Exit
  BY <1>31 DEF Exit, FileTypeOK
<1>32. CASE StartScan
  BY <1>32, Zenon DEF StartScan, FileTypeOK
<1>33. CASE StartWatching
  BY <1>33, Zenon DEF StartWatching, FileTypeOK
<1>34. CASE UNCHANGED vars
  BY <1>34, Zenon DEF vars, FileTypeOK
<1> QED
  BY <1>1, <1>2, <1>3, <1>4, <1>5, <1>6, <1>7, <1>8, <1>9, <1>10, <1>11, <1>12,
     <1>13, <1>14, <1>15, <1>16, <1>17, <1>18, <1>19, <1>20, <1>21, <1>22, <1>23,
     <1>24, <1>25, <1>26, <1>27, <1>28, <1>29, <1>30, <1>31, <1>32, <1>33, <1>34, Zenon DEF
     Next, ClientStep, CallbackStep

\* Steps keep the type of the application's state.
LEMMA AppTypeStep ==
    AppTypeOK /\ [Next]_vars => AppTypeOK'
<1> SUFFICES ASSUME AppTypeOK, [Next]_vars
             PROVE  AppTypeOK'
  BY Zenon
<1> USE VaultAssumption
<1>1. ASSUME NEW p \in Clients, Load(p) PROVE AppTypeOK'
  BY <1>1, Zenon DEF Load, Outside, Begin, appVars, AppTypeOK
<1>2. ASSUME NEW p \in Clients, SaveBegin(p) PROVE AppTypeOK'
  BY <1>2, Zenon DEF SaveBegin, Outside, appVars, AppTypeOK
<1>3. ASSUME NEW p \in Clients, SaveNew(p) PROVE AppTypeOK'
  BY <1>3, Zenon DEF SaveNew, Outside, Begin, appVars, AppTypeOK
<1>4. ASSUME NEW p \in Clients, MoveBegin(p) PROVE AppTypeOK'
  BY <1>4, Zenon DEF MoveBegin, Outside, Begin, appVars, AppTypeOK
<1>5. ASSUME NEW p \in Clients, TagBegin(p) PROVE AppTypeOK'
  BY <1>5, Zenon DEF TagBegin, Outside, Begin, appVars, AppTypeOK
<1>6. ASSUME NEW p \in Clients, Write(p) PROVE AppTypeOK'
  BY <1>6, Zenon DEF Write, Outside, appVars, AppTypeOK
<1>7. ASSUME NEW p \in Clients, NoteAppWrite(p) PROVE AppTypeOK'
  BY <1>7, Zenon DEF NoteAppWrite, Outside, appVars, AppTypeOK
<1>8. ASSUME NEW p \in Clients, IndexRead(p) PROVE AppTypeOK'
  BY <1>8, Zenon DEF IndexRead, IndexFails, Outside, appVars, AppTypeOK
<1>9. ASSUME NEW p \in Clients, IndexCommit(p) PROVE AppTypeOK'
  BY <1>9, Zenon DEF IndexCommit, IndexFails, Outside, appVars, AppTypeOK
<1>10. ASSUME NEW p \in Clients, UndoSave(p) PROVE AppTypeOK'
  BY <1>10, Zenon DEF UndoSave, Outside, appVars, AppTypeOK
<1>11. ASSUME NEW p \in Clients, Archive(p) PROVE AppTypeOK'
  BY <1>11, Zenon DEF Archive, Outside, Begin, appVars, AppTypeOK
<1>12. ASSUME NEW p \in Clients, Restore(p) PROVE AppTypeOK'
  BY <1>12, Zenon DEF Restore, Outside, Begin, appVars, AppTypeOK
<1>13. ASSUME NEW p \in Clients, HardDelete(p) PROVE AppTypeOK'
  BY <1>13, Zenon DEF HardDelete, Outside, Begin, appVars, AppTypeOK
<1>14. ASSUME NEW p \in Clients, HardDeleteFile(p) PROVE AppTypeOK'
  BY <1>14, Zenon DEF HardDeleteFile, Outside, appVars, AppTypeOK
<1>15. ASSUME NEW p \in Clients, HardDeleteRow(p) PROVE AppTypeOK'
  BY <1>15, Zenon DEF HardDeleteRow, Outside, appVars, AppTypeOK
<1>16. ASSUME NEW p \in Clients, Unindex(p) PROVE AppTypeOK'
  BY <1>16, Zenon DEF Unindex, Outside, appVars, AppTypeOK
<1>17. ASSUME NEW p \in Clients, List(p) PROVE AppTypeOK'
  BY <1>17, Zenon DEF List, Outside, Begin, appVars, AppTypeOK
<1>18. ASSUME NEW p \in Clients, Prune(p) PROVE AppTypeOK'
  BY <1>18, Zenon DEF Prune, Outside, appVars, AppTypeOK
<1>19. ASSUME NEW p \in Clients, Reindex(p) PROVE AppTypeOK'
  BY <1>19, Zenon DEF Reindex, Outside, Begin, appVars, AppTypeOK
<1>20. ASSUME NEW p \in Clients, Pull(p) PROVE AppTypeOK'
  BY <1>20, Zenon DEF Pull, Outside, Begin, appVars, AppTypeOK
<1>21. ASSUME NEW p \in Clients, Forget(p) PROVE AppTypeOK'
  BY <1>21, Zenon DEF Forget, Outside, appVars, AppTypeOK
<1>22. CASE HandleEvent
  BY <1>22, Zenon DEF HandleEvent, Watching, appVars, AppTypeOK
<1>23. ASSUME NEW w \in Slots, TimerFires(w) PROVE AppTypeOK'
  BY <1>23, Zenon DEF TimerFires, Watching, appVars, AppTypeOK
<1>24. ASSUME NEW w \in Slots, CallbackRead(w) PROVE AppTypeOK'
  BY <1>24, Zenon DEF CallbackRead, Watching, appVars, AppTypeOK
<1>25. ASSUME NEW w \in Slots, CallbackCommit(w) PROVE AppTypeOK'
  BY <1>25, Zenon DEF CallbackCommit, Watching, appVars, AppTypeOK
<1>26. ASSUME NEW w \in Slots, CallbackRemove(w) PROVE AppTypeOK'
  BY <1>26, Zenon DEF CallbackRemove, Watching, appVars, AppTypeOK
<1>27. ASSUME NEW w \in Slots, CallbackReport(w) PROVE AppTypeOK'
  BY <1>27, Zenon DEF CallbackReport, Watching, appVars, AppTypeOK
<1>28. ASSUME NEW x \in Externals, ExternalChange(x) PROVE AppTypeOK'
  BY <1>28, Zenon DEF ExternalChange, appVars, AppTypeOK
<1>29. ASSUME NEW x \in Externals, ExternalFinish(x) PROVE AppTypeOK'
  BY <1>29, Zenon DEF ExternalFinish, appVars, AppTypeOK
<1>30. CASE Shutdown
  BY <1>30, Zenon DEF Shutdown, AppTypeOK
<1>31. CASE Exit
  BY <1>31 DEF Exit, AppTypeOK
<1>32. CASE StartScan
  BY <1>32, Zenon DEF StartScan, AppTypeOK
<1>33. CASE StartWatching
  BY <1>33, Zenon DEF StartWatching, AppTypeOK
<1>34. CASE UNCHANGED vars
  BY <1>34, Zenon DEF vars, appVars, AppTypeOK
<1> QED
  BY <1>1, <1>2, <1>3, <1>4, <1>5, <1>6, <1>7, <1>8, <1>9, <1>10, <1>11, <1>12,
     <1>13, <1>14, <1>15, <1>16, <1>17, <1>18, <1>19, <1>20, <1>21, <1>22, <1>23,
     <1>24, <1>25, <1>26, <1>27, <1>28, <1>29, <1>30, <1>31, <1>32, <1>33, <1>34, Zenon DEF
     Next, ClientStep, CallbackStep

\* The transaction of IndexDocument keeps the type of the index.
LEMMA IndexTxType ==
    ASSUME IndexTypeOK, NEW v \in Version, IndexTx(v)
    PROVE  IndexTypeOK'
<1>1. CASE row # None /\ row.archived
  BY <1>1, Zenon DEF IndexTypeOK, IndexTx, indexVars
<1>2. CASE ~(row # None /\ row.archived)
  <2>1. row' = [ver |-> v, archived |-> FALSE] /\ fts' = v
    BY <1>2, Zenon DEF IndexTx
  <2> QED
    BY <2>1, Zenon DEF IndexTypeOK
<1> QED
  BY <1>1, <1>2, Zenon

\* Steps keep the type of the index: what is committed was read.
LEMMA IndexTypeStep ==
    IndexTypeOK /\ GotInv /\ [Next]_vars => IndexTypeOK'
<1> SUFFICES ASSUME IndexTypeOK, GotInv, [Next]_vars
             PROVE  IndexTypeOK'
  BY Zenon
<1>1. ASSUME NEW p \in Clients, Load(p) PROVE IndexTypeOK'
  BY <1>1, Zenon DEF Load, indexVars, Readable, IndexTypeOK
<1>2. ASSUME NEW p \in Clients, SaveBegin(p) PROVE IndexTypeOK'
  BY <1>2, Zenon DEF SaveBegin, indexVars, IndexTypeOK
<1>3. ASSUME NEW p \in Clients, SaveNew(p) PROVE IndexTypeOK'
  BY <1>3, Zenon DEF SaveNew, indexVars, IndexTypeOK
<1>4. ASSUME NEW p \in Clients, MoveBegin(p) PROVE IndexTypeOK'
  BY <1>4, Zenon DEF MoveBegin, indexVars, Readable, Active, IndexTypeOK
<1>5. ASSUME NEW p \in Clients, TagBegin(p) PROVE IndexTypeOK'
  BY <1>5, Zenon DEF TagBegin, indexVars, Readable, IndexTypeOK
<1>6. ASSUME NEW p \in Clients, Write(p) PROVE IndexTypeOK'
  BY <1>6, Zenon DEF Write, indexVars, IndexTypeOK
<1>7. ASSUME NEW p \in Clients, NoteAppWrite(p) PROVE IndexTypeOK'
  BY <1>7, Zenon DEF NoteAppWrite, indexVars, Readable, IndexTypeOK
<1>8. ASSUME NEW p \in Clients, IndexRead(p) PROVE IndexTypeOK'
  BY <1>8, Zenon DEF IndexRead, IndexFails, indexVars, Readable, IndexTypeOK
<1>9. ASSUME NEW p \in Clients, IndexCommit(p) PROVE IndexTypeOK'
  BY <1>9, IndexTxType, Zenon DEF IndexCommit, IndexFails, indexVars, IndexTypeOK, GotInv
<1>10. ASSUME NEW p \in Clients, UndoSave(p) PROVE IndexTypeOK'
  BY <1>10, Zenon DEF UndoSave, indexVars, IndexTypeOK
<1>11. ASSUME NEW p \in Clients, Archive(p) PROVE IndexTypeOK'
  BY <1>11, Zenon DEF Archive, Active, IndexTypeOK
<1>12. ASSUME NEW p \in Clients, Restore(p) PROVE IndexTypeOK'
  BY <1>12, Zenon DEF Restore, IndexTypeOK
<1>13. ASSUME NEW p \in Clients, HardDelete(p) PROVE IndexTypeOK'
  BY <1>13, Zenon DEF HardDelete, Active, IndexTypeOK
<1>14. ASSUME NEW p \in Clients, HardDeleteFile(p) PROVE IndexTypeOK'
  BY <1>14, Zenon DEF HardDeleteFile, indexVars, IndexTypeOK
<1>15. ASSUME NEW p \in Clients, HardDeleteRow(p) PROVE IndexTypeOK'
  BY <1>15, Zenon DEF HardDeleteRow, IndexTypeOK
<1>16. ASSUME NEW p \in Clients, Unindex(p) PROVE IndexTypeOK'
  BY <1>16, Zenon DEF Unindex, IndexTypeOK
<1>17. ASSUME NEW p \in Clients, List(p) PROVE IndexTypeOK'
  BY <1>17, Zenon DEF List, indexVars, IndexTypeOK
<1>18. ASSUME NEW p \in Clients, Prune(p) PROVE IndexTypeOK'
  BY <1>18, Zenon DEF Prune, IndexTypeOK
<1>19. ASSUME NEW p \in Clients, Reindex(p) PROVE IndexTypeOK'
  BY <1>19, Zenon DEF Reindex, IndexTypeOK
<1>20. ASSUME NEW p \in Clients, Pull(p) PROVE IndexTypeOK'
  BY <1>20, Zenon DEF Pull, indexVars, IndexTypeOK
<1>21. ASSUME NEW p \in Clients, Forget(p) PROVE IndexTypeOK'
  BY <1>21, Zenon DEF Forget, indexVars, IndexTypeOK
<1>22. CASE HandleEvent
  BY <1>22, Zenon DEF HandleEvent, indexVars, IndexTypeOK
<1>23. ASSUME NEW w \in Slots, TimerFires(w) PROVE IndexTypeOK'
  BY <1>23, Zenon DEF TimerFires, indexVars, Readable, IndexTypeOK
<1>24. ASSUME NEW w \in Slots, CallbackRead(w) PROVE IndexTypeOK'
  BY <1>24, Zenon DEF CallbackRead, indexVars, Readable, IndexTypeOK
<1>25. ASSUME NEW w \in Slots, CallbackCommit(w) PROVE IndexTypeOK'
  BY <1>25, IndexTxType, Zenon DEF CallbackCommit, indexVars, IndexTypeOK, GotInv
<1>26. ASSUME NEW w \in Slots, CallbackRemove(w) PROVE IndexTypeOK'
  BY <1>26, Zenon DEF CallbackRemove, indexVars, Readable, IndexTypeOK
<1>27. ASSUME NEW w \in Slots, CallbackReport(w) PROVE IndexTypeOK'
  BY <1>27, Zenon DEF CallbackReport, indexVars, IndexTypeOK
<1>28. ASSUME NEW x \in Externals, ExternalChange(x) PROVE IndexTypeOK'
  BY <1>28, Zenon DEF ExternalChange, indexVars, Readable, IndexTypeOK
<1>29. ASSUME NEW x \in Externals, ExternalFinish(x) PROVE IndexTypeOK'
  BY <1>29, Zenon DEF ExternalFinish, indexVars, IndexTypeOK
<1>30. CASE Shutdown
  BY <1>30, Zenon DEF Shutdown, indexVars, IndexTypeOK
<1>31. CASE Exit
  BY <1>31, Zenon DEF Exit, indexVars, IndexTypeOK
<1>32. CASE StartScan
  BY <1>32, IndexTxType, Zenon DEF StartScan, indexVars, Readable, IndexTypeOK
<1>33. CASE StartWatching
  BY <1>33, Zenon DEF StartWatching, indexVars, IndexTypeOK
<1>34. CASE UNCHANGED vars
  BY <1>34, Zenon DEF vars, indexVars, IndexTypeOK
<1> QED
  BY <1>1, <1>2, <1>3, <1>4, <1>5, <1>6, <1>7, <1>8, <1>9, <1>10, <1>11, <1>12,
     <1>13, <1>14, <1>15, <1>16, <1>17, <1>18, <1>19, <1>20, <1>21, <1>22, <1>23,
     <1>24, <1>25, <1>26, <1>27, <1>28, <1>29, <1>30, <1>31, <1>32, <1>33, <1>34, Zenon DEF
     Next, ClientStep, CallbackStep

\* Sending an error, or returning, leaves what other callbacks have read.
LEMMA SendErrorGot ==
    ASSUME WatchTypeOK, GotInv, NEW w \in Slots, SendError(w), NEW v \in Slots,
           timer'[v].step = "tx"
    PROVE  timer'[v].got \in Version
<1>1. timer[v] \in Timer /\ timer[w] \in Timer
  BY Zenon DEF WatchTypeOK
<1>2. CASE timer' = [timer EXCEPT ![w].step = "finish"]
  BY <1>1, <1>2, Zenon DEF GotInv, WatchTypeOK, Timer
<1>3. CASE timer' = [u \in Slots |-> IF u = w THEN [timer[u] EXCEPT !.step = "blocked"]
                                     ELSE [timer[u] EXCEPT !.waits = @ \ {w}]]
  BY <1>1, <1>3, Zenon DEF GotInv, Timer
<1> QED
  BY <1>2, <1>3, Zenon DEF SendError

\* The same when a callback returns.
LEMMA CallbackEndsGot ==
    ASSUME WatchTypeOK, GotInv, NEW w \in Slots, CallbackEnds(w), NEW v \in Slots,
           timer'[v].step = "tx"
    PROVE  timer'[v].got \in Version
<1>1. timer[v] \in Timer
  BY Zenon DEF WatchTypeOK
<1> QED
  BY <1>1, Zenon DEF CallbackEnds, FreeTimer, GotInv, Timer

\* A client or callback about to commit has read a version.
LEMMA GotStep ==
    ClientTypeOK /\ WatchTypeOK /\ GotInv /\ [Next]_vars => GotInv'
<1> SUFFICES ASSUME ClientTypeOK, WatchTypeOK, GotInv, [Next]_vars
             PROVE  GotInv'
  BY Zenon
<1>1. ASSUME NEW p \in Clients, Load(p) PROVE GotInv'
  BY <1>1, Zenon DEF Load, Begin, Readable, Outside, Step, ClientTypeOK, WatchTypeOK,
     GotInv
<1>2. ASSUME NEW p \in Clients, SaveBegin(p) PROVE GotInv'
  BY <1>2 DEF SaveBegin, Step, Return, Outside, ClientTypeOK, WatchTypeOK, GotInv
<1>3. ASSUME NEW p \in Clients, SaveNew(p) PROVE GotInv'
  BY <1>3, Zenon DEF SaveNew, Begin, Outside, Step, ClientTypeOK, WatchTypeOK, GotInv
<1>4. ASSUME NEW p \in Clients, MoveBegin(p) PROVE GotInv'
  BY <1>4, Zenon DEF MoveBegin, Begin, Readable, Outside, Step, ClientTypeOK, WatchTypeOK,
     GotInv
<1>5. ASSUME NEW p \in Clients, TagBegin(p) PROVE GotInv'
  BY <1>5, Zenon DEF TagBegin, Begin, Readable, Outside, Step, ClientTypeOK, WatchTypeOK,
     GotInv
<1>6. ASSUME NEW p \in Clients, Write(p) PROVE GotInv'
  BY <1>6 DEF Write, Step, Return, NextOfWrite, Outside, ClientTypeOK, WatchTypeOK,
     GotInv
<1>7. ASSUME NEW p \in Clients, NoteAppWrite(p) PROVE GotInv'
  BY <1>7, Zenon DEF NoteAppWrite, Step, Readable, Outside, ClientTypeOK, WatchTypeOK,
     GotInv
<1>8. ASSUME NEW p \in Clients, IndexRead(p) PROVE GotInv'
  BY <1>8 DEF IndexRead, IndexFails, Readable, Outside, Return, ClientTypeOK,
     WatchTypeOK, GotInv
<1>9. ASSUME NEW p \in Clients, IndexCommit(p) PROVE GotInv'
  BY <1>9, SMTT(30) DEF IndexCommit, Return, IndexFails, Outside, ClientTypeOK, WatchTypeOK,
     GotInv
<1>10. ASSUME NEW p \in Clients, UndoSave(p) PROVE GotInv'
  BY <1>10, Zenon DEF UndoSave, Return, Outside, ClientTypeOK, WatchTypeOK, GotInv
<1>11. ASSUME NEW p \in Clients, Archive(p) PROVE GotInv'
  BY <1>11, Zenon DEF Archive, Begin, Outside, Step, ClientTypeOK, WatchTypeOK, GotInv
<1>12. ASSUME NEW p \in Clients, Restore(p) PROVE GotInv'
  BY <1>12, Zenon DEF Restore, Begin, Outside, Step, ClientTypeOK, WatchTypeOK, GotInv
<1>13. ASSUME NEW p \in Clients, HardDelete(p) PROVE GotInv'
  BY <1>13, Zenon DEF HardDelete, Begin, Outside, Step, ClientTypeOK, WatchTypeOK, GotInv
<1>14. ASSUME NEW p \in Clients, HardDeleteFile(p) PROVE GotInv'
  BY <1>14, Zenon DEF HardDeleteFile, Step, Outside, ClientTypeOK, WatchTypeOK, GotInv
<1>15. ASSUME NEW p \in Clients, HardDeleteRow(p) PROVE GotInv'
  BY <1>15 DEF HardDeleteRow, Step, Return, Outside, ClientTypeOK, WatchTypeOK,
     GotInv
<1>16. ASSUME NEW p \in Clients, Unindex(p) PROVE GotInv'
  BY <1>16, Zenon DEF Unindex, Return, Outside, ClientTypeOK, WatchTypeOK, GotInv
<1>17. ASSUME NEW p \in Clients, List(p) PROVE GotInv'
  BY <1>17, Zenon DEF List, Begin, Outside, Step, ClientTypeOK, WatchTypeOK, GotInv
<1>18. ASSUME NEW p \in Clients, Prune(p) PROVE GotInv'
  BY <1>18 DEF Prune, Step, Return, Outside, ClientTypeOK, WatchTypeOK, GotInv
<1>19. ASSUME NEW p \in Clients, Reindex(p) PROVE GotInv'
  BY <1>19, Zenon DEF Reindex, Begin, Outside, Step, ClientTypeOK, WatchTypeOK, GotInv
<1>20. ASSUME NEW p \in Clients, Pull(p) PROVE GotInv'
  BY <1>20, Zenon DEF Pull, Begin, Outside, Step, ClientTypeOK, WatchTypeOK, GotInv
<1>21. ASSUME NEW p \in Clients, Forget(p) PROVE GotInv'
  BY <1>21, Zenon DEF Forget, Return, Outside, ClientTypeOK, WatchTypeOK, GotInv
<1>22. CASE HandleEvent
  BY <1>22 DEF HandleEvent, Watching, FreeTimer, ArmedTimer, clientVars,
     ClientTypeOK, WatchTypeOK, GotInv
<1>23. ASSUME NEW w \in Slots, TimerFires(w) PROVE GotInv'
  <2>1. pc' = pc /\ got' = got
    BY <1>23, Zenon DEF TimerFires, Watching, clientVars
  <2>2. ASSUME NEW v \in Slots, timer'[v].step = "tx" PROVE timer'[v].got \in Version
    <3>1. CASE timer' = [timer EXCEPT ![w].step = "remove"]
      BY <2>2, <3>1 DEF WatchTypeOK, GotInv, Timer
    <3>2. CASE CallbackEnds(w)
      BY <2>2, <3>2, CallbackEndsGot, Zenon
    <3>3. CASE timer' = [timer EXCEPT ![w].step = "read",
                                      ![w].hash = IF Readable THEN disk ELSE None]
      BY <2>2, <3>3 DEF WatchTypeOK, GotInv, Timer
    <3> QED
      BY <1>23, <3>1, <3>2, <3>3, Zenon DEF TimerFires
  <2> QED
    BY <2>1, <2>2, Zenon DEF GotInv
<1>24. ASSUME NEW w \in Slots, CallbackRead(w) PROVE GotInv'
  <2>1. pc' = pc /\ got' = got
    BY <1>24, Zenon DEF CallbackRead, Watching, clientVars
  <2>2. ASSUME NEW v \in Slots, timer'[v].step = "tx" PROVE timer'[v].got \in Version
    <3>1. CASE Readable /\ timer' = [timer EXCEPT ![w].step = "tx", ![w].got = disk]
      BY <2>2, <3>1 DEF Readable, WatchTypeOK, GotInv, Timer
    <3>2. CASE SendError(w)
      BY <2>2, <3>2, SendErrorGot, Zenon
    <3> QED
      BY <1>24, <3>1, <3>2, Zenon DEF CallbackRead
  <2> QED
    BY <2>1, <2>2, Zenon DEF GotInv
<1>25. ASSUME NEW w \in Slots, CallbackCommit(w) PROVE GotInv'
  <2>1. pc' = pc /\ got' = got
    BY <1>25, Zenon DEF CallbackCommit, Watching, clientVars
  <2>2. ASSUME NEW v \in Slots, timer'[v].step = "tx" PROVE timer'[v].got \in Version
    <3>1. CASE timer' = [timer EXCEPT ![w].step = "finish"]
      BY <2>2, <3>1 DEF WatchTypeOK, GotInv, Timer
    <3>2. CASE SendError(w)
      BY <2>2, <3>2, SendErrorGot, Zenon
    <3> QED
      BY <1>25, <3>1, <3>2, Zenon DEF CallbackCommit
  <2> QED
    BY <2>1, <2>2, Zenon DEF GotInv
<1>26. ASSUME NEW w \in Slots, CallbackRemove(w) PROVE GotInv'
  <2>1. pc' = pc /\ got' = got
    BY <1>26, Zenon DEF CallbackRemove, Watching, clientVars
  <2>2. ASSUME NEW v \in Slots, timer'[v].step = "tx" PROVE timer'[v].got \in Version
    BY <1>26, <2>2, SendErrorGot, CallbackEndsGot, Zenon DEF CallbackRemove
  <2> QED
    BY <2>1, <2>2, Zenon DEF GotInv
<1>27. ASSUME NEW w \in Slots, CallbackReport(w) PROVE GotInv'
  <2>1. pc' = pc /\ got' = got
    BY <1>27, Zenon DEF CallbackReport, Watching, clientVars
  <2>2. ASSUME NEW v \in Slots, timer'[v].step = "tx" PROVE timer'[v].got \in Version
    BY <1>27, <2>2, CallbackEndsGot, Zenon DEF CallbackReport
  <2> QED
    BY <2>1, <2>2, Zenon DEF GotInv
<1>28. ASSUME NEW x \in Externals, ExternalChange(x) PROVE GotInv'
  BY <1>28, Zenon DEF ExternalChange, Readable, clientVars, watchVars, ClientTypeOK,
     WatchTypeOK, GotInv
<1>29. ASSUME NEW x \in Externals, ExternalFinish(x) PROVE GotInv'
  BY <1>29, Zenon DEF ExternalFinish, clientVars, watchVars, ClientTypeOK, WatchTypeOK,
     GotInv
<1>30. CASE Shutdown
  BY <1>30, Zenon DEF Shutdown, clientVars, FreeTimer, ClientTypeOK, WatchTypeOK, GotInv
<1>31. CASE Exit
  BY <1>31, Zenon DEF Exit, FreeTimer, ClientTypeOK, WatchTypeOK, GotInv
<1>32. CASE StartScan
  BY <1>32, Zenon DEF StartScan, Readable, clientVars, watchVars, ClientTypeOK,
     WatchTypeOK, GotInv
<1>33. CASE StartWatching
  BY <1>33, Zenon DEF StartWatching, clientVars, watchVars, ClientTypeOK, WatchTypeOK,
     GotInv
<1>34. CASE UNCHANGED vars
  BY <1>34, ZenonT(30) DEF vars, clientVars, watchVars, GotInv
<1> QED
  BY <1>1, <1>2, <1>3, <1>4, <1>5, <1>6, <1>7, <1>8, <1>9, <1>10, <1>11, <1>12,
     <1>13, <1>14, <1>15, <1>16, <1>17, <1>18, <1>19, <1>20, <1>21, <1>22, <1>23,
     <1>24, <1>25, <1>26, <1>27, <1>28, <1>29, <1>30, <1>31, <1>32, <1>33, <1>34, Zenon DEF
     Next, ClientStep, CallbackStep

\* saveMu is held throughout the section of a save or a move.
LEMMA LockStep ==
    ClientTypeOK /\ LockInv /\ [Next]_vars => LockInv'
<1> SUFFICES ASSUME ClientTypeOK, LockInv, [Next]_vars
             PROVE  LockInv'
  BY Zenon
<1> USE VaultAssumption
<1>1. ASSUME NEW p \in Clients, Load(p) PROVE LockInv'
  BY <1>1, SMTT(30) DEF Load, Begin, Readable, Outside, Step, ClientTypeOK, LockInv,
     InSaveSection
<1>2. ASSUME NEW p \in Clients, SaveBegin(p) PROVE LockInv'
  BY <1>2, SMTT(30) DEF SaveBegin, Step, Return, Outside, ClientTypeOK, LockInv, InSaveSection
<1>3. ASSUME NEW p \in Clients, SaveNew(p) PROVE LockInv'
  BY <1>3, SMTT(30) DEF SaveNew, Begin, Outside, Step, ClientTypeOK, LockInv, InSaveSection
<1>4. ASSUME NEW p \in Clients, MoveBegin(p) PROVE LockInv'
  BY <1>4, SMTT(30) DEF MoveBegin, Begin, Readable, Outside, Step, ClientTypeOK, LockInv,
     InSaveSection
<1>5. ASSUME NEW p \in Clients, TagBegin(p) PROVE LockInv'
  BY <1>5, SMTT(30) DEF TagBegin, Begin, Readable, Outside, Step, ClientTypeOK, LockInv,
     InSaveSection
<1>6. ASSUME NEW p \in Clients, Write(p) PROVE LockInv'
  BY <1>6, SMTT(30) DEF Write, Step, Return, NextOfWrite, Outside, ClientTypeOK, LockInv,
     InSaveSection
<1>7. ASSUME NEW p \in Clients, NoteAppWrite(p) PROVE LockInv'
  BY <1>7, SMTT(30) DEF NoteAppWrite, Step, Readable, Outside, ClientTypeOK, LockInv,
     InSaveSection
<1>8. ASSUME NEW p \in Clients, IndexRead(p) PROVE LockInv'
  BY <1>8, SMTT(30) DEF IndexRead, IndexFails, Readable, Outside, Return, Saving,
     ClientTypeOK, LockInv, InSaveSection
<1>9. ASSUME NEW p \in Clients, IndexCommit(p) PROVE LockInv'
  BY <1>9 DEF IndexCommit, Return, IndexFails, Outside, Saving, ClientTypeOK,
     LockInv, InSaveSection
<1>10. ASSUME NEW p \in Clients, UndoSave(p) PROVE LockInv'
  BY <1>10, SMTT(30) DEF UndoSave, Return, Outside, ClientTypeOK, LockInv, InSaveSection
<1>11. ASSUME NEW p \in Clients, Archive(p) PROVE LockInv'
  BY <1>11, SMTT(30) DEF Archive, Begin, Outside, Step, ClientTypeOK, LockInv, InSaveSection
<1>12. ASSUME NEW p \in Clients, Restore(p) PROVE LockInv'
  BY <1>12, SMTT(30) DEF Restore, Begin, Outside, Step, ClientTypeOK, LockInv, InSaveSection
<1>13. ASSUME NEW p \in Clients, HardDelete(p) PROVE LockInv'
  BY <1>13 DEF HardDelete, Begin, Outside, Step, ClientTypeOK, LockInv,
     InSaveSection
<1>14. ASSUME NEW p \in Clients, HardDeleteFile(p) PROVE LockInv'
  BY <1>14, SMTT(30) DEF HardDeleteFile, Step, Outside, ClientTypeOK, LockInv, InSaveSection
<1>15. ASSUME NEW p \in Clients, HardDeleteRow(p) PROVE LockInv'
  BY <1>15, SMTT(30) DEF HardDeleteRow, Step, Return, Outside, ClientTypeOK, LockInv,
     InSaveSection
<1>16. ASSUME NEW p \in Clients, Unindex(p) PROVE LockInv'
  BY <1>16 DEF Unindex, Return, Outside, ClientTypeOK, LockInv, InSaveSection
<1>17. ASSUME NEW p \in Clients, List(p) PROVE LockInv'
  BY <1>17, SMTT(30) DEF List, Begin, Outside, Step, ClientTypeOK, LockInv, InSaveSection
<1>18. ASSUME NEW p \in Clients, Prune(p) PROVE LockInv'
  BY <1>18, SMTT(30) DEF Prune, Step, Return, Outside, ClientTypeOK, LockInv, InSaveSection
<1>19. ASSUME NEW p \in Clients, Reindex(p) PROVE LockInv'
  BY <1>19, SMTT(30) DEF Reindex, Begin, Outside, Step, ClientTypeOK, LockInv, InSaveSection
<1>20. ASSUME NEW p \in Clients, Pull(p) PROVE LockInv'
  BY <1>20, SMTT(30) DEF Pull, Begin, Outside, Step, ClientTypeOK, LockInv, InSaveSection
<1>21. ASSUME NEW p \in Clients, Forget(p) PROVE LockInv'
  BY <1>21, SMTT(30) DEF Forget, Return, Outside, ClientTypeOK, LockInv, InSaveSection
<1>22. CASE HandleEvent
  BY <1>22, Zenon DEF HandleEvent, Watching, clientVars, ClientTypeOK, LockInv,
     InSaveSection
<1>23. ASSUME NEW w \in Slots, TimerFires(w) PROVE LockInv'
  BY <1>23, Zenon DEF TimerFires, Readable, Watching, clientVars, ClientTypeOK, LockInv,
     InSaveSection
<1>24. ASSUME NEW w \in Slots, CallbackRead(w) PROVE LockInv'
  BY <1>24, Zenon DEF CallbackRead, Readable, Watching, clientVars, ClientTypeOK, LockInv,
     InSaveSection
<1>25. ASSUME NEW w \in Slots, CallbackCommit(w) PROVE LockInv'
  BY <1>25, Zenon DEF CallbackCommit, Watching, clientVars, ClientTypeOK, LockInv,
     InSaveSection
<1>26. ASSUME NEW w \in Slots, CallbackRemove(w) PROVE LockInv'
  BY <1>26, Zenon DEF CallbackRemove, Readable, Watching, clientVars, ClientTypeOK,
     LockInv, InSaveSection
<1>27. ASSUME NEW w \in Slots, CallbackReport(w) PROVE LockInv'
  BY <1>27, Zenon DEF CallbackReport, Watching, clientVars, ClientTypeOK, LockInv,
     InSaveSection
<1>28. ASSUME NEW x \in Externals, ExternalChange(x) PROVE LockInv'
  BY <1>28, Zenon DEF ExternalChange, Readable, clientVars, ClientTypeOK, LockInv,
     InSaveSection
<1>29. ASSUME NEW x \in Externals, ExternalFinish(x) PROVE LockInv'
  BY <1>29, Zenon DEF ExternalFinish, clientVars, ClientTypeOK, LockInv, InSaveSection
<1>30. CASE Shutdown
  BY <1>30, Zenon DEF Shutdown, clientVars, ClientTypeOK, LockInv, InSaveSection
<1>31. CASE Exit
  BY <1>31, Zenon DEF Exit, ClientTypeOK, LockInv, InSaveSection
<1>32. CASE StartScan
  BY <1>32, Zenon DEF StartScan, Readable, clientVars, ClientTypeOK, LockInv, InSaveSection
<1>33. CASE StartWatching
  BY <1>33, Zenon DEF StartWatching, clientVars, ClientTypeOK, LockInv, InSaveSection
<1>34. CASE UNCHANGED vars
  BY <1>34, ZenonT(30) DEF vars, clientVars, LockInv, InSaveSection
<1> QED
  BY <1>1, <1>2, <1>3, <1>4, <1>5, <1>6, <1>7, <1>8, <1>9, <1>10, <1>11, <1>12,
     <1>13, <1>14, <1>15, <1>16, <1>17, <1>18, <1>19, <1>20, <1>21, <1>22, <1>23,
     <1>24, <1>25, <1>26, <1>27, <1>28, <1>29, <1>30, <1>31, <1>32, <1>33, <1>34, Zenon DEF
     Next, ClientStep, CallbackStep

\* The writer of the file has begun.
LEMMA WriterStep ==
    ClientTypeOK /\ WriterInv /\ [Next]_vars => WriterInv'
<1> SUFFICES ASSUME ClientTypeOK, WriterInv, [Next]_vars
             PROVE  WriterInv'
  BY Zenon
<1> USE VaultAssumption
<1>1. ASSUME NEW p \in Clients, Load(p) PROVE WriterInv'
  BY <1>1, Zenon DEF Load, Begin, Readable, Outside, Step, ClientTypeOK, WriterInv
<1>2. ASSUME NEW p \in Clients, SaveBegin(p) PROVE WriterInv'
  BY <1>2, Zenon DEF SaveBegin, Step, Return, Outside, ClientTypeOK, WriterInv
<1>3. ASSUME NEW p \in Clients, SaveNew(p) PROVE WriterInv'
  BY <1>3, Zenon DEF SaveNew, Begin, Outside, Step, ClientTypeOK, WriterInv
<1>4. ASSUME NEW p \in Clients, MoveBegin(p) PROVE WriterInv'
  BY <1>4, Zenon DEF MoveBegin, Begin, Readable, Outside, Step, ClientTypeOK, WriterInv
<1>5. ASSUME NEW p \in Clients, TagBegin(p) PROVE WriterInv'
  BY <1>5, Zenon DEF TagBegin, Begin, Readable, Outside, Step, ClientTypeOK, WriterInv
<1>6. ASSUME NEW p \in Clients, Write(p) PROVE WriterInv'
  BY <1>6 DEF Write, Step, Return, NextOfWrite, Outside, WriteFile, ClientTypeOK,
     WriterInv, Version
<1>7. ASSUME NEW p \in Clients, NoteAppWrite(p) PROVE WriterInv'
  BY <1>7, Zenon DEF NoteAppWrite, Step, Readable, Outside, ClientTypeOK, WriterInv
<1>8. ASSUME NEW p \in Clients, IndexRead(p) PROVE WriterInv'
  BY <1>8, SMTT(30) DEF IndexRead, IndexFails, Readable, Outside, Return, Saving,
     ClientTypeOK, WriterInv
<1>9. ASSUME NEW p \in Clients, IndexCommit(p) PROVE WriterInv'
  BY <1>9 DEF IndexCommit, Return, IndexFails, Outside, Saving, ClientTypeOK,
     WriterInv
<1>10. ASSUME NEW p \in Clients, UndoSave(p) PROVE WriterInv'
  BY <1>10, Zenon DEF UndoSave, Return, Outside, DeleteFile, ClientTypeOK, WriterInv
<1>11. ASSUME NEW p \in Clients, Archive(p) PROVE WriterInv'
  BY <1>11, Zenon DEF Archive, Begin, Outside, Step, ClientTypeOK, WriterInv
<1>12. ASSUME NEW p \in Clients, Restore(p) PROVE WriterInv'
  BY <1>12, Zenon DEF Restore, Begin, Outside, Step, ClientTypeOK, WriterInv
<1>13. ASSUME NEW p \in Clients, HardDelete(p) PROVE WriterInv'
  BY <1>13, Zenon DEF HardDelete, Begin, Outside, Step, ClientTypeOK, WriterInv
<1>14. ASSUME NEW p \in Clients, HardDeleteFile(p) PROVE WriterInv'
  BY <1>14, Zenon DEF HardDeleteFile, Step, Outside, DeleteFile, ClientTypeOK, WriterInv
<1>15. ASSUME NEW p \in Clients, HardDeleteRow(p) PROVE WriterInv'
  BY <1>15, Zenon DEF HardDeleteRow, Step, Return, Outside, ClientTypeOK, WriterInv
<1>16. ASSUME NEW p \in Clients, Unindex(p) PROVE WriterInv'
  BY <1>16, Zenon DEF Unindex, Return, Outside, ClientTypeOK, WriterInv
<1>17. ASSUME NEW p \in Clients, List(p) PROVE WriterInv'
  BY <1>17, Zenon DEF List, Begin, Outside, Step, ClientTypeOK, WriterInv
<1>18. ASSUME NEW p \in Clients, Prune(p) PROVE WriterInv'
  BY <1>18, Zenon DEF Prune, Step, Return, Outside, ClientTypeOK, WriterInv
<1>19. ASSUME NEW p \in Clients, Reindex(p) PROVE WriterInv'
  BY <1>19, Zenon DEF Reindex, Begin, Outside, Step, ClientTypeOK, WriterInv
<1>20. ASSUME NEW p \in Clients, Pull(p) PROVE WriterInv'
  BY <1>20, Zenon DEF Pull, Begin, Outside, WriteFile, DeleteFile, Step, ClientTypeOK,
     WriterInv, Version
<1>21. ASSUME NEW p \in Clients, Forget(p) PROVE WriterInv'
  BY <1>21, Zenon DEF Forget, Return, Outside, ClientTypeOK, WriterInv
<1>22. CASE HandleEvent
  BY <1>22, Zenon DEF HandleEvent, Watching, clientVars, ClientTypeOK, WriterInv
<1>23. ASSUME NEW w \in Slots, TimerFires(w) PROVE WriterInv'
  BY <1>23, Zenon DEF TimerFires, Readable, Watching, clientVars, ClientTypeOK, WriterInv
<1>24. ASSUME NEW w \in Slots, CallbackRead(w) PROVE WriterInv'
  BY <1>24, Zenon DEF CallbackRead, Readable, Watching, clientVars, ClientTypeOK, WriterInv
<1>25. ASSUME NEW w \in Slots, CallbackCommit(w) PROVE WriterInv'
  BY <1>25, Zenon DEF CallbackCommit, Watching, clientVars, ClientTypeOK, WriterInv
<1>26. ASSUME NEW w \in Slots, CallbackRemove(w) PROVE WriterInv'
  BY <1>26, Zenon DEF CallbackRemove, Readable, Watching, clientVars, ClientTypeOK,
     WriterInv
<1>27. ASSUME NEW w \in Slots, CallbackReport(w) PROVE WriterInv'
  BY <1>27, Zenon DEF CallbackReport, Watching, clientVars, ClientTypeOK, WriterInv
<1>28. ASSUME NEW x \in Externals, ExternalChange(x) PROVE WriterInv'
  BY <1>28 DEF ExternalChange, Readable, clientVars, WriteFile, DeleteFile,
     ClientTypeOK, WriterInv, Version
<1>29. ASSUME NEW x \in Externals, ExternalFinish(x) PROVE WriterInv'
  BY <1>29 DEF ExternalFinish, clientVars, WriteFile, ClientTypeOK, WriterInv,
     Version
<1>30. CASE Shutdown
  BY <1>30, Zenon DEF Shutdown, clientVars, ClientTypeOK, WriterInv
<1>31. CASE Exit
  BY <1>31, Zenon DEF Exit, ClientTypeOK, WriterInv
<1>32. CASE StartScan
  BY <1>32, Zenon DEF StartScan, Readable, clientVars, ClientTypeOK, WriterInv
<1>33. CASE StartWatching
  BY <1>33, Zenon DEF StartWatching, clientVars, ClientTypeOK, WriterInv
<1>34. CASE UNCHANGED vars
  BY <1>34, Zenon DEF vars, clientVars, WriterInv
<1> QED
  BY <1>1, <1>2, <1>3, <1>4, <1>5, <1>6, <1>7, <1>8, <1>9, <1>10, <1>11, <1>12,
     <1>13, <1>14, <1>15, <1>16, <1>17, <1>18, <1>19, <1>20, <1>21, <1>22, <1>23,
     <1>24, <1>25, <1>26, <1>27, <1>28, <1>29, <1>30, <1>31, <1>32, <1>33, <1>34, Zenon DEF
     Next, ClientStep, CallbackStep

\* Between its checks and its write a save sees only writers without saveMu.
LEMMA CheckStep ==
    ClientTypeOK /\ LockInv /\ WriterInv /\ CheckInv /\ [Next]_vars => CheckInv'
<1> SUFFICES ASSUME ClientTypeOK, LockInv, WriterInv, CheckInv, [Next]_vars
             PROVE  CheckInv'
  BY Zenon
<1> USE VaultAssumption
<1>1. ASSUME NEW p \in Clients, Load(p) PROVE CheckInv'
  BY <1>1, SMTT(30) DEF Load, Begin, Readable, Outside, Step, ClientTypeOK, WriterInv,
     CheckInv, Version
<1>2. ASSUME NEW p \in Clients, SaveBegin(p) PROVE CheckInv'
  BY <1>2, SMTT(30) DEF SaveBegin, Step, Return, Outside, SaveChecks, ClientTypeOK, WriterInv,
     CheckInv, LockInv, InSaveSection
<1>3. ASSUME NEW p \in Clients, SaveNew(p) PROVE CheckInv'
  BY <1>3, Zenon DEF SaveNew, Begin, Outside, Step, ClientTypeOK, WriterInv, CheckInv
<1>4. ASSUME NEW p \in Clients, MoveBegin(p) PROVE CheckInv'
  BY <1>4, SMTT(30) DEF MoveBegin, Begin, Readable, Outside, Step, ClientTypeOK, WriterInv,
     CheckInv, Version
<1>5. ASSUME NEW p \in Clients, TagBegin(p) PROVE CheckInv'
  BY <1>5, Zenon DEF TagBegin, Begin, Readable, Outside, Step, ClientTypeOK, WriterInv,
     CheckInv, Version
<1>6. ASSUME NEW p \in Clients, Write(p) PROVE CheckInv'
  BY <1>6, SMTT(30) DEF Write, Step, Return, NextOfWrite, Outside, WriteFile, ClientTypeOK,
     WriterInv, CheckInv, LockInv, InSaveSection, Version
<1>7. ASSUME NEW p \in Clients, NoteAppWrite(p) PROVE CheckInv'
  BY <1>7, Zenon DEF NoteAppWrite, Step, Readable, Outside, ClientTypeOK, WriterInv,
     CheckInv, Version
<1>8. ASSUME NEW p \in Clients, IndexRead(p) PROVE CheckInv'
  BY <1>8, SMTT(30) DEF IndexRead, IndexFails, Readable, Outside, Return, Saving,
     ClientTypeOK, WriterInv, CheckInv, Version
<1>9. ASSUME NEW p \in Clients, IndexCommit(p) PROVE CheckInv'
  BY <1>9, SMTT(30) DEF IndexCommit, Return, IndexFails, Outside, Saving, ClientTypeOK,
     WriterInv, CheckInv
<1>10. ASSUME NEW p \in Clients, UndoSave(p) PROVE CheckInv'
  BY <1>10, Zenon DEF UndoSave, Return, Outside, DeleteFile, ClientTypeOK, WriterInv,
     CheckInv, Version
<1>11. ASSUME NEW p \in Clients, Archive(p) PROVE CheckInv'
  BY <1>11, SMTT(30) DEF Archive, Begin, Outside, Step, ClientTypeOK, WriterInv, CheckInv
<1>12. ASSUME NEW p \in Clients, Restore(p) PROVE CheckInv'
  BY <1>12, SMTT(30) DEF Restore, Begin, Outside, Step, ClientTypeOK, WriterInv, CheckInv
<1>13. ASSUME NEW p \in Clients, HardDelete(p) PROVE CheckInv'
  BY <1>13, SMTT(30) DEF HardDelete, Begin, Outside, Step, ClientTypeOK, WriterInv, CheckInv
<1>14. ASSUME NEW p \in Clients, HardDeleteFile(p) PROVE CheckInv'
  BY <1>14, Zenon DEF HardDeleteFile, Step, Outside, DeleteFile, ClientTypeOK, WriterInv,
     CheckInv, Version
<1>15. ASSUME NEW p \in Clients, HardDeleteRow(p) PROVE CheckInv'
  BY <1>15, SMTT(30) DEF HardDeleteRow, Step, Return, Outside, ClientTypeOK, WriterInv,
     CheckInv
<1>16. ASSUME NEW p \in Clients, Unindex(p) PROVE CheckInv'
  BY <1>16, Zenon DEF Unindex, Return, Outside, ClientTypeOK, WriterInv, CheckInv
<1>17. ASSUME NEW p \in Clients, List(p) PROVE CheckInv'
  BY <1>17, Zenon DEF List, Begin, Outside, Step, ClientTypeOK, WriterInv, CheckInv
<1>18. ASSUME NEW p \in Clients, Prune(p) PROVE CheckInv'
  BY <1>18, SMTT(30) DEF Prune, Step, Return, Outside, ClientTypeOK, WriterInv, CheckInv
<1>19. ASSUME NEW p \in Clients, Reindex(p) PROVE CheckInv'
  BY <1>19, Zenon DEF Reindex, Begin, Outside, Step, ClientTypeOK, WriterInv, CheckInv
<1>20. ASSUME NEW p \in Clients, Pull(p) PROVE CheckInv'
  BY <1>20, Zenon DEF Pull, Begin, Outside, WriteFile, DeleteFile, Step, ClientTypeOK,
     WriterInv, CheckInv, Version
<1>21. ASSUME NEW p \in Clients, Forget(p) PROVE CheckInv'
  BY <1>21, Zenon DEF Forget, Return, Outside, ClientTypeOK, WriterInv, CheckInv
<1>22. CASE HandleEvent
  BY <1>22, Zenon DEF HandleEvent, Watching, clientVars, ClientTypeOK, WriterInv, CheckInv
<1>23. ASSUME NEW w \in Slots, TimerFires(w) PROVE CheckInv'
  BY <1>23, Zenon DEF TimerFires, Readable, Watching, clientVars, ClientTypeOK, WriterInv,
     CheckInv, Version
<1>24. ASSUME NEW w \in Slots, CallbackRead(w) PROVE CheckInv'
  BY <1>24, Zenon DEF CallbackRead, Readable, Watching, clientVars, ClientTypeOK,
     WriterInv, CheckInv, Version
<1>25. ASSUME NEW w \in Slots, CallbackCommit(w) PROVE CheckInv'
  BY <1>25, Zenon DEF CallbackCommit, Watching, clientVars, ClientTypeOK, WriterInv,
     CheckInv
<1>26. ASSUME NEW w \in Slots, CallbackRemove(w) PROVE CheckInv'
  BY <1>26, Zenon DEF CallbackRemove, Readable, Watching, clientVars, ClientTypeOK,
     WriterInv, CheckInv, Version
<1>27. ASSUME NEW w \in Slots, CallbackReport(w) PROVE CheckInv'
  BY <1>27, Zenon DEF CallbackReport, Watching, clientVars, ClientTypeOK, WriterInv,
     CheckInv
<1>28. ASSUME NEW x \in Externals, ExternalChange(x) PROVE CheckInv'
  BY <1>28 DEF ExternalChange, Readable, clientVars, WriteFile, DeleteFile,
     ClientTypeOK, WriterInv, CheckInv, Version
<1>29. ASSUME NEW x \in Externals, ExternalFinish(x) PROVE CheckInv'
  BY <1>29 DEF ExternalFinish, clientVars, WriteFile, ClientTypeOK, WriterInv,
     CheckInv, Version
<1>30. CASE Shutdown
  BY <1>30, Zenon DEF Shutdown, clientVars, ClientTypeOK, WriterInv, CheckInv
<1>31. CASE Exit
  BY <1>31, Zenon DEF Exit, ClientTypeOK, WriterInv, CheckInv
<1>32. CASE StartScan
  BY <1>32, Zenon DEF StartScan, Readable, clientVars, ClientTypeOK, WriterInv, CheckInv,
     Version
<1>33. CASE StartWatching
  BY <1>33, Zenon DEF StartWatching, clientVars, ClientTypeOK, WriterInv, CheckInv
<1>34. CASE UNCHANGED vars
  BY <1>34, Zenon DEF vars, clientVars, CheckInv
<1> QED
  BY <1>1, <1>2, <1>3, <1>4, <1>5, <1>6, <1>7, <1>8, <1>9, <1>10, <1>11, <1>12,
     <1>13, <1>14, <1>15, <1>16, <1>17, <1>18, <1>19, <1>20, <1>21, <1>22, <1>23,
     <1>24, <1>25, <1>26, <1>27, <1>28, <1>29, <1>30, <1>31, <1>32, <1>33, <1>34, Zenon DEF
     Next, ClientStep, CallbackStep

\* Every transaction that gives one half of the index a version gives it to
\* the other.
LEMMA SearchStep ==
    SearchMatchesTable /\ [Next]_vars => SearchMatchesTable'
<1> SUFFICES ASSUME SearchMatchesTable, [Next]_vars
             PROVE  SearchMatchesTable'
  BY Zenon
<1>1. ASSUME NEW p \in Clients, Load(p) PROVE SearchMatchesTable'
  BY <1>1, Zenon DEF Load, SearchMatchesTable, indexVars
<1>2. ASSUME NEW p \in Clients, SaveBegin(p) PROVE SearchMatchesTable'
  BY <1>2, Zenon DEF SaveBegin, SearchMatchesTable, indexVars
<1>3. ASSUME NEW p \in Clients, SaveNew(p) PROVE SearchMatchesTable'
  BY <1>3, Zenon DEF SaveNew, SearchMatchesTable, indexVars
<1>4. ASSUME NEW p \in Clients, MoveBegin(p) PROVE SearchMatchesTable'
  BY <1>4, Zenon DEF MoveBegin, SearchMatchesTable, indexVars, Active
<1>5. ASSUME NEW p \in Clients, TagBegin(p) PROVE SearchMatchesTable'
  BY <1>5, Zenon DEF TagBegin, SearchMatchesTable, indexVars
<1>6. ASSUME NEW p \in Clients, Write(p) PROVE SearchMatchesTable'
  BY <1>6, Zenon DEF Write, SearchMatchesTable, indexVars
<1>7. ASSUME NEW p \in Clients, NoteAppWrite(p) PROVE SearchMatchesTable'
  BY <1>7, Zenon DEF NoteAppWrite, SearchMatchesTable, indexVars
<1>8. ASSUME NEW p \in Clients, IndexRead(p) PROVE SearchMatchesTable'
  BY <1>8, Zenon DEF IndexRead, SearchMatchesTable, IndexFails, indexVars
<1>9. ASSUME NEW p \in Clients, IndexCommit(p) PROVE SearchMatchesTable'
  BY <1>9 DEF IndexCommit, SearchMatchesTable, IndexFails, IndexTx, indexVars
<1>10. ASSUME NEW p \in Clients, UndoSave(p) PROVE SearchMatchesTable'
  BY <1>10, Zenon DEF UndoSave, SearchMatchesTable, indexVars
<1>11. ASSUME NEW p \in Clients, Archive(p) PROVE SearchMatchesTable'
  BY <1>11, Zenon DEF Archive, SearchMatchesTable, Active
<1>12. ASSUME NEW p \in Clients, Restore(p) PROVE SearchMatchesTable'
  BY <1>12, Zenon DEF Restore, SearchMatchesTable
<1>13. ASSUME NEW p \in Clients, HardDelete(p) PROVE SearchMatchesTable'
  BY <1>13, Zenon DEF HardDelete, SearchMatchesTable, Active
<1>14. ASSUME NEW p \in Clients, HardDeleteFile(p) PROVE SearchMatchesTable'
  BY <1>14, Zenon DEF HardDeleteFile, SearchMatchesTable, indexVars
<1>15. ASSUME NEW p \in Clients, HardDeleteRow(p) PROVE SearchMatchesTable'
  BY <1>15, Zenon DEF HardDeleteRow, SearchMatchesTable
<1>16. ASSUME NEW p \in Clients, Unindex(p) PROVE SearchMatchesTable'
  BY <1>16, Zenon DEF Unindex, SearchMatchesTable
<1>17. ASSUME NEW p \in Clients, List(p) PROVE SearchMatchesTable'
  BY <1>17, Zenon DEF List, SearchMatchesTable, indexVars
<1>18. ASSUME NEW p \in Clients, Prune(p) PROVE SearchMatchesTable'
  BY <1>18, Zenon DEF Prune, SearchMatchesTable
<1>19. ASSUME NEW p \in Clients, Reindex(p) PROVE SearchMatchesTable'
  BY <1>19, Zenon DEF Reindex, SearchMatchesTable
<1>20. ASSUME NEW p \in Clients, Pull(p) PROVE SearchMatchesTable'
  BY <1>20, Zenon DEF Pull, SearchMatchesTable, indexVars
<1>21. ASSUME NEW p \in Clients, Forget(p) PROVE SearchMatchesTable'
  BY <1>21, Zenon DEF Forget, SearchMatchesTable, indexVars
<1>22. CASE HandleEvent
  BY <1>22, Zenon DEF HandleEvent, SearchMatchesTable, indexVars
<1>23. ASSUME NEW w \in Slots, TimerFires(w) PROVE SearchMatchesTable'
  BY <1>23, Zenon DEF TimerFires, SearchMatchesTable, indexVars
<1>24. ASSUME NEW w \in Slots, CallbackRead(w) PROVE SearchMatchesTable'
  BY <1>24, Zenon DEF CallbackRead, SearchMatchesTable, indexVars
<1>25. ASSUME NEW w \in Slots, CallbackCommit(w) PROVE SearchMatchesTable'
  BY <1>25 DEF CallbackCommit, SearchMatchesTable, IndexTx, indexVars
<1>26. ASSUME NEW w \in Slots, CallbackRemove(w) PROVE SearchMatchesTable'
  BY <1>26, Zenon DEF CallbackRemove, SearchMatchesTable, indexVars
<1>27. ASSUME NEW w \in Slots, CallbackReport(w) PROVE SearchMatchesTable'
  BY <1>27, Zenon DEF CallbackReport, SearchMatchesTable, indexVars
<1>28. ASSUME NEW x \in Externals, ExternalChange(x) PROVE SearchMatchesTable'
  BY <1>28, Zenon DEF ExternalChange, SearchMatchesTable, indexVars
<1>29. ASSUME NEW x \in Externals, ExternalFinish(x) PROVE SearchMatchesTable'
  BY <1>29, Zenon DEF ExternalFinish, SearchMatchesTable, indexVars
<1>30. CASE Shutdown
  BY <1>30, Zenon DEF Shutdown, SearchMatchesTable, indexVars
<1>31. CASE Exit
  BY <1>31, Zenon DEF Exit, SearchMatchesTable, indexVars
<1>32. CASE StartScan
  BY <1>32 DEF StartScan, SearchMatchesTable, IndexTx, indexVars
<1>33. CASE StartWatching
  BY <1>33, Zenon DEF StartWatching, SearchMatchesTable, indexVars
<1>34. CASE UNCHANGED vars
  BY <1>34, Zenon DEF vars, indexVars, SearchMatchesTable
<1> QED
  BY <1>1, <1>2, <1>3, <1>4, <1>5, <1>6, <1>7, <1>8, <1>9, <1>10, <1>11, <1>12,
     <1>13, <1>14, <1>15, <1>16, <1>17, <1>18, <1>19, <1>20, <1>21, <1>22, <1>23,
     <1>24, <1>25, <1>26, <1>27, <1>28, <1>29, <1>30, <1>31, <1>32, <1>33, <1>34, Zenon DEF
     Next, ClientStep, CallbackStep

----------------------------------------------------------------------------

\* The inductive invariant.
VaultInvariant == TypeOK /\ GotInv /\ LockInv /\ WriterInv /\ CheckInv

\* The invariant holds in a vault after its first scan.
LEMMA InitInvariant == Init => VaultInvariant
<1> SUFFICES ASSUME Init PROVE VaultInvariant
  BY Zenon
<1> USE VaultAssumption DEF Init
<1>0. FileTypeOK
  BY DEF FileTypeOK, Version
<1>1. IndexTypeOK
  <2>1. CASE row = [ver |-> Original, archived |-> FALSE]
    <3>1. row \in [ver : Version, archived : BOOLEAN] /\ row.ver = Original
      BY <2>1, Zenon DEF Version
    <3>2. fts \in Version \cup {None}
      BY <3>1, Zenon DEF Version
    <3> QED
      BY <3>1, <3>2, Zenon DEF IndexTypeOK
  <2>2. CASE row = None
    BY <2>2, Zenon DEF IndexTypeOK
  <2> QED
    BY <2>1, <2>2, Zenon
<1>2. ClientTypeOK
  BY Zenon DEF ClientTypeOK, ClientSteps
<1>3. WatchTypeOK
  BY FreeTimerType, SMTT(30) DEF WatchTypeOK
<1>4. AppTypeOK
  <2>1. 0 \in 0..MaxRestarts
    OBVIOUS
  <2> QED
    BY <2>1, ZenonT(30) DEF AppTypeOK
<1>5. GotInv
  BY Zenon DEF GotInv, FreeTimer
<1>6. LockInv /\ CheckInv
  BY Zenon DEF LockInv, InSaveSection, CheckInv
<1>7. WriterInv
  BY Zenon DEF WriterInv
<1> QED
  BY <1>0, <1>1, <1>2, <1>3, <1>4, <1>5, <1>6, <1>7, Zenon DEF VaultInvariant, TypeOK

\* Every step keeps it: each part from itself and the parts before it.
LEMMA StepInvariant == VaultInvariant /\ [Next]_vars => VaultInvariant'
BY ClientTypeStep, WatchTypeStep, FileTypeStep, AppTypeStep, IndexTypeStep, GotStep,
   LockStep, WriterStep, CheckStep, Zenon DEF VaultInvariant, TypeOK

\* It holds in every reachable state.
LEMMA InvariantHolds == Spec => []VaultInvariant
BY InitInvariant, StepInvariant, PTL DEF Spec

\* File, index, clients, watcher and application always have their types; in
\* particular IndexDocument never commits without having read a version.
THEOREM TypeCorrect == Spec => []TypeOK
<1>1. VaultInvariant => TypeOK
  BY Zenon DEF VaultInvariant
<1> QED
  BY <1>1, InvariantHolds, PTL

\* The doc table and the full-text index never hold two versions of a document,
\* however saves, archives, deletes, reindexing and the watcher interleave.
THEOREM SearchAgrees == Spec => []SearchMatchesTable
<1>1. Init => SearchMatchesTable
  BY Zenon DEF Init, SearchMatchesTable
<1> QED
  BY <1>1, SearchStep, PTL DEF Spec

\* WriteFile and IndexDocument of two saves, or of a save and a move, are never
\* interleaved: at most one client is between its checks and the end of its
\* index transaction.
SavesAreSerialized ==
    \A p, q \in Clients : InSaveSection(p) /\ InSaveSection(q) => p = q

\* saveMu serialises the whole of Save and MoveToProject.
THEOREM SaveMutex == Spec => []SavesAreSerialized
<1>1. VaultInvariant => SavesAreSerialized
  BY Zenon DEF VaultInvariant, LockInv, SavesAreSerialized
<1> QED
  BY <1>1, InvariantHolds, PTL

\* Save with ExpectedHash and MoveToProject overwrite what they checked, or what
\* a writer without saveMu has put there since.
THEOREM OverwriteIsChecked == Spec => OverwritesOnlyWhatItChecked
<1> DEFINE Act == \A p \in Clients :
          (pc[p] = "write" /\ pc'[p] # "write" /\ kind[p] \in {"save", "move"}
             /\ Readable)
              => \/ disk = view[p]
                 \/ disk \in Clients => kind[disk] \in {"tag", "pull"}
<1>1. VaultInvariant => Act
  BY Zenon DEF VaultInvariant, CheckInv, Readable
<1>2. VaultInvariant /\ [Next]_vars => [Act]_vars
  BY <1>1, Zenon
<1> QED
  BY <1>2, InvariantHolds, PTL DEF Spec, OverwritesOnlyWhatItChecked

----------------------------------------------------------------------------
(* File and index.  Whoever changes the file leaves somebody who will bring *)
(* the index up to date: a client, a callback under way, or an event or a   *)
(* timer that the watcher will not take for its own write.                  *)

\* Before the scan at the start nothing runs and nothing is remembered.
RestInv ==
    app \in {"down", "scan"} =>
        /\ \A p \in Clients : pc[p] \in {"idle", "done"}
        /\ timer = [w \in Slots |-> FreeTimer]
        /\ reconciled = None

\* A client that has not yet written its version.
Early(p) == pc[p] \in {"idle", "loaded", "write"}

\* What a step of client p may do outside the index.
ClientFrame(p) ==
    /\ UNCHANGED <<timer, app, external>>
    /\ raced => raced'
    /\ \A q \in Clients \ {p} : pc'[q] = pc[q] /\ got'[q] = got[q]
    /\ pc[p] # "done" /\ (pc[p] = "idle" => app = "up")
    /\ Early(p)' => Early(p)
    /\ reconciled' \in {reconciled, disk}
    /\ \/ UNCHANGED <<disk, events>>
       \/ WriteFile(p) /\ Early(p) /\ ~Early(p)'
       \/ DeleteFile

\* Every operation of the services keeps to it.
LEMMA ClientFrameStep ==
    ASSUME ClientTypeOK, NEW p \in Clients, ClientStep(p)
    PROVE  ClientFrame(p)
<1>1. CASE Load(p)
  BY <1>1, Zenon DEF Load, Begin, Step, Outside, appVars, ClientFrame, Early, ClientTypeOK
<1>2. CASE SaveBegin(p)
  BY <1>2, Zenon DEF SaveBegin, Step, Return, Outside, appVars, ClientFrame, Early, ClientTypeOK
<1>3. CASE SaveNew(p)
  BY <1>3, Zenon DEF SaveNew, Begin, Step, Outside, appVars, ClientFrame, Early, ClientTypeOK
<1>4. CASE MoveBegin(p)
  BY <1>4, Zenon DEF MoveBegin, Begin, Step, Outside, appVars, ClientFrame, Early, ClientTypeOK
<1>5. CASE TagBegin(p)
  BY <1>5, Zenon DEF TagBegin, Begin, Step, Outside, appVars, ClientFrame, Early, ClientTypeOK
<1>6. CASE Write(p)
  BY <1>6, Zenon DEF Write, WriteFile, Step, Return, NextOfWrite, Outside, appVars, ClientFrame,
                    Early, ClientTypeOK
<1>7. CASE NoteAppWrite(p)
  BY <1>7, Zenon DEF NoteAppWrite, Step, Outside, appVars, ClientFrame, Early, ClientTypeOK
<1>8. CASE IndexRead(p)
  BY <1>8 DEF IndexRead, IndexFails, Return, Outside, appVars, ClientFrame, Early, ClientTypeOK
<1>9. CASE IndexCommit(p)
  <2>1. raced => raced'
    BY <1>9, Zenon DEF IndexCommit, IndexFails
  <2>2. \A q \in Clients \ {p} : pc'[q] = pc[q] /\ got'[q] = got[q]
    BY <1>9, Zenon DEF IndexCommit, IndexFails, Return, Outside, appVars, ClientTypeOK
  <2>3. pc'[p] \in {"done", "undo", "unindex"} /\ pc[p] \notin {"done", "idle"}
    BY <1>9, Zenon DEF IndexCommit, IndexFails, Return, Outside, appVars, ClientTypeOK
  <2> QED
    BY <1>9, <2>1, <2>2, <2>3, Zenon DEF IndexCommit, Outside, appVars, ClientFrame, Early
<1>10. CASE UndoSave(p)
  BY <1>10, Zenon DEF UndoSave, Return, Outside, appVars, ClientFrame, Early, ClientTypeOK
<1>11. CASE Archive(p)
  BY <1>11, Zenon DEF Archive, Begin, Step, Outside, appVars, ClientFrame, Early, ClientTypeOK
<1>12. CASE Restore(p)
  BY <1>12, Zenon DEF Restore, Begin, Step, Outside, appVars, ClientFrame, Early, ClientTypeOK
<1>13. CASE HardDelete(p)
  BY <1>13, Zenon DEF HardDelete, Begin, Step, Outside, appVars, ClientFrame, Early, ClientTypeOK
<1>14. CASE HardDeleteFile(p)
  BY <1>14, Zenon DEF HardDeleteFile, Step, Outside, appVars, ClientFrame, Early, ClientTypeOK
<1>15. CASE HardDeleteRow(p)
  <2>1. raced => raced'
    BY <1>15, Zenon DEF HardDeleteRow, IndexFails
  <2>2. \A q \in Clients \ {p} : pc'[q] = pc[q] /\ got'[q] = got[q]
    BY <1>15, Zenon DEF HardDeleteRow, Step, Return, Outside, appVars, ClientTypeOK
  <2>3. pc'[p] \in {"done", "undo", "unindex"} /\ pc[p] \notin {"done", "idle"}
    BY <1>15, Zenon DEF HardDeleteRow, Step, Return, Outside, appVars, ClientTypeOK
  <2> QED
    BY <1>15, <2>1, <2>2, <2>3, Zenon DEF HardDeleteRow, Outside, appVars, ClientFrame, Early
<1>16. CASE Unindex(p)
  <2>1. raced => raced'
    BY <1>16, Zenon DEF Unindex, IndexFails
  <2>2. \A q \in Clients \ {p} : pc'[q] = pc[q] /\ got'[q] = got[q]
    BY <1>16, Zenon DEF Unindex, Return, Outside, appVars, ClientTypeOK
  <2>3. pc'[p] \in {"done", "undo", "unindex"} /\ pc[p] \notin {"done", "idle"}
    BY <1>16, Zenon DEF Unindex, Return, Outside, appVars, ClientTypeOK
  <2> QED
    BY <1>16, <2>1, <2>2, <2>3, Zenon DEF Unindex, Outside, appVars, ClientFrame, Early
<1>17. CASE List(p)
  BY <1>17, Zenon DEF List, Begin, Step, Outside, appVars, ClientFrame, Early, ClientTypeOK
<1>18. CASE Prune(p)
  <2>1. raced => raced'
    BY <1>18, Zenon DEF Prune, IndexFails
  <2>2. \A q \in Clients \ {p} : pc'[q] = pc[q] /\ got'[q] = got[q]
    BY <1>18, Zenon DEF Prune, Step, Return, Outside, appVars, ClientTypeOK
  <2>3. pc'[p] \in {"done", "undo", "unindex"} /\ pc[p] \notin {"done", "idle"}
    BY <1>18, Zenon DEF Prune, Step, Return, Outside, appVars, ClientTypeOK
  <2> QED
    BY <1>18, <2>1, <2>2, <2>3, Zenon DEF Prune, Outside, appVars, ClientFrame, Early
<1>19. CASE Reindex(p)
  BY <1>19, Zenon DEF Reindex, Begin, Step, Outside, appVars, ClientFrame, Early, ClientTypeOK
<1>20. CASE Pull(p)
  BY <1>20, Zenon DEF Pull, Begin, Step, Outside, appVars, ClientFrame, Early, ClientTypeOK
<1>21. CASE Forget(p)
  <2>1. raced => raced'
    BY <1>21, Zenon DEF Forget, IndexFails
  <2>2. \A q \in Clients \ {p} : pc'[q] = pc[q] /\ got'[q] = got[q]
    BY <1>21, Zenon DEF Forget, Return, Outside, appVars, ClientTypeOK
  <2>3. pc'[p] \in {"done", "undo", "unindex"} /\ pc[p] \notin {"done", "idle"}
    BY <1>21, Zenon DEF Forget, Return, Outside, appVars, ClientTypeOK
  <2> QED
    BY <1>21, <2>1, <2>2, <2>3, Zenon DEF Forget, Outside, appVars, ClientFrame, Early
<1> QED
  BY <1>1, <1>2, <1>3, <1>4, <1>5, <1>6, <1>7, <1>8, <1>9, <1>10, <1>11, <1>12, <1>13,
     <1>14, <1>15, <1>16, <1>17, <1>18, <1>19, <1>20, <1>21, Zenon DEF ClientStep

\* The other timers at most stop waiting for w.
OthersKept(w) ==
    \A v \in Slots \ {w} :
        /\ timer'[v].step = timer[v].step /\ timer'[v].op = timer[v].op
        /\ timer'[v].hash = timer[v].hash /\ timer'[v].got = timer[v].got
        /\ timer[v].waits \ {w} \subseteq timer'[v].waits
        /\ timer'[w].step \notin {"free", "blocked"} => timer'[v].waits = timer[v].waits

\* What the callback of timer w may do outside the index; a hash it takes is
\* that of the file.
CallbackFrame(w) ==
    /\ UNCHANGED <<disk, pc, got, events, app, external>>
    /\ raced => raced'
    /\ timer[w].step # "free" /\ app # "down"
    /\ reconciled' \in {reconciled, None, timer[w].hash}
    /\ timer'[w].hash \in {timer[w].hash, disk, None}
    /\ OthersKept(w)

\* A callback that returns,
LEMMA EndsFrame ==
    ASSUME WatchTypeOK, NEW w \in Slots, CallbackEnds(w)
    PROVE  timer'[w] = FreeTimer /\ OthersKept(w)
<1>1. \A v \in Slots : timer[v] \in Timer
  BY Zenon DEF WatchTypeOK
<1> QED
  BY <1>1 DEF CallbackEnds, Timer, OthersKept, FreeTimer

\* one that sends an error,
LEMMA ErrorFrame ==
    ASSUME WatchTypeOK, NEW w \in Slots, SendError(w)
    PROVE  /\ timer'[w].hash = timer[w].hash
           /\ timer'[w].step \in {"finish", "blocked"}
           /\ OthersKept(w)
<1>1. \A v \in Slots : timer[v] \in Timer
  BY Zenon DEF WatchTypeOK
<1>2. CASE timer' = [timer EXCEPT ![w].step = "finish"]
  BY <1>1, <1>2 DEF WatchTypeOK, Timer, OthersKept
<1>3. CASE timer' = [v \in Slots |-> IF v = w THEN [timer[v] EXCEPT !.step = "blocked"]
                                     ELSE [timer[v] EXCEPT !.waits = @ \ {w}]]
  BY <1>1, <1>3 DEF Timer, OthersKept
<1> QED
  BY <1>2, <1>3, Zenon DEF SendError

\* and one that goes on change their own timer only.
LEMMA CallbackFrameStep ==
    ASSUME WatchTypeOK, RestInv, NEW w \in Slots, CallbackStep(w)
    PROVE  CallbackFrame(w)
<1>0. timer \in [Slots -> Timer] /\ \A v \in Slots : timer[v] \in Timer
  BY Zenon DEF WatchTypeOK
<1>a. timer[w].step # "free" => app # "down"
  BY DEF RestInv, FreeTimer
<1>1. CASE TimerFires(w)
  <2>1. CASE timer[w].op = "remove"
    <3>1. timer' = [timer EXCEPT ![w].step = "remove"] /\ reconciled' = None
      BY <1>1, <2>1, Zenon DEF TimerFires
    <3>2. OthersKept(w) /\ timer'[w].hash = timer[w].hash
      BY <1>0, <3>1 DEF OthersKept, Timer
    <3> QED
      BY <1>1, <3>1, <3>2, Zenon DEF TimerFires, Watching, clientVars, appVars, CallbackFrame
  <2>2. CASE timer[w].op = "write" /\ SelfWrite
    BY <1>1, <2>2, EndsFrame DEF TimerFires, Watching, clientVars, appVars, CallbackFrame,
       FreeTimer
  <2>3. CASE timer[w].op = "write" /\ ~SelfWrite
    <3>1. timer' = [timer EXCEPT ![w].step = "read",
                                 ![w].hash = IF Readable THEN disk ELSE None]
      BY <1>1, <2>3, Zenon DEF TimerFires
    <3>2. OthersKept(w) /\ timer'[w].hash \in {disk, None}
      BY <1>0, <3>1 DEF OthersKept, Timer
    <3> QED
      BY <1>1, <2>3, <3>2, Zenon DEF TimerFires, Watching, clientVars, appVars, CallbackFrame
  <2> QED
    BY <1>1, <2>1, <2>2, <2>3, Zenon DEF TimerFires
<1>2. CASE CallbackRead(w)
  <2>1. CASE SendError(w)
    BY <1>2, <1>a, <2>1, ErrorFrame, Zenon DEF CallbackRead, Watching, clientVars, appVars,
       CallbackFrame
  <2>2. CASE timer' = [timer EXCEPT ![w].step = "tx", ![w].got = disk]
    <3>1. OthersKept(w) /\ timer'[w].hash = timer[w].hash
      BY <1>0, <2>2 DEF OthersKept, Timer
    <3> QED
      BY <1>2, <1>a, <3>1, Zenon DEF CallbackRead, Watching, clientVars, appVars, CallbackFrame
  <2> QED
    BY <1>2, <2>1, <2>2, Zenon DEF CallbackRead
<1>3. CASE CallbackCommit(w)
  <2>0. raced => raced'
    BY <1>3, Zenon DEF CallbackCommit
  <2>1. CASE SendError(w)
    BY <1>3, <1>a, <2>0, <2>1, ErrorFrame, Zenon DEF CallbackCommit, Watching, clientVars, appVars,
       CallbackFrame
  <2>2. CASE timer' = [timer EXCEPT ![w].step = "finish"]
    <3>1. OthersKept(w) /\ timer'[w].hash = timer[w].hash
      BY <1>0, <2>2 DEF OthersKept, Timer
    <3> QED
      BY <1>3, <1>a, <2>0, <3>1, Zenon DEF CallbackCommit, Watching, clientVars, appVars, CallbackFrame
  <2> QED
    BY <1>3, <2>1, <2>2, Zenon DEF CallbackCommit
<1>4. CASE CallbackRemove(w)
  <2>0. raced => raced'
    BY <1>4, ZenonT(30) DEF CallbackRemove
  <2>1. CASE SendError(w)
    BY <1>4, <1>a, <2>0, <2>1, ErrorFrame, Zenon DEF CallbackRemove, Watching, clientVars, appVars,
       CallbackFrame
  <2>2. CASE CallbackEnds(w)
    BY <1>4, <1>a, <2>0, <2>2, EndsFrame, SMTT(30) DEF CallbackRemove, Watching, clientVars, appVars,
       CallbackFrame, FreeTimer
  <2> QED
    BY <1>4, <2>1, <2>2, Zenon DEF CallbackRemove
<1>5. CASE CallbackReport(w)
  BY <1>5, <1>a, EndsFrame DEF CallbackReport, Watching, clientVars, appVars, CallbackFrame,
     FreeTimer
<1> QED
  BY <1>1, <1>2, <1>3, <1>4, <1>5, Zenon DEF CallbackStep

\* Events wait only while the watcher runs, and the last one tells of a file that
\* is there.
EventsInv ==
    /\ app # "up" => events = <<>>
    /\ (events # <<>> /\ disk # None) => events[Len(events)] = "write"

\* What another event leaves in the queue.
LEMMA EmittedLast ==
    ASSUME FileTypeOK, EventsInv, NEW op \in {"write", "remove"}
    PROVE  /\ app = "up" => Emitted(op) # <<>> /\ Emitted(op)[Len(Emitted(op))] = op
           /\ app # "up" => Emitted(op) = <<>>
<1>1. events \in Seq({"write", "remove"})
  BY Zenon DEF FileTypeOK
<1>2. Append(events, op) # <<>> /\ Append(events, op)[Len(Append(events, op))] = op
  BY <1>1
<1>3. CASE app # "up"
  BY <1>3, Zenon DEF Emitted, EventsInv
<1>4. CASE app = "up" /\ events # <<>> /\ events[Len(events)] = op
  BY <1>4, Zenon DEF Emitted
<1>5. CASE app = "up" /\ ~(events # <<>> /\ events[Len(events)] = op)
  <2>1. Emitted(op) = Append(events, op)
    BY <1>5, Zenon DEF Emitted
  <2> QED
    BY <1>2, <1>5, <2>1, Zenon
<1> QED
  BY <1>3, <1>4, <1>5, Zenon

\* Steps keep the last event that of the last change.
LEMMA EventsStep ==
    FileTypeOK /\ ClientTypeOK /\ WatchTypeOK /\ RestInv /\ EventsInv /\ [Next]_vars
        => EventsInv'
<1> SUFFICES ASSUME FileTypeOK, ClientTypeOK, WatchTypeOK, RestInv, EventsInv, [Next]_vars
             PROVE  EventsInv'
  BY Zenon
<1>a. ASSUME UNCHANGED <<disk, events, app>> PROVE EventsInv'
  BY <1>a, Zenon DEF EventsInv
<1>b. ASSUME events' = Emitted("write"), UNCHANGED app PROVE EventsInv'
  BY <1>b, EmittedLast, Zenon DEF EventsInv
<1>c. ASSUME DeleteFile, UNCHANGED app PROVE EventsInv'
  BY <1>c, EmittedLast, Zenon DEF EventsInv, DeleteFile
<1>1. ASSUME NEW p \in Clients, ClientStep(p) PROVE EventsInv'
  BY <1>1, <1>a, <1>b, <1>c, ClientFrameStep, Zenon DEF ClientFrame, WriteFile
<1>2. CASE HandleEvent
  <2>1. events \in Seq({"write", "remove"}) /\ events # <<>> /\ events' = Tail(events)
    BY <1>2, Zenon DEF HandleEvent, FileTypeOK
  <2>2. UNCHANGED <<disk, app>> /\ app = "up"
    BY <1>2, Zenon DEF HandleEvent, Watching, appVars
  <2>3. events' # <<>> => events'[Len(events')] = events[Len(events)]
    BY <2>1
  <2> QED
    BY <2>1, <2>2, <2>3, Zenon DEF EventsInv
<1>3. ASSUME NEW w \in Slots, CallbackStep(w) PROVE EventsInv'
  BY <1>3, <1>a, CallbackFrameStep, Zenon DEF CallbackFrame
<1>4. ASSUME NEW x \in Externals, ExternalChange(x) PROVE EventsInv'
  <2>1. UNCHANGED app
    BY <1>4, Zenon DEF ExternalChange, appVars
  <2>2. events' = Emitted("write") \/ DeleteFile
    BY <1>4, Zenon DEF ExternalChange, WriteFile
  <2> QED
    BY <2>1, <2>2, <1>b, <1>c, Zenon
<1>5. ASSUME NEW x \in Externals, ExternalFinish(x) PROVE EventsInv'
  BY <1>5, <1>a, <1>b, Zenon DEF ExternalFinish, WriteFile, appVars
<1>6. CASE Shutdown \/ Exit
  BY <1>6, Zenon DEF Shutdown, Exit, EventsInv
<1>7. CASE StartScan \/ StartWatching
  BY <1>7, Zenon DEF StartScan, StartWatching, EventsInv
<1>8. CASE UNCHANGED vars
  BY <1>8, <1>a, Zenon DEF vars, appVars
<1> QED
  BY <1>1, <1>2, <1>3, <1>4, <1>5, <1>6, <1>7, <1>8, Zenon DEF Next

\* Steps keep the application at rest until it has scanned the vault.
LEMMA RestStep ==
    ClientTypeOK /\ WatchTypeOK /\ EventsInv /\ RestInv /\ [Next]_vars => RestInv'
<1> SUFFICES ASSUME ClientTypeOK, WatchTypeOK, EventsInv, RestInv, [Next]_vars
             PROVE  RestInv'
  BY ZenonT(30)
<1>1. ASSUME NEW p \in Clients, ClientStep(p) PROVE RestInv'
  BY <1>1, ClientFrameStep, Zenon DEF ClientFrame, RestInv
<1>2. CASE HandleEvent
  BY <1>2, Zenon DEF HandleEvent, Watching, appVars, RestInv
<1>3. ASSUME NEW w \in Slots, CallbackStep(w) PROVE RestInv'
  BY <1>3, CallbackFrameStep DEF CallbackFrame, RestInv, FreeTimer
<1>4. ASSUME NEW x \in Externals, ExternalChange(x) \/ ExternalFinish(x) PROVE RestInv'
  BY <1>4, ZenonT(30) DEF ExternalChange, ExternalFinish, appVars, clientVars, watchVars, RestInv
<1>5. CASE Shutdown
  BY <1>5, Zenon DEF Shutdown, RestInv
<1>6. CASE Exit
  BY <1>6, Zenon DEF Exit, RestInv
<1>7. CASE StartScan \/ StartWatching
  BY <1>7, Zenon DEF StartScan, StartWatching, clientVars, watchVars, RestInv
<1>8. CASE UNCHANGED vars
  BY <1>8, Zenon DEF vars, appVars, clientVars, watchVars, RestInv
<1> QED
  BY <1>1, <1>2, <1>3, <1>4, <1>5, <1>6, <1>7, <1>8, Zenon DEF Next

\* Nobody has seen version v on disk.
Unseen(v) == disk # v /\ reconciled # v /\ \A w \in Slots : timer[w].hash # v

\* A version that is yet to be written has not been seen.
FreshInv ==
    /\ \A p \in Clients : Early(p) => Unseen(p)
    /\ \A x \in Externals : external[x] # "done" => Unseen(x)

\* Steps show a version to the watcher only once its writer has written it.
LEMMA FreshStep ==
    FileTypeOK /\ ClientTypeOK /\ WatchTypeOK /\ RestInv /\ FreshInv /\ [Next]_vars
        => FreshInv'
<1> SUFFICES ASSUME FileTypeOK, ClientTypeOK, WatchTypeOK, RestInv, FreshInv, [Next]_vars
             PROVE  FreshInv'
  BY Zenon
<1> USE VaultAssumption
<1>1. ASSUME NEW p \in Clients, ClientStep(p) PROVE FreshInv'
  <2>1. ClientFrame(p)
    BY <1>1, ClientFrameStep, Zenon
  <2>2. ASSUME NEW v \in Clients \cup Externals, Unseen(v), v # p PROVE Unseen(v)'
    BY <2>1, <2>2, Zenon DEF ClientFrame, Unseen, WriteFile, DeleteFile
  <2>3. ASSUME Unseen(p), Early(p)' PROVE Unseen(p)'
    BY <2>1, <2>3, Zenon DEF ClientFrame, Unseen, WriteFile, DeleteFile
  <2>4. \A q \in Clients : Early(q)' => Early(q)
    BY <2>1, Zenon DEF ClientFrame, Early
  <2>5. external' = external
    BY <2>1, Zenon DEF ClientFrame
  <2> QED
    BY <2>2, <2>3, <2>4, <2>5, ZenonT(30) DEF FreshInv
<1>2. CASE HandleEvent
  <2>1. ASSUME NEW v \in Clients \cup Externals, Unseen(v) PROVE Unseen(v)'
    BY <1>2, <2>1 DEF HandleEvent, Watching, Unseen, ArmedTimer, FreeTimer
  <2> QED
    BY <1>2, <2>1, ZenonT(30) DEF HandleEvent, Watching, clientVars, FreshInv, Early
<1>3. ASSUME NEW w \in Slots, CallbackStep(w) PROVE FreshInv'
  <2>1. CallbackFrame(w)
    BY <1>3, CallbackFrameStep, Zenon
  <2>2. ASSUME NEW v \in Clients \cup Externals, Unseen(v) PROVE Unseen(v)'
    BY <2>1, <2>2, ZenonT(30) DEF CallbackFrame, OthersKept, Unseen
  <2> QED
    BY <2>1, <2>2, ZenonT(30) DEF CallbackFrame, FreshInv, Early
<1>4. ASSUME NEW x \in Externals, ExternalChange(x) \/ ExternalFinish(x) PROVE FreshInv'
  <2>1. disk' \in {disk, x, Original, None, Corrupt} /\ UNCHANGED <<reconciled, timer, pc>>
    BY <1>4, ZenonT(30) DEF ExternalChange, ExternalFinish, watchVars, clientVars, WriteFile, DeleteFile
  <2>2. ASSUME NEW v \in Clients \cup Externals, Unseen(v), v # x PROVE Unseen(v)'
    BY <2>1, <2>2, Zenon DEF Unseen
  <2>3. \A y \in Externals \ {x} : external'[y] = external[y]
    BY <1>4, Zenon DEF ExternalChange, ExternalFinish, FileTypeOK
  <2>4. external[x] # "done" /\ (external'[x] # "done" => disk' \in {disk, None, Corrupt})
    BY <1>4, Zenon DEF ExternalChange, ExternalFinish, FileTypeOK
  <2>5. ASSUME external'[x] # "done" PROVE Unseen(x)'
    BY <2>1, <2>4, <2>5, Zenon DEF Unseen, FreshInv
  <2> QED
    BY <2>1, <2>2, <2>3, <2>5 DEF FreshInv, Early
<1>5. CASE Shutdown
  BY <1>5, Zenon DEF Shutdown, FreshInv, Early, Unseen, FreeTimer, clientVars
<1>6. CASE Exit
  BY <1>6, Zenon DEF Exit, FreshInv, Early, Unseen, FreeTimer, ClientTypeOK
<1>7. CASE StartScan \/ StartWatching
  BY <1>7, Zenon DEF StartScan, StartWatching, clientVars, watchVars, FreshInv, Early, Unseen
<1>8. CASE UNCHANGED vars
  BY <1>8, Zenon DEF vars, clientVars, watchVars, FreshInv, Early, Unseen
<1> QED
  BY <1>1, <1>2, <1>3, <1>4, <1>5, <1>6, <1>7, <1>8, Zenon DEF Next

\* Timer u is to compare the file with what the watcher has noted.
Writes(u) == timer[u].step = "armed" /\ timer[u].op = "write"

\* A callback is about to note a version that is no longer on disk.
Rewrites(w) ==
    timer[w].step \in {"read", "tx", "finish"} /\ timer[w].hash \notin {None, disk}

\* Then the change that it missed is in the queue, or in a timer that waits for it.
WaitInv ==
    (app = "up" /\ Readable) =>
        \A w \in Slots : Rewrites(w) =>
            events # <<>> \/ \E u \in Slots : Writes(u) /\ w \in timer[u].waits

\* While the watcher runs, a write leaves an event.
LEMMA WriteEvent ==
    ASSUME FileTypeOK, EventsInv, events' = Emitted("write"), app' = "up", app' = app
    PROVE  events' # <<>>
BY EmittedLast, Zenon

\* A callback that will note an old version already was to.
LEMMA RewritesBefore ==
    ASSUME WatchTypeOK, FileTypeOK, NEW w \in Slots, CallbackStep(w), app = "up", Rewrites(w)'
    PROVE  Rewrites(w)
<1>0. timer \in [Slots -> Timer] /\ \A v \in Slots : timer[v] \in Timer
  BY Zenon DEF WatchTypeOK
<1>1. disk' = disk
  BY Zenon DEF CallbackStep, TimerFires, CallbackRead, CallbackCommit, CallbackRemove,
     CallbackReport, Watching
<1>2. timer'[w].step \in {"read", "tx", "finish"} /\ timer'[w].hash \notin {None, disk}
  BY <1>1, Zenon DEF Rewrites
<1>3. ~CallbackEnds(w)
  BY <1>2, EndsFrame DEF FreeTimer
<1>4. CASE TimerFires(w)
  BY <1>0, <1>2, <1>3, <1>4 DEF TimerFires, Timer
<1>5. CASE CallbackRead(w)
  BY <1>0, <1>2, <1>5, ErrorFrame DEF CallbackRead, Timer, Rewrites
<1>6. CASE CallbackCommit(w)
  BY <1>0, <1>2, <1>6, ErrorFrame DEF CallbackCommit, Timer, Rewrites
<1>7. CASE CallbackRemove(w)
  BY <1>3, <1>7, Zenon DEF CallbackRemove, DbOpen
<1>8. CASE CallbackReport(w)
  BY <1>3, <1>8, Zenon DEF CallbackReport
<1> QED
  BY <1>4, <1>5, <1>6, <1>7, <1>8, Zenon DEF CallbackStep

\* The first event of a queue without a second one is its last.
LEMMA LastOfOne ==
    ASSUME NEW s \in Seq({"write", "remove"}), s # <<>>, Tail(s) = <<>>
    PROVE  Head(s) = s[Len(s)]
<1>1. Len(s) \in Nat /\ Len(s) # 0
  OBVIOUS
<1>2. Len(Tail(s)) = Len(s) - 1
  BY <1>1
<1>3. Len(<<>>) = 0
  BY Zenon
<1>4. Len(Tail(s)) = 0
  BY <1>3, Zenon
<1>5. Head(s) = s[1]
  OBVIOUS
<1>6. \A n \in Nat : 0 = n - 1 => n = 1
  OBVIOUS
<1>7. Len(s) = 1
  BY <1>1, <1>2, <1>4, <1>6, Zenon
<1> QED
  BY <1>5, <1>7, Zenon

\* Steps keep a missed change queued or armed while its callback runs: here it
\* matters that the debounce outlasts the callbacks under way.
LEMMA WaitStep ==
    ASSUME Timely, FileTypeOK, ClientTypeOK, WatchTypeOK, RestInv, EventsInv, WaitInv,
           [Next]_vars
    PROVE  WaitInv'
<1> USE VaultAssumption
<1>a. ASSUME UNCHANGED <<disk, events, timer, app>> PROVE WaitInv'
  BY <1>a, Zenon DEF WaitInv, Readable, Rewrites, Writes
<1>b. ASSUME events' = Emitted("write"), UNCHANGED app PROVE WaitInv'
  BY <1>b, WriteEvent, Zenon DEF WaitInv
<1>c. ASSUME DeleteFile PROVE WaitInv'
  BY <1>c, Zenon DEF DeleteFile, WaitInv, Readable, Version
<1>1. ASSUME NEW p \in Clients, ClientStep(p) PROVE WaitInv'
  BY <1>1, <1>a, <1>b, <1>c, ClientFrameStep, ZenonT(30) DEF ClientFrame, WriteFile
<1>2. CASE HandleEvent
  <2> SUFFICES ASSUME Readable, app = "up", NEW w \in Slots, Rewrites(w)', events' = <<>>
               PROVE  \E u \in Slots : Writes(u)' /\ w \in timer'[u].waits
    BY <1>2, ZenonT(30) DEF WaitInv, HandleEvent, Watching, appVars, Readable
  <2>1. events \in Seq({"write", "remove"}) /\ events # <<>> /\ events' = Tail(events)
    BY <1>2, Zenon DEF HandleEvent, FileTypeOK
  <2>2. Head(events) = events[Len(events)]
    BY <2>1, LastOfOne, Zenon
  <2>3. Head(events) = "write"
    BY <2>1, <2>2, Zenon DEF EventsInv, Readable, Version
  <2>4. PICK u \in Slots :
          /\ timer'[u] = ArmedTimer("write")
          /\ \A v \in Slots \ {u} : timer'[v] \in {FreeTimer, timer[v]}
    BY <1>2, <2>3, SMTT(30) DEF HandleEvent
  <2>5. disk' = disk
    BY <1>2, Zenon DEF HandleEvent, Watching
  <2>6. timer[w].step \in {"read", "tx", "finish"}
    BY <2>4, <2>5, SMTT(30) DEF Rewrites, ArmedTimer, FreeTimer
  <2>7. w \in timer'[u].waits /\ Writes(u)'
    BY <2>4, <2>6 DEF ArmedTimer, UnderWay, Running, Writes
  <2> QED
    BY <2>7, Zenon
<1>3. ASSUME NEW w \in Slots, CallbackStep(w) PROVE WaitInv'
  <2>1. CallbackFrame(w)
    BY <1>3, CallbackFrameStep, Zenon
  <2> SUFFICES ASSUME Readable, app = "up", NEW v \in Slots, Rewrites(v)', events = <<>>
               PROVE  \E u \in Slots : Writes(u)' /\ v \in timer'[u].waits
    BY <2>1, ZenonT(30) DEF WaitInv, CallbackFrame, Readable
  <2>2. Rewrites(v)
    BY <2>1, <1>3, RewritesBefore, Zenon DEF CallbackFrame, OthersKept, Rewrites
  <2>3. PICK u \in Slots : Writes(u) /\ v \in timer[u].waits
    BY <2>2, ZenonT(30) DEF WaitInv
  <2>4. v \in UnderWay
    BY <2>2, Zenon DEF Rewrites, UnderWay, Running
  <2>5. u # w
    <3>1. ~Elapsed(u)
      BY <2>3, <2>4, Zenon DEF Elapsed
    <3>2. timer[u].step = "armed"
      BY <2>3, Zenon DEF Writes
    <3> QED
      BY <1>3, <3>1, <3>2, Zenon DEF CallbackStep, TimerFires, CallbackRead, CallbackCommit,
         CallbackRemove, CallbackReport
  <2>6. Writes(u)'
    BY <2>1, <2>3, <2>5, Zenon DEF CallbackFrame, OthersKept, Writes
  <2>7. CASE v # w
    BY <2>1, <2>3, <2>5, <2>6, <2>7, Zenon DEF CallbackFrame, OthersKept
  <2>8. CASE v = w
    <3>1. timer'[w].step \notin {"free", "blocked"}
      BY <2>8, Zenon DEF Rewrites
    <3> QED
      BY <2>1, <2>3, <2>5, <2>6, <2>8, <3>1, Zenon DEF CallbackFrame, OthersKept
  <2> QED
    BY <2>7, <2>8, Zenon
<1>4. ASSUME NEW x \in Externals, ExternalChange(x) PROVE WaitInv'
  <2>1. UNCHANGED app
    BY <1>4, Zenon DEF ExternalChange, appVars
  <2>2. events' = Emitted("write") \/ DeleteFile
    BY <1>4, ZenonT(30) DEF ExternalChange, WriteFile
  <2> QED
    BY <2>1, <2>2, <1>b, <1>c, Zenon
<1>5. ASSUME NEW x \in Externals, ExternalFinish(x) PROVE WaitInv'
  BY <1>5, <1>a, <1>b, Zenon DEF ExternalFinish, WriteFile, appVars, watchVars
<1>6. CASE Shutdown \/ Exit \/ StartScan
  BY <1>6, Zenon DEF Shutdown, Exit, StartScan, WaitInv
<1>7. CASE StartWatching
  BY <1>7 DEF StartWatching, watchVars, RestInv, WaitInv, Rewrites, FreeTimer
<1>8. CASE UNCHANGED vars
  BY <1>8, <1>a, Zenon DEF vars, appVars, watchVars
<1> QED
  BY <1>1, <1>2, <1>3, <1>4, <1>5, <1>6, <1>7, <1>8, Zenon DEF Next

\* Client p will index what is on disk now, or delete it.
Works(p) ==
    \/ pc[p] \in {"note", "index", "undo", "unfile"}
    \/ pc[p] = "tx" /\ got[p] = disk

\* So will the callback of timer w.
Looks(w) ==
    \/ timer[w].step = "read"
    \/ timer[w].step = "tx" /\ timer[w].got = disk

\* A callback is about to note what is on disk.
Noting == \E w \in Slots : timer[w].step = "finish" /\ timer[w].hash = disk

\* A change on its way to a callback that will not take it for noted.
Repaired ==
    /\ ~Noting
    /\ \/ \E w \in Slots : Rewrites(w)
       \/ /\ events # <<>> \/ \E u \in Slots : Writes(u)
          /\ reconciled # disk

\* Where the index does not agree with the file, somebody will see to it.
RepairInv ==
    (app = "up" /\ ~raced /\ Readable) =>
        \/ Indexed(disk)
        \/ \E p \in Clients : Works(p)
        \/ \E w \in Slots : Looks(w)
        \/ Repaired

\* The scan at the start has indexed the file.
ScanInv == (app = "scan" /\ ~raced /\ Readable) => Indexed(disk)

\* A step of a client that leaves the file alone: it goes on to index the file, or
\* what it did before is done and the index agrees with the file if it did.
LEMMA ClientRepair ==
    ASSUME NEW p \in Clients, RepairInv, ClientFrame(p), UNCHANGED <<disk, events>>,
           \/ raced'
           \/ Works(p)'
           \/ /\ reconciled' = reconciled
              /\ Readable /\ (Indexed(disk) \/ Works(p)) => Indexed(disk)'
    PROVE  RepairInv'
<1> SUFFICES ASSUME app = "up", ~raced, Readable, ~Works(p)', ~raced'
             PROVE  \/ Indexed(disk)'
                    \/ (\E q \in Clients : Works(q))'
                    \/ (\E w \in Slots : Looks(w))'
                    \/ Repaired'
  BY Zenon DEF RepairInv, ClientFrame, Readable
<1>1. CASE Indexed(disk) \/ Works(p)
  BY <1>1, ZenonT(30)
<1>2. ASSUME NEW q \in Clients \ {p}, Works(q) PROVE Works(q)'
  BY <1>2, Zenon DEF ClientFrame, Works
<1>3. ASSUME NEW w \in Slots, Looks(w) PROVE Looks(w)'
  BY <1>3, Zenon DEF ClientFrame, Looks
<1>4. ASSUME Repaired PROVE Repaired'
  BY <1>4, Zenon DEF ClientFrame, Repaired, Noting, Rewrites, Writes
<1> QED
  BY <1>1, <1>2, <1>3, <1>4, Zenon DEF RepairInv

\* A version that nobody has seen appears on disk.
LEMMA WriteRepair ==
    ASSUME FileTypeOK, EventsInv, NEW v, WriteFile(v), UNCHANGED <<app, timer, reconciled>>,
           reconciled # v, \A w \in Slots : timer[w].step = "finish" => timer[w].hash # v
    PROVE  RepairInv'
<1> SUFFICES ASSUME app' = "up"
             PROVE  Repaired'
  BY Zenon DEF RepairInv
<1>1. events' # <<>>
  BY WriteEvent, Zenon DEF WriteFile
<1>2. ~Noting'
  BY Zenon DEF Noting, WriteFile
<1> QED
  BY <1>1, <1>2, Zenon DEF Repaired, WriteFile

\* The file is deleted.
LEMMA DeleteRepair == DeleteFile => RepairInv'
BY VaultAssumption, Zenon DEF DeleteFile, RepairInv, Readable, Version

\* A row is not the absence of one.
LEMMA RowExists ==
    ASSUME NEW v \in Version, NEW a \in BOOLEAN
    PROVE  [ver |-> v, archived |-> a] # None
<1>1. [ver |-> v, archived |-> a] \in [ver : Version, archived : BOOLEAN]
  BY Zenon
<1>2. None \notin [ver : Version, archived : BOOLEAN]
  BY VaultAssumption, Zenon DEF Version
<1> QED
  BY <1>1, <1>2, Zenon

\* A transaction of v indexes v, and leaves an archived document archived.
LEMMA IndexTxIndexes ==
    ASSUME NEW v \in Version, IndexTx(v)
    PROVE  /\ v = disk /\ disk' = disk => Indexed(disk)'
           /\ Archived => Archived'
<1>1. CASE Archived
  BY <1>1, Zenon DEF Archived, IndexTx, indexVars, Indexed
<1>2. CASE ~Archived
  <2>1. row' = [ver |-> v, archived |-> FALSE] /\ fts' = v
    BY <1>2, Zenon DEF Archived, IndexTx
  <2> QED
    BY <1>2, <2>1, RowExists, Zenon DEF Indexed, Active
<1> QED
  BY <1>1, <1>2, Zenon

\* Archiving leaves an archived row.
LEMMA ArchiveArchives ==
    ASSUME IndexTypeOK, NEW p \in Clients, Archive(p)
    PROVE  Archived'
<1>1. row.ver \in Version
  BY Zenon DEF Archive, Active, IndexTypeOK
<1>2. row' = [ver |-> row.ver, archived |-> TRUE]
  BY Zenon DEF Archive
<1> QED
  BY <1>1, <1>2, RowExists, Zenon DEF Archived

\* An index call without saveMu that is out of date is counted as raced, unless a
\* callback is on its way.
LEMMA CommitRepair ==
    ASSUME NEW p \in Clients, ClientTypeOK, GotInv, RepairInv, IndexCommit(p), ClientFrame(p)
    PROVE  RepairInv'
<1>0. UNCHANGED <<disk, events, reconciled>> /\ pc[p] = "tx"
  BY Zenon DEF IndexCommit
<1>1. CASE (~DbOpen \/ Saving(p)) /\ IndexFails(p)
  <2>1. CASE Saving(p)
    <3>1. Works(p)'
      BY <1>1, <2>1, Zenon DEF IndexFails, Works, ClientTypeOK
    <3> QED
      BY <1>0, <3>1, ClientRepair, Zenon
  <2>2. CASE ~DbOpen
    BY <2>2, Zenon DEF DbOpen, ClientFrame, RepairInv
  <2> QED
    BY <1>1, <2>1, <2>2, Zenon
<1>2. CASE IndexTx(got[p]) /\ raced' = (raced \/ (got[p] # disk /\ Settled /\ ~Archived))
  <2>1. got[p] \in Version
    BY <1>0, Zenon DEF GotInv
  <2>2. CASE got[p] = disk \/ Archived
    <3>1. Indexed(disk)'
      BY <1>0, <1>2, <2>1, <2>2, IndexTxIndexes, Zenon DEF Indexed
    <3> QED
      BY <3>1, Zenon DEF RepairInv
  <2>3. CASE got[p] # disk /\ ~Archived
    <3>1. raced' \/ ~Indexed(disk)
      BY <1>2, <2>3, ZenonT(30) DEF Settled
    <3>2. ~Works(p)
      BY <1>0, <2>3, Zenon DEF Works
    <3> QED
      BY <1>0, <3>1, <3>2, ClientRepair, Zenon
  <2> QED
    BY <2>2, <2>3, Zenon
<1> QED
  BY <1>1, <1>2, ZenonT(30) DEF IndexCommit

\* Steps of clients leave a disagreement to somebody.
LEMMA ClientRepairStep ==
    ASSUME FileTypeOK, IndexTypeOK, ClientTypeOK, GotInv, EventsInv, FreshInv, RepairInv,
           NEW p \in Clients, ClientStep(p)
    PROVE  RepairInv'
<1>0. ClientFrame(p)
  BY ClientFrameStep, Zenon
<1>a. ASSUME UNCHANGED <<disk, events, row, fts, reconciled>>, ~Works(p) PROVE RepairInv'
  <2>1. Indexed(disk) => Indexed(disk)'
    BY <1>a, Zenon DEF Indexed, Active, Archived
  <2> QED
    BY <1>0, <1>a, <2>1, ClientRepair, Zenon
<1>b. ASSUME UNCHANGED <<disk, events>>, Works(p)' PROVE RepairInv'
  BY <1>0, <1>b, ClientRepair, Zenon
<1>c. ASSUME UNCHANGED <<disk, events, reconciled>>, Archived' PROVE RepairInv'
  BY <1>c, Zenon DEF RepairInv, Indexed
<1>d. ASSUME WriteFile(p), Early(p), UNCHANGED reconciled PROVE RepairInv'
  BY <1>0, <1>d, WriteRepair, Zenon DEF FreshInv, Unseen, ClientFrame
<1>e. ASSUME raced' PROVE RepairInv'
  BY <1>e, Zenon DEF RepairInv
<1>1. CASE Load(p) \/ SaveNew(p) \/ MoveBegin(p) \/ TagBegin(p) \/ List(p)
  BY <1>1, <1>a, ZenonT(30) DEF Load, SaveNew, MoveBegin, TagBegin, List, Begin, Step, Works, indexVars
<1>2. CASE SaveBegin(p)
  BY <1>2, <1>a, ZenonT(30) DEF SaveBegin, Works, indexVars
<1>3. CASE Write(p)
  BY <1>3, <1>d, Zenon DEF Write, Early
<1>4. CASE NoteAppWrite(p)
  BY <1>4, <1>b, Zenon DEF NoteAppWrite, Step, Works, ClientTypeOK
<1>5. CASE IndexRead(p)
  <2>1. CASE Readable
    BY <1>5, <2>1, <1>b, Zenon DEF IndexRead, Works, ClientTypeOK
  <2>2. CASE ~Readable
    BY <1>5, <2>2, Zenon DEF IndexRead, RepairInv, Readable
  <2> QED
    BY <2>1, <2>2, Zenon
<1>6. CASE IndexCommit(p)
  BY <1>0, <1>6, CommitRepair, Zenon
<1>7. CASE UndoSave(p) \/ HardDeleteFile(p)
  BY <1>7, DeleteRepair, Zenon DEF UndoSave, HardDeleteFile
<1>8. CASE Archive(p)
  BY <1>8, <1>c, ArchiveArchives, Zenon DEF Archive
<1>9. CASE Restore(p) \/ Reindex(p)
  BY <1>9, <1>b, Zenon DEF Restore, Reindex, Begin, Step, Works, ClientTypeOK
<1>10. CASE HardDelete(p)
  BY <1>10, <1>b, Zenon DEF HardDelete, Begin, Step, Works, ClientTypeOK
<1>11. CASE HardDeleteRow(p) \/ Prune(p)
  <2>1. UNCHANGED <<disk, fts, events, reconciled>> /\ ~Works(p)
    BY <1>11, Zenon DEF HardDeleteRow, Prune, Works
  <2>2. row' = row \/ raced' \/ disk = None
    BY <1>11, Zenon DEF HardDeleteRow, Prune
  <2>3. CASE disk = None
    BY <2>1, <2>3, VaultAssumption, Zenon DEF RepairInv, Readable, Version
  <2> QED
    BY <2>1, <2>2, <2>3, <1>a, <1>e, Zenon
<1>12. CASE Unindex(p)
  <2>1. UNCHANGED <<disk, row, events, reconciled>> /\ ~Works(p)
    BY <1>12, Zenon DEF Unindex, Works
  <2>2. Archived \/ raced' \/ disk = None
    BY <1>12, Zenon DEF Unindex, Archived
  <2>3. CASE disk = None
    BY <2>1, <2>3, VaultAssumption, Zenon DEF RepairInv, Readable, Version
  <2> QED
    BY <2>1, <2>2, <2>3, <1>c, <1>e, Zenon DEF Archived
<1>13. CASE Pull(p)
  BY <1>13, <1>d, DeleteRepair, Zenon DEF Pull, Begin, Step, Early
<1>14. CASE Forget(p)
  <2>1. UNCHANGED <<disk, events, reconciled>> /\ ~Works(p)
    BY <1>14, Zenon DEF Forget, Works
  <2>2. (UNCHANGED <<row, fts>>) \/ raced' \/ disk = None
    BY <1>14, Zenon DEF Forget, indexVars
  <2>3. CASE disk = None
    BY <2>1, <2>3, VaultAssumption, Zenon DEF RepairInv, Readable, Version
  <2> QED
    BY <2>1, <2>2, <2>3, <1>a, <1>e, Zenon
<1> QED
  BY <1>1, <1>2, <1>3, <1>4, <1>5, <1>6, <1>7, <1>8, <1>9, <1>10, <1>11, <1>12, <1>13,
     <1>14, Zenon DEF ClientStep

\* A callback that does not put the index out of date, and notes what is on disk
\* only if somebody else sees to it: what is on its way stays on its way.
LEMMA CallbackRepair ==
    ASSUME NEW w \in Slots, RepairInv, WaitInv, CallbackFrame(w), Readable, app = "up",
           ~raced, timer[w].step # "armed" \/ reconciled = disk \/ timer[w].op = "remove",
           Rewrites(w) => Rewrites(w)' \/ reconciled' # disk, ~Looks(w),
           Indexed(disk) => Indexed(disk)',
           Repaired => reconciled' = reconciled \/ reconciled' # disk,
           timer'[w].step = "finish" => timer'[w].hash # disk
    PROVE  RepairInv'
<1>1. CASE Indexed(disk)
  BY <1>1, Zenon DEF RepairInv
<1>2. ASSUME NEW p \in Clients, Works(p) PROVE RepairInv'
  <2>1. Works(p)'
    BY <1>2, Zenon DEF CallbackFrame, Works
  <2> QED
    BY <2>1, ZenonT(30) DEF RepairInv
<1>3. ASSUME NEW v \in Slots, Looks(v) PROVE RepairInv'
  <2>1. Looks(v)'
    BY <1>3, Zenon DEF CallbackFrame, OthersKept, Looks
  <2> QED
    BY <2>1, ZenonT(30) DEF RepairInv
<1>4. CASE Repaired
  <2>1. ~Noting'
    BY <1>4, ZenonT(30) DEF CallbackFrame, OthersKept, Noting, Repaired
  <2>2. ASSUME NEW v \in Slots, Rewrites(v) PROVE RepairInv'
    <3>1. CASE v # w \/ Rewrites(w)'
      <4>1. Rewrites(v)'
        BY <2>2, <3>1, Zenon DEF CallbackFrame, OthersKept, Rewrites
      <4> QED
        BY <2>1, <4>1, ZenonT(30) DEF RepairInv, Repaired
    <3>2. CASE v = w /\ reconciled' # disk
      <4>1. events # <<>> \/ \E u \in Slots \ {w} : Writes(u)
        BY <2>2, <3>2, Zenon DEF WaitInv, Rewrites, Writes
      <4>2. events' # <<>> \/ \E u \in Slots : Writes(u)'
        BY <4>1, ZenonT(30) DEF CallbackFrame, OthersKept, Writes
      <4> QED
        BY <2>1, <3>2, <4>2, ZenonT(30) DEF RepairInv, Repaired, CallbackFrame
    <3> QED
      BY <2>2, <3>1, <3>2, Zenon
  <2>3. CASE reconciled # disk /\ events # <<>>
    <3>1. reconciled' # disk' /\ events' # <<>>
      BY <1>4, <2>3, Zenon DEF CallbackFrame
    <3> QED
      BY <2>1, <3>1, Zenon DEF RepairInv, Repaired
  <2>4. ASSUME reconciled # disk, NEW u \in Slots, Writes(u) PROVE RepairInv'
    <3>1. u # w
      BY <2>4, Zenon DEF Writes
    <3>2. Writes(u)' /\ reconciled' # disk'
      BY <1>4, <2>4, <3>1, Zenon DEF CallbackFrame, OthersKept, Writes
    <3> QED
      BY <2>1, <3>2, ZenonT(30) DEF RepairInv, Repaired
  <2> QED
    BY <1>4, <2>2, <2>3, <2>4, ZenonT(30) DEF Repaired
<1> QED
  BY <1>1, <1>2, <1>3, <1>4, ZenonT(30) DEF RepairInv

\* Steps of callbacks leave a disagreement to somebody.
LEMMA CallbackRepairStep ==
    ASSUME IndexTypeOK, WatchTypeOK, FileTypeOK, GotInv, RestInv, WaitInv, RepairInv,
           NEW w \in Slots, CallbackStep(w)
    PROVE  RepairInv'
<1>0. CallbackFrame(w)
  BY CallbackFrameStep, Zenon
<1> SUFFICES ASSUME app = "up", ~raced, ~raced', Readable
             PROVE  RepairInv'
  BY <1>0, Zenon DEF RepairInv, CallbackFrame, Readable
<1>a. timer \in [Slots -> Timer] /\ timer[w] \in Timer
  BY Zenon DEF WatchTypeOK
<1>b. ASSUME UNCHANGED <<row, fts>> PROVE Indexed(disk) => Indexed(disk)'
  BY <1>0, <1>b, Zenon DEF CallbackFrame, Indexed, Active, Archived
<1>c. ASSUME Looks(w)' PROVE RepairInv'
  BY <1>c, Zenon DEF RepairInv
<1>d. ASSUME Indexed(disk)' PROVE RepairInv'
  BY <1>d, Zenon DEF RepairInv
<1>1. CASE TimerFires(w)
  <2>0. UNCHANGED <<row, fts>> /\ ~Looks(w) /\ ~Rewrites(w)
    BY <1>1, Zenon DEF TimerFires, indexVars, Looks, Rewrites
  <2>1. CASE timer[w].op = "remove"
    <3>1. timer'[w].step = "remove" /\ reconciled' = None
      BY <1>1, <1>a, <2>1, SMTT(30) DEF TimerFires, Timer
    <3>2. reconciled' # disk
      BY <3>1, VaultAssumption, Zenon DEF Readable, Version
    <3> QED
      BY <1>0, <1>b, <2>0, <2>1, <3>1, <3>2, CallbackRepair, Zenon
  <2>2. CASE timer[w].op = "write" /\ SelfWrite
    <3>1. timer'[w].step = "free" /\ reconciled = disk /\ reconciled' = reconciled
      BY <1>1, <2>2, EndsFrame DEF TimerFires, FreeTimer, SelfWrite
    <3> QED
      BY <1>0, <1>b, <2>0, <3>1, CallbackRepair, Zenon
  <2>3. CASE timer[w].op = "write" /\ ~SelfWrite
    <3>1. timer'[w].step = "read"
      BY <1>1, <1>a, <2>3 DEF TimerFires, Timer
    <3> QED
      BY <1>c, <3>1, Zenon DEF Looks
  <2> QED
    BY <1>1, <2>1, <2>2, <2>3, Zenon DEF TimerFires
<1>2. CASE CallbackRead(w)
  <2>1. timer'[w].step = "tx" /\ timer'[w].got = disk
    BY <1>2, <1>a DEF CallbackRead, Timer
  <2> QED
    BY <1>0, <1>c, <2>1, Zenon DEF Looks, CallbackFrame
<1>3. CASE CallbackCommit(w)
  <2>1. /\ timer[w].step = "tx" /\ IndexTx(timer[w].got)
        /\ timer' = [timer EXCEPT ![w].step = "finish"] /\ reconciled' = reconciled
    BY <1>3, Zenon DEF CallbackCommit, DbOpen
  <2>2. raced' = (raced \/ Overtaken(w))
    BY <1>3, Zenon DEF CallbackCommit, DbOpen
  <2>3. ~Overtaken(w)
    BY <2>2, Zenon
  <2>4. timer[w].got \in Version
    BY <2>1, Zenon DEF GotInv
  <2>5. /\ timer'[w].step = "finish" /\ timer'[w].hash = timer[w].hash
        /\ \A v \in Slots \ {w} : timer'[v] = timer[v]
    BY <1>a, <2>1, Zenon DEF Timer
  <2>6. disk' = disk
    BY <1>0, Zenon DEF CallbackFrame
  <2>7. CASE timer[w].got = disk \/ Archived
    <3>1. Indexed(disk)'
      BY <2>1, <2>4, <2>6, <2>7, IndexTxIndexes, Zenon DEF Indexed
    <3> QED
      BY <1>d, <3>1, Zenon
  <2>8. CASE timer[w].got # disk /\ ~Archived /\ ~Settled
    <3>1. timer[w].hash # disk
      BY <2>3, <2>8, Zenon DEF Overtaken
    <3>2. ~Indexed(disk) /\ ~Looks(w) /\ (Rewrites(w) => Rewrites(w)')
      BY <2>1, <2>5, <2>6, <2>8, Zenon DEF Settled, Looks, Rewrites
    <3> QED
      BY <1>0, <2>1, <2>5, <3>1, <3>2, CallbackRepair, Zenon
  <2>9. CASE timer[w].got # disk /\ ~Archived /\ Settled
    <3>1. timer[w].got = timer[w].hash /\ \A v \in Slots \ {w} : ~Running(v)
      BY <2>3, <2>9, Zenon DEF Overtaken
    <3>2. timer[w].hash \notin {None, disk}
      BY <2>4, <2>9, <3>1, VaultAssumption, Zenon DEF Version
    <3>3. Rewrites(w)'
      BY <2>5, <2>6, <3>2, Zenon DEF Rewrites
    <3>4. ~Noting'
      BY <2>5, <2>6, <3>1, <3>2, Zenon DEF Noting, Running
    <3> QED
      BY <3>3, <3>4, Zenon DEF RepairInv, Repaired
  <2> QED
    BY <2>7, <2>8, <2>9, Zenon
<1>4. CASE CallbackRemove(w)
  <2>1. timer[w].step = "remove" /\ CallbackEnds(w) /\ reconciled' = reconciled
    BY <1>4, Zenon DEF CallbackRemove, DbOpen
  <2>2. ~Settled
    BY <1>4, ZenonT(30) DEF CallbackRemove, DbOpen
  <2>3. timer'[w].step = "free"
    BY <2>1, EndsFrame, SMTT(30) DEF FreeTimer
  <2> QED
    BY <1>0, <2>1, <2>2, <2>3, CallbackRepair, Zenon DEF Looks, Rewrites, Settled
<1>5. CASE CallbackReport(w)
  <2>1. /\ timer[w].step = "finish" /\ CallbackEnds(w) /\ UNCHANGED <<row, fts>>
        /\ reconciled' = IF timer[w].hash = None THEN reconciled ELSE timer[w].hash
    BY <1>5, Zenon DEF CallbackReport, indexVars
  <2>2. timer'[w].step = "free"
    BY <2>1, EndsFrame DEF FreeTimer
  <2>3. ~Looks(w) /\ (Rewrites(w) => reconciled' # disk)
    BY <2>1, Zenon DEF Looks, Rewrites
  <2>4. Repaired => reconciled' = reconciled \/ reconciled' # disk
    BY <2>1, Zenon DEF Repaired, Noting
  <2> QED
    BY <1>0, <1>b, <2>1, <2>2, <2>3, <2>4, CallbackRepair, ZenonT(30)
<1> QED
  BY <1>1, <1>2, <1>3, <1>4, <1>5, Zenon DEF CallbackStep

\* Another program that puts the first version back.
LEMMA ExternalRepair ==
    ASSUME FileTypeOK, EventsInv, FreshInv, NEW x \in Externals,
           ExternalChange(x) \/ ExternalFinish(x), RepairInv
    PROVE  RepairInv'
<1>0. UNCHANGED <<app, timer, reconciled, row, fts, pc, got>>
  BY Zenon DEF ExternalChange, ExternalFinish, appVars, watchVars, indexVars, clientVars
<1>1. external[x] # "done"
  BY Zenon DEF ExternalChange, ExternalFinish
<1>2. CASE WriteFile(x)
  BY <1>0, <1>1, <1>2, WriteRepair, Zenon DEF FreshInv, Unseen
<1>3. CASE DeleteFile
  BY <1>3, DeleteRepair, Zenon
<1>4. CASE disk' = Corrupt
  BY <1>4, VaultAssumption, Zenon DEF RepairInv, Readable, Version
<1>5. CASE WriteFile(Original) /\ (Noted(Original) => Indexed(Original))
  <2>1. CASE Noted(Original)
    <3>1. Indexed(disk)'
      BY <1>0, <1>5, <2>1, Zenon DEF WriteFile, Indexed, Active, Archived
    <3> QED
      BY <3>1, Zenon DEF RepairInv
  <2>2. CASE ~Noted(Original)
    BY <1>0, <1>5, <2>2, WriteRepair, Zenon DEF Noted
  <2> QED
    BY <2>1, <2>2, Zenon
<1>6. CASE raced'
  BY <1>6, Zenon DEF RepairInv
<1>7. CASE UNCHANGED <<disk, events>> /\ (raced => raced')
  BY <1>0, <1>7, Zenon DEF RepairInv, Readable, Indexed, Active, Archived, Works, Looks, Repaired,
     Noting, Rewrites, Writes
<1>8. CASE ExternalChange(x)
  BY <1>2, <1>3, <1>4, <1>5, <1>6, <1>8, Zenon DEF ExternalChange
<1>9. CASE ExternalFinish(x)
  BY <1>2, <1>6, <1>7, <1>9, Zenon DEF ExternalFinish
<1> QED
  BY <1>8, <1>9, Zenon

\* Taking an event off the queue arms a timer for the last change.
LEMMA HandleRepair ==
    ASSUME FileTypeOK, WatchTypeOK, EventsInv, RepairInv, HandleEvent
    PROVE  RepairInv'
<1>0. UNCHANGED <<disk, pc, got, row, fts, app, reconciled, raced>>
  BY Zenon DEF HandleEvent, Watching, clientVars, indexVars, appVars
<1>1. events \in Seq({"write", "remove"}) /\ events # <<>> /\ events' = Tail(events)
  BY Zenon DEF HandleEvent, FileTypeOK
<1>2. PICK u \in Slots :
        /\ timer[u].step \in {"free", "armed"} /\ timer'[u] = ArmedTimer(Head(events))
        /\ \A v \in Slots \ {u} :
              timer'[v] = timer[v] \/ (timer'[v] = FreeTimer /\ timer[v].step = "armed")
  BY Zenon DEF HandleEvent
<1>3. \A v \in Slots : timer[v].step \notin {"free", "armed"} => timer'[v] = timer[v]
  BY <1>2, Zenon
<1>4. \A v \in Slots : timer'[v].step \in {"free", "armed"} \/ timer'[v] = timer[v]
  BY <1>2 DEF FreeTimer, ArmedTimer
<1> SUFFICES ASSUME app = "up", ~raced, Readable
             PROVE  RepairInv'
  BY <1>0, Zenon DEF RepairInv, Readable
<1>5. CASE Indexed(disk)
  BY <1>0, <1>5, Zenon DEF RepairInv, Indexed, Active, Archived
<1>6. ASSUME NEW p \in Clients, Works(p) PROVE RepairInv'
  BY <1>0, <1>6, Zenon DEF RepairInv, Works
<1>7. ASSUME NEW w \in Slots, Looks(w) PROVE RepairInv'
  <2>1. Looks(w)'
    BY <1>0, <1>3, <1>7, Zenon DEF Looks
  <2> QED
    BY <2>1, ZenonT(30) DEF RepairInv
<1>8. CASE Repaired
  <2>1. ~Noting'
    BY <1>0, <1>4, <1>8, Zenon DEF Noting, Repaired
  <2>2. ASSUME NEW w \in Slots, Rewrites(w) PROVE RepairInv'
    <3>1. Rewrites(w)'
      BY <1>0, <1>3, <2>2, Zenon DEF Rewrites
    <3> QED
      BY <2>1, <3>1, ZenonT(30) DEF RepairInv, Repaired
  <2>3. CASE reconciled # disk
    <3>1. CASE events' # <<>>
      BY <1>0, <2>1, <2>3, <3>1, Zenon DEF RepairInv, Repaired
    <3>2. CASE events' = <<>>
      <4>1. Head(events) = "write"
        BY <1>1, <3>2, LastOfOne, VaultAssumption, Zenon DEF EventsInv, Readable, Version
      <4>2. Writes(u)'
        BY <1>2, <4>1, SMTT(60) DEF Writes, ArmedTimer
      <4> QED
        BY <1>0, <2>1, <2>3, <4>2, ZenonT(30) DEF RepairInv, Repaired
    <3> QED
      BY <3>1, <3>2, Zenon
  <2> QED
    BY <1>8, <2>2, <2>3, ZenonT(30) DEF Repaired
<1> QED
  BY <1>5, <1>6, <1>7, <1>8, ZenonT(30) DEF RepairInv

\* Steps keep the scan's result until the watcher runs.
LEMMA ScanStep ==
    ASSUME ClientTypeOK, WatchTypeOK, FileTypeOK, RestInv, ScanInv, [Next]_vars
    PROVE  ScanInv'
<1>1. ASSUME NEW p \in Clients, ClientStep(p) PROVE ScanInv'
  BY <1>1, ClientFrameStep, ZenonT(30) DEF ClientFrame, RestInv, ScanInv
<1>2. CASE HandleEvent
  BY <1>2, Zenon DEF HandleEvent, Watching, appVars, ScanInv
<1>3. ASSUME NEW w \in Slots, CallbackStep(w) PROVE ScanInv'
  BY <1>3, CallbackFrameStep, SMTT(60) DEF CallbackFrame, RestInv, ScanInv, FreeTimer
<1>4. ASSUME NEW x \in Externals, ExternalChange(x) \/ ExternalFinish(x) PROVE ScanInv'
  BY <1>4, Zenon DEF ExternalChange, ExternalFinish, appVars, ScanInv
<1>5. CASE Shutdown \/ Exit \/ StartWatching
  BY <1>5, Zenon DEF Shutdown, Exit, StartWatching, ScanInv
<1>6. CASE StartScan
  <2>1. CASE Readable
    BY <1>6, <2>1, IndexTxIndexes, Zenon DEF StartScan, Readable, ScanInv
  <2>2. CASE ~Readable
    BY <1>6, <2>2, Zenon DEF StartScan, Readable, ScanInv
  <2> QED
    BY <2>1, <2>2, Zenon
<1>7. CASE UNCHANGED vars
  BY <1>7, Zenon DEF vars, appVars, indexVars, ScanInv, Readable, Indexed, Active, Archived
<1> QED
  BY <1>1, <1>2, <1>3, <1>4, <1>5, <1>6, <1>7, Zenon DEF Next

\* Every step leaves a disagreement of file and index to somebody who will see it.
LEMMA RepairStep ==
    ASSUME FileTypeOK, IndexTypeOK, ClientTypeOK, WatchTypeOK, GotInv, RestInv, EventsInv,
           FreshInv, WaitInv, ScanInv, RepairInv, [Next]_vars
    PROVE  RepairInv'
<1>1. ASSUME NEW p \in Clients, ClientStep(p) PROVE RepairInv'
  BY <1>1, ClientRepairStep, Zenon
<1>2. CASE HandleEvent
  BY <1>2, HandleRepair, Zenon
<1>3. ASSUME NEW w \in Slots, CallbackStep(w) PROVE RepairInv'
  BY <1>3, CallbackRepairStep, Zenon
<1>4. ASSUME NEW x \in Externals, ExternalChange(x) \/ ExternalFinish(x) PROVE RepairInv'
  BY <1>4, ExternalRepair, Zenon
<1>5. CASE Shutdown \/ Exit \/ StartScan
  BY <1>5, Zenon DEF Shutdown, Exit, StartScan, RepairInv
<1>6. CASE StartWatching
  BY <1>6, Zenon DEF StartWatching, indexVars, ScanInv, RepairInv, Readable, Indexed, Active, Archived
<1>7. CASE UNCHANGED vars
  BY <1>7, ZenonT(30) DEF vars, appVars, indexVars, clientVars, watchVars, RepairInv, Readable,
     Indexed, Active, Archived, Works, Looks, Repaired, Noting, Rewrites, Writes
<1> QED
  BY <1>1, <1>2, <1>3, <1>4, <1>5, <1>6, <1>7, Zenon DEF Next

\* The inductive invariant of the agreement of file and index.
IndexInvariant == RestInv /\ EventsInv /\ FreshInv /\ WaitInv /\ ScanInv /\ RepairInv

\* It holds in a vault after its first scan.
LEMMA InitIndex == Init => IndexInvariant
<1> SUFFICES ASSUME Init PROVE IndexInvariant
  BY Zenon
<1> USE VaultAssumption
<1>1. RestInv /\ EventsInv /\ ScanInv
  BY Zenon DEF Init, RestInv, EventsInv, ScanInv
<1>2. FreshInv /\ WaitInv
  BY ZenonT(30) DEF Init, FreshInv, Unseen, FreeTimer, WaitInv, Rewrites
<1>3. CASE disk = Original /\ row = [ver |-> Original, archived |-> FALSE]
  <2>1. row # None
    BY <1>3, RowExists, Zenon DEF Version
  <2>2. Indexed(disk)
    BY <1>3, <2>1, Zenon DEF Init, Indexed, Active
  <2> QED
    BY <1>1, <1>2, <2>2, ZenonT(30) DEF RepairInv, IndexInvariant
<1>4. CASE disk = None
  BY <1>1, <1>2, <1>4, Zenon DEF RepairInv, IndexInvariant, Readable, Version
<1> QED
  BY <1>3, <1>4, ZenonT(30) DEF Init

\* Every step keeps it.
LEMMA StepIndex ==
    ASSUME Timely
    PROVE  VaultInvariant /\ IndexInvariant /\ [Next]_vars => IndexInvariant'
BY EventsStep, RestStep, FreshStep, WaitStep, ScanStep, RepairStep, Zenon
   DEF VaultInvariant, TypeOK, IndexInvariant

\* Once clients, events and timers have come to rest, the doc row and the full-text
\* index hold what is on disk, provided that what runs when the watcher arms a
\* timer ends within its debounce: for any number of saves, moves, tag updates,
\* pulls, other programs, callbacks, errors and restarts.
THEOREM IndexAgrees ==
    ASSUME Timely
    PROVE  Spec => []IndexAgreesWhenQuiet
<1>1. IndexInvariant => IndexAgreesWhenQuiet
  <2> SUFFICES ASSUME IndexInvariant, Quiet, ~raced, Readable
               PROVE  row # None /\ (~row.archived => row.ver = disk /\ fts = disk)
    BY Zenon DEF IndexAgreesWhenQuiet
  <2>1. \A p \in Clients : ~Works(p)
    BY Zenon DEF Quiet, InCall, Works
  <2>2. \A w \in Slots : ~Looks(w) /\ ~Rewrites(w) /\ ~Writes(w)
    BY Zenon DEF Quiet, Looks, Rewrites, Writes
  <2>3. Indexed(disk)
    BY <2>1, <2>2, Zenon DEF IndexInvariant, RepairInv, Repaired, Quiet
  <2> QED
    BY <2>3, Zenon DEF Indexed, Active, Archived
<1> QED
  BY <1>1, InitIndex, StepIndex, InvariantHolds, PTL DEF Spec
============================================================================
