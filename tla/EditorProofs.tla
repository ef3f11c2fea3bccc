---------------------------- MODULE EditorProofs ----------------------------
(***************************************************************************)
(* Proofs about EditorSession, for any number of edits, of changes made by *)
(* other programs and of retries: the session implements SerialWriter, a   *)
(* save that carries a hash never overwrites a version it does not know,   *)
(* what is flagged as unsaved is scheduled, and exhausted retries are      *)
(* reported; and about SettingsForms, which shares no state with it: the   *)
(* forms agree with the configuration, for any number of changes.          *)
(***************************************************************************)
EXTENDS EditorSession, SettingsForms, TLAPS

-----------------------------------------------------------------------------
(* Types.  None stands for "no text", so no text a user has is None.       *)

Texts == Content \ {None}
Runs  == [at : {"idle", "save", "wrote", "hash"}, text : Content, exp : Content,
          key : Content, n : Nat]

\* The form, the file and the save in flight are what their names say; the save
\* in flight carries a text.
WriterTypes ==
    /\ made \in 1..(MaxEdits + 1) /\ outside \in Nat
    /\ form \in Texts /\ disk \in Texts
    /\ hash \in 0..(MaxEdits + 1) /\ docHash \in Content /\ retry \in Nat
    /\ run \in Runs /\ (run.at = "save" => run.text \in Texts)

\* The first contents and the empty run are well typed.
LEMMA ConstantTypes ==
    /\ Blank \in Texts /\ Stored \in Texts /\ None \in Content
    /\ Idle \in Runs /\ Idle.at = "idle"
BY EditorBounds DEF Blank, Stored, None, Texts, Content, Idle, Runs

\* A session starts with its types.
LEMMA WriterTypesInit == Init => WriterTypes
BY ConstantTypes, EditorBounds DEF Init, WriterTypes

-----------------------------------------------------------------------------
(* What a step may do to the form, the file and the save in flight.        *)

\* nothing,
Rests == UNCHANGED <<form, disk, run>>
\* the user, the loader or a reload gives the form another text,
Edits == form' \in Texts /\ UNCHANGED <<disk, run>>
\* another program writes the file,
Replaced == disk' \in Texts /\ outside' = outside + 1 /\ UNCHANGED <<form, run>>
\* a save starts, with the form of this moment, while none is in flight,
Starts == run = Idle /\ (\E n \in Nat : run' = Snapshot(n)) /\ UNCHANGED <<form, disk>>
\* the service writes it,
Lands == /\ run.at = "save" /\ ExpectationMet /\ disk' = run.text
         /\ run' = [run EXCEPT !.at = "wrote"] /\ UNCHANGED form
\* it is answered,
Proceeds == run.at = "wrote" /\ run' = [run EXCEPT !.at = "hash"] /\ UNCHANGED <<form, disk>>
\* or the run ends.
Ends == run' = Idle /\ UNCHANGED <<form, disk>>

\* A trigger starts a save only when none is in flight; without a project the
\* run ends as it starts.
LEMMA PerformSaveRun ==
    ASSUME NEW n \in Nat, NEW tm, PerformSave(n, tm)
    PROVE  \/ run' = run
           \/ run = Idle /\ run' = Snapshot(n)
           \/ run' = Idle
BY Zenon DEF PerformSave, BeginSave, Succeeded, saving

\* Every step is one of these.
LEMMA SessionMoves ==
    ASSUME WriterTypes, [Next]_vars
    PROVE  Rests \/ Edits \/ Replaced \/ Starts \/ Lands \/ Proceeds \/ Ends
<1> USE DEF file_vars, form_vars, auto_vars, save_vars, ctrl_vars, env_vars
<1>1. ASSUME LoadFails \/ EditorReady \/ ProjectsLoaded \/ DismissError PROVE Rests
  BY <1>1, Zenon DEF LoadFails, EditorReady, ProjectsLoaded, DismissError, Rests
<1>2. ASSUME ExternalChangeEvent \/ InitialHash \/ KeepMine \/ ReloadFromDisk PROVE Rests
  BY <1>2, Zenon DEF ExternalChangeEvent, InitialHash, KeepMine, ReloadFromDisk, Choose, Rerender, Rests
<1>3. ASSUME ReloadFails \/ ChoiceDone \/ Restore PROVE Rests
  BY <1>3, Zenon DEF ReloadFails, ChoiceDone, Restore, Rerender, Rests
<1>4. ASSUME HashFrame PROVE Rests
  BY <1>4, Zenon DEF HashFrame, Rests
<1>5. ASSUME LoadDone \/ ReloadAnswered PROVE Edits
  BY <1>5, Zenon DEF LoadDone, ReloadAnswered, InitializeForm, Edits, WriterTypes
<1>6. ASSUME EditBlocks PROVE Edits
  <2>1. made' \in 2..(MaxEdits + 1) /\ form' = [form EXCEPT !.b = made'] /\ UNCHANGED <<disk, run>>
    BY <1>6, EditorBounds DEF EditBlocks, WriterTypes
  <2> QED
    BY <2>1 DEF Edits, WriterTypes, Texts, Content, None
<1>7. ASSUME EditOther PROVE Edits
  <2>1. made' \in 2..(MaxEdits + 1) /\ form' = [form EXCEPT !.t = made'] /\ UNCHANGED <<disk, run>>
    BY <1>7, EditorBounds DEF EditOther, WriterTypes
  <2> QED
    BY <2>1 DEF Edits, WriterTypes, Texts, Content, None
<1>8. ASSUME ExternalWrite PROVE Replaced
  <2>1. made' \in 2..(MaxEdits + 1) /\ disk' = [b |-> made', t |-> made']
    BY <1>8, EditorBounds DEF ExternalWrite, WriterTypes
  <2> QED
    BY <1>8, <2>1 DEF ExternalWrite, Replaced, WriterTypes, Texts, Content, None
<1>9. ASSUME SaveRequested \/ Blur \/ BeforeUnload \/ DebounceFires
      PROVE  Rests \/ Starts \/ Ends
  <2>1. PerformSave(0, FALSE) /\ UNCHANGED <<form, disk>>
    BY <1>9, Zenon DEF SaveRequested, Blur, BeforeUnload, DebounceFires, saveNow
  <2> QED
    BY <2>1, PerformSaveRun, Zenon DEF Rests, Starts, Ends
<1>10. ASSUME RetryFires PROVE Rests \/ Starts \/ Ends
  <2>1. PerformSave(retry, timer) /\ UNCHANGED <<form, disk>> /\ retry \in Nat
    BY <1>10, Zenon DEF RetryFires, WriterTypes
  <2> QED
    BY <2>1, PerformSaveRun, Zenon DEF Rests, Starts, Ends
<1>11. ASSUME FlushDirty PROVE Rests \/ Starts \/ Ends
  <2>1. (PerformSave(0, FALSE) \/ run' = run) /\ UNCHANGED <<form, disk>>
    BY <1>11, Zenon DEF FlushDirty, saveNow
  <2> QED
    BY <2>1, PerformSaveRun, Zenon DEF Rests, Starts, Ends
<1>12. ASSUME Close PROVE Rests \/ Starts
  BY <1>12, Zenon DEF Close, Rests, Starts, saving
<1>13. ASSUME Exit PROVE Ends
  BY <1>13, Zenon DEF Exit, Ends
<1>14. ASSUME ServerWrites PROVE Lands
  BY <1>14, Zenon DEF ServerWrites, Lands
<1>15. ASSUME ServerRefuses \/ HashAnswered PROVE Ends
  BY <1>15, Zenon DEF ServerRefuses, HashAnswered, EndRun, Succeeded, Ends
<1>16. ASSUME SaveFails PROVE Ends
  BY <1>16, Zenon DEF SaveFails, Failed, Ends
<1>17. ASSUME SaveAnswered PROVE Proceeds
  BY <1>17, Zenon DEF SaveAnswered, Proceeds
<1>18. ASSUME UNCHANGED vars PROVE Rests
  BY <1>18, Zenon DEF vars, Rests
<1> QED
  BY <1>1, <1>2, <1>3, <1>4, <1>5, <1>6, <1>7, <1>8, <1>9, <1>10, <1>11, <1>12, <1>13,
     <1>14, <1>15, <1>16, <1>17, <1>18, Zenon DEF Next, Answers, Timers

-----------------------------------------------------------------------------
(* The types are kept.                                                     *)

\* Counters, hashes and the retry number stay in range.
LEMMA NumbersStep ==
    ASSUME WriterTypes, [Next]_vars
    PROVE  /\ made' \in 1..(MaxEdits + 1) /\ outside' \in Nat
           /\ hash' \in 0..(MaxEdits + 1) /\ docHash' \in Content /\ retry' \in Nat
<1> DEFINE Same == UNCHANGED <<made, outside, hash, docHash, retry>>
           Numbers == /\ made' \in 1..(MaxEdits + 1) /\ outside' \in Nat
                      /\ hash' \in 0..(MaxEdits + 1) /\ docHash' \in Content /\ retry' \in Nat
<1>1. ASSUME Same PROVE Numbers
  BY <1>1, Zenon DEF WriterTypes
<1>2. ASSUME LoadFails \/ EditorReady \/ ProjectsLoaded \/ DismissError \/ UNCHANGED vars
      PROVE  Same
  BY <1>2, Zenon DEF LoadFails, EditorReady, ProjectsLoaded, DismissError, vars,
     file_vars, form_vars, auto_vars, save_vars, ctrl_vars
<1>3. ASSUME ExternalChangeEvent \/ KeepMine \/ ReloadFromDisk \/ ReloadFails \/ Restore
      PROVE  Same
  BY <1>3, Zenon DEF ExternalChangeEvent, KeepMine, ReloadFromDisk, Choose, ReloadFails,
     Restore, Rerender, file_vars, form_vars, save_vars, ctrl_vars
<1>4. ASSUME SaveRequested \/ Blur \/ BeforeUnload \/ FlushDirty \/ DebounceFires
      PROVE  Same
  BY <1>4, Zenon DEF SaveRequested, Blur, BeforeUnload, FlushDirty, DebounceFires,
     file_vars, form_vars, ctrl_vars
<1>5. ASSUME ReloadAnswered \/ ServerWrites \/ ServerRefuses \/ SaveAnswered
      PROVE  Same
  BY <1>5, Zenon DEF ReloadAnswered, ServerWrites, ServerRefuses, SaveAnswered,
     file_vars, form_vars, ctrl_vars
<1>6. ASSUME EditBlocks \/ EditOther \/ ExternalWrite PROVE Numbers
  <2>1. made' = made + 1 /\ made - 1 < MaxEdits /\ (outside' = outside \/ outside' = outside + 1)
    BY <1>6, Zenon DEF EditBlocks, EditOther, ExternalWrite
  <2>2. UNCHANGED <<hash, docHash, retry>>
    BY <1>6, Zenon DEF EditBlocks, EditOther, ExternalWrite, form_vars, save_vars, ctrl_vars
  <2> QED
    BY <2>1, <2>2, EditorBounds DEF WriterTypes
<1>7. ASSUME LoadDone \/ HashFrame PROVE Numbers
  <2>1. (hash' = disk.b \/ hash' = form.b) /\ UNCHANGED <<made, outside, docHash, retry>>
    BY <1>7, Zenon DEF LoadDone, HashFrame, file_vars, save_vars, ctrl_vars
  <2> QED
    BY <2>1, Zenon DEF WriterTypes, Texts, Content
<1>8. ASSUME InitialHash \/ ChoiceDone \/ HashAnswered PROVE Numbers
  <2>1. UNCHANGED <<made, outside, hash, retry>>
    BY <1>8, Zenon DEF InitialHash, ChoiceDone, HashAnswered, Rerender, file_vars, form_vars,
       save_vars
  <2>2. docHash' \in {docHash, disk, None}
    BY <1>8, Zenon DEF InitialHash, ChoiceDone, HashAnswered
  <2> QED
    BY <2>1, <2>2, ConstantTypes, Zenon DEF WriterTypes, Texts
<1>9. ASSUME Close \/ RetryFires \/ Exit PROVE Numbers
  <2>1. /\ retry' = 0 /\ (docHash' = docHash \/ docHash' = None) /\ (hash' = hash \/ hash' = 0)
        /\ UNCHANGED <<made, outside>>
    BY <1>9, Zenon DEF Close, DropTimers, RetryFires, Exit, file_vars, form_vars, ctrl_vars
  <2> QED
    BY <2>1, ConstantTypes, EditorBounds DEF WriterTypes
<1>10. ASSUME SaveFails PROVE Numbers
  <2>1. (retry' = retry \/ retry' = run.n + 1) /\ UNCHANGED <<made, outside, hash, docHash>>
    BY <1>10, Zenon DEF SaveFails, Failed, file_vars, form_vars, ctrl_vars
  <2> QED
    BY <2>1 DEF WriterTypes, Runs
<1> HIDE DEF Same, Numbers
<1>11. Numbers
  BY <1>1, <1>2, <1>3, <1>4, <1>5, <1>6, <1>7, <1>8, <1>9, <1>10, Zenon DEF Next, Answers, Timers
<1> QED
  BY <1>11, Zenon DEF Numbers

\* So do the form, the file and the run.
LEMMA WriterTypesStep ==
    ASSUME WriterTypes, [Next]_vars
    PROVE  WriterTypes'
<1>1. form' \in Texts /\ disk' \in Texts
  BY SessionMoves, Zenon DEF WriterTypes, Rests, Edits, Replaced, Starts, Lands, Proceeds, Ends
<1>2. key \in Content
  BY Zenon DEF key, Key, WriterTypes, Texts, Content
<1>3. ASSUME Starts PROVE run' \in Runs /\ run'.text \in Texts
  BY <1>2, <1>3 DEF Starts, Snapshot, WriterTypes, Runs, Texts
<1>4. ASSUME Lands \/ Proceeds PROVE run' \in Runs /\ run'.at # "save"
  BY <1>4, Zenon DEF Lands, Proceeds, WriterTypes, Runs
<1>5. run' \in Runs /\ (run'.at = "save" => run'.text \in Texts)
  BY <1>3, <1>4, SessionMoves, ConstantTypes, Zenon DEF Rests, Edits, Replaced, Ends, WriterTypes
<1> QED
  BY <1>1, <1>5, NumbersStep, Zenon DEF WriterTypes

\* In every state of a session the form and the file hold texts, and so does a
\* save on its way.
THEOREM SessionTypes == Spec => []WriterTypes
<1>1. Init => WriterTypes
  BY WriterTypesInit, Zenon
<1>2. WriterTypes /\ [Next]_vars => WriterTypes'
  BY WriterTypesStep, Zenon
<1> QED
  BY <1>1, <1>2, PTL DEF Spec

-----------------------------------------------------------------------------
(* The refinement.                                                         *)

\* The session starts as the writer does, with nothing pending.
LEMMA WriterInit == Init => Writer!Init
BY ConstantTypes, Zenon DEF Init, Writer!Init, Texts

\* Every step of the session is a step of the writer or leaves it alone.
LEMMA WriterStep ==
    ASSUME WriterTypes, [Next]_vars
    PROVE  [Writer!Next]_(Writer!vars)
<1> DEFINE pending == IF run.at = "save" THEN run.text ELSE None
<1>1. ASSUME Rests PROVE UNCHANGED Writer!vars
  BY <1>1, Zenon DEF Rests, Writer!vars
<1>2. ASSUME Edits PROVE Writer!Edit
  BY <1>2, Zenon DEF Edits, Writer!Edit, Texts
<1>3. ASSUME Replaced PROVE Writer!Outside
  BY <1>3, Zenon DEF Replaced, Writer!Outside, Texts
<1>4. ASSUME Starts PROVE Writer!Begin
  BY <1>4, ConstantTypes DEF Starts, Writer!Begin, Snapshot
<1>5. ASSUME Lands PROVE Writer!Commit
  BY <1>5, Zenon DEF Lands, Writer!Commit, WriterTypes, Texts, Runs
<1>6. ASSUME Proceeds PROVE UNCHANGED Writer!vars
  BY <1>6, Zenon DEF Proceeds, Writer!vars, WriterTypes, Runs
<1>7. ASSUME Ends PROVE Writer!GiveUp \/ UNCHANGED Writer!vars
  BY <1>7, ConstantTypes, Zenon DEF Ends, Writer!GiveUp, Writer!vars, WriterTypes, Texts
<1> QED
  BY <1>1, <1>2, <1>3, <1>4, <1>5, <1>6, <1>7, SessionMoves, Zenon DEF Writer!Next

\* useAutoSave and useDocumentController implement the serial writer: however
\* debounce, retry, blur, Ctrl+S, unload, unmount and quit overlap, one write is
\* under way at a time, it carries the form of the moment it was asked for, and
\* one that is given up leaves the file alone.
THEOREM SessionImplementsWriter == Spec => SerialWrites
<1>1. Init => Writer!Init
  BY WriterInit, Zenon
<1>2. WriterTypes /\ [Next]_vars => [Writer!Next]_(Writer!vars)
  BY WriterStep, Zenon
<1> QED
  BY <1>1, <1>2, SessionTypes, PTL DEF Spec, SerialWrites, Writer!Spec

\* The service's comparison of hashes: a save that carries a hash other than the
\* file's leaves the file as it is, whatever happened since it was asked for.
THEOREM UnseenVersionsStay == Spec => UnseenVersionKept
<1>1. WriterTypes /\ [Next]_vars =>
        [run.at = "save" /\ run.exp # None /\ run.exp # disk
            => disk' = disk \/ outside' # outside]_vars
  <2> SUFFICES ASSUME WriterTypes, [Next]_vars, run.exp # None, run.exp # disk
               PROVE  disk' = disk \/ outside' # outside
    BY Zenon
  <2>1. ~Lands
    BY Zenon DEF Lands, ExpectationMet
  <2> QED
    BY <2>1, SessionMoves DEF Rests, Edits, Replaced, Starts, Proceeds, Ends, WriterTypes
<1> QED
  BY <1>1, SessionTypes, PTL DEF Spec, UnseenVersionKept

-----------------------------------------------------------------------------
(* What is flagged is scheduled.                                           *)

\* The value effect of useAutoSave arms the timer for a flagged form unless a
\* save is in flight.
LEMMA EffectArms ==
    ASSUME NEW k, NEW sk, NEW en, NEW busy, NEW tm, ValueEffect(k, sk, en, busy, tm),
           en, ~busy, dirty', userMade'
    PROVE  timer'
BY Zenon DEF ValueEffect

\* performSave either has a save in flight at its end, or leaves a form it
\* flags with a timer.
LEMMA PerformSaveSchedules ==
    ASSUME NEW n, NEW tm, PerformSave(n, tm), mounted, dirty'
    PROVE  run' # Idle \/ timer'
<1>1. CASE saving
  BY <1>1, Zenon DEF PerformSave, saving
<1>2. CASE ~saving /\ project
  BY <1>2 DEF PerformSave, BeginSave, Snapshot, Idle
<1>3. CASE ~saving /\ ~project
  BY <1>3, Zenon DEF PerformSave, BeginSave, Succeeded
<1> QED
  BY <1>1, <1>2, <1>3, Zenon

\* So does the end of a run that was answered, when the render after it is
\* enabled as en says.
LEMMA EndRunSchedules ==
    ASSUME NEW en, EndRun(en), en, mounted, dirty', userMade'
    PROVE  timer'
<1>1. CASE en # enabled
  BY <1>1, EffectArms, Zenon DEF EndRun
<1>2. CASE en = enabled
  BY <1>2, Zenon DEF EndRun, Succeeded
<1> QED
  BY <1>1, <1>2, Zenon

\* A render that may have enabled saving arms the timer.
LEMMA RerenderSchedules ==
    ASSUME NEW en, Rerender(en), en, dirty', userMade', FlaggedIsScheduled,
           life = "open", ready
    PROVE  timer' \/ retry' > 0 \/ run' # Idle \/ saveState' = "error"
<1>1. CASE en # enabled
  BY <1>1, EffectArms, Zenon DEF Rerender, saving
<1>2. CASE en = enabled
  BY <1>2, Zenon DEF Rerender, FlaggedIsScheduled, saving
<1> QED
  BY <1>1, <1>2, Zenon

\* Every step keeps what is flagged scheduled.
LEMMA ScheduledStep ==
    ASSUME WriterTypes, FlaggedIsScheduled, [Next]_vars
    PROVE  FlaggedIsScheduled'
<1> SUFFICES ASSUME life' = "open", ready', enabled', dirty', userMade'
             PROVE  timer' \/ retry' > 0 \/ run' # Idle \/ saveState' = "error"
  BY Zenon DEF FlaggedIsScheduled, saving
<1> DEFINE Goal == timer' \/ retry' > 0 \/ run' # Idle \/ saveState' = "error"
<1>1. ASSUME LoadDone \/ LoadFails \/ ReloadAnswered \/ ExternalChangeEvent PROVE Goal
  BY <1>1, Zenon DEF LoadDone, LoadFails, ReloadAnswered, InitializeForm, ExternalChangeEvent,
     enabled, Enabled
<1>2. ASSUME EditorReady \/ Close \/ Exit PROVE Goal
  BY <1>2, Zenon DEF EditorReady, Baseline, Close, Exit
<1>3. ASSUME ProjectsLoaded \/ DismissError \/ ExternalWrite \/ InitialHash \/ ReloadFails
      PROVE  Goal
  <2>1. UNCHANGED <<life, ready, hasChanges, archived, conflict, dirty, userMade, timer, retry,
                    run, saveState>>
    BY <1>3, Zenon DEF ProjectsLoaded, DismissError, ExternalWrite, InitialHash, ReloadFails,
       form_vars, auto_vars, save_vars, ctrl_vars, env_vars
  <2> QED
    BY <2>1, Zenon DEF FlaggedIsScheduled, saving, enabled
<1>4. ASSUME KeepMine \/ ReloadFromDisk \/ UNCHANGED vars PROVE Goal
  <2>1. UNCHANGED <<life, ready, hasChanges, archived, conflict, dirty, userMade, timer, retry,
                    run, saveState>>
    BY <1>4, Zenon DEF KeepMine, ReloadFromDisk, Choose, vars, form_vars, auto_vars, save_vars,
       ctrl_vars, env_vars
  <2> QED
    BY <2>1, Zenon DEF FlaggedIsScheduled, saving, enabled
<1>5. ASSUME EditBlocks PROVE Goal
  <2>1. ValueEffect(key, savedKey, Enabled(TRUE, archived, conflict), saving, timer)
    BY <1>5, Zenon DEF EditBlocks
  <2>2. Enabled(TRUE, archived, conflict) /\ run' = run
    BY <1>5, Zenon DEF EditBlocks, enabled, Enabled, ctrl_vars
  <2> QED
    BY <2>1, <2>2, EffectArms, Zenon DEF saving
<1>6. ASSUME EditOther PROVE Goal
  <2>1. ValueEffect(Key(form', hash), savedKey, Enabled(TRUE, archived, conflict), saving, timer)
    BY <1>6, Zenon DEF EditOther
  <2>2. Enabled(TRUE, archived, conflict) /\ run' = run
    BY <1>6, Zenon DEF EditOther, enabled, Enabled, ctrl_vars
  <2> QED
    BY <2>1, <2>2, EffectArms, Zenon DEF saving
<1>7. ASSUME HashFrame PROVE Goal
  <2>1. ValueEffect(Key(form, form.b), savedKey, enabled, saving, timer)
    BY <1>7, Zenon DEF HashFrame
  <2>2. enabled /\ run' = run
    BY <1>7, Zenon DEF HashFrame, enabled, Enabled, ctrl_vars
  <2> QED
    BY <2>1, <2>2, EffectArms, Zenon DEF saving
<1>8. ASSUME ChoiceDone PROVE Goal
  <2>1. Rerender(Enabled(hasChanges, archived, FALSE)) /\ life = "open" /\ ready
    BY <1>8, Zenon DEF ChoiceDone
  <2>2. Enabled(hasChanges, archived, FALSE)
    BY <1>8, Zenon DEF ChoiceDone, form_vars, enabled, Enabled
  <2> QED
    BY <2>1, <2>2, RerenderSchedules, Zenon
<1>9. ASSUME Restore PROVE Goal
  <2>1. Rerender(Enabled(hasChanges, FALSE, conflict)) /\ life = "open" /\ ready
    BY <1>9, Zenon DEF Restore
  <2>2. Enabled(hasChanges, FALSE, conflict)
    BY <1>9, Zenon DEF Restore, form_vars, enabled, Enabled
  <2> QED
    BY <2>1, <2>2, RerenderSchedules, Zenon
<1>10. ASSUME SaveRequested \/ Blur \/ BeforeUnload \/ DebounceFires PROVE Goal
  <2>1. PerformSave(0, FALSE) /\ mounted
    BY <1>10, Zenon DEF SaveRequested, Blur, BeforeUnload, DebounceFires, saveNow, mounted,
       env_vars
  <2> QED
    BY <2>1, PerformSaveSchedules, Zenon
<1>11. ASSUME RetryFires PROVE Goal
  <2>1. PerformSave(retry, timer) /\ mounted
    BY <1>11, Zenon DEF RetryFires, mounted, env_vars
  <2> QED
    BY <2>1, PerformSaveSchedules, Zenon
<1>12. ASSUME FlushDirty PROVE Goal
  <2>1. CASE dirty
    BY <1>12, <2>1, PerformSaveSchedules, Zenon DEF FlushDirty, saveNow, mounted
  <2>2. CASE ~dirty
    BY <1>12, <2>2, Zenon DEF FlushDirty
  <2> QED
    BY <2>1, <2>2, Zenon
<1>13. ASSUME ServerWrites \/ SaveAnswered PROVE Goal
  <2>1. \/ run' = [run EXCEPT !.at = "wrote"]
        \/ run' = [run EXCEPT !.at = "hash"]
    BY <1>13, Zenon DEF ServerWrites, SaveAnswered
  <2> QED
    BY <2>1, ConstantTypes, Zenon DEF WriterTypes, Runs
<1>14. ASSUME ServerRefuses \/ HashAnswered PROVE Goal
  <2>1. EndRun(Enabled(hasChanges, archived, conflict')) /\ mounted
    BY <1>14, Zenon DEF ServerRefuses, HashAnswered, mounted
  <2>2. hasChanges' = hasChanges /\ archived' = archived
    BY <1>14, Zenon DEF ServerRefuses, HashAnswered, form_vars
  <2>3. Enabled(hasChanges, archived, conflict')
    BY <2>2, Zenon DEF enabled, Enabled
  <2> QED
    BY <2>1, <2>3, EndRunSchedules, Zenon
<1>15. ASSUME SaveFails PROVE Goal
  BY <1>15 DEF SaveFails, Failed, WriterTypes, Runs
<1> HIDE DEF Goal
<1>16. Goal
  BY <1>1, <1>2, <1>3, <1>4, <1>5, <1>6, <1>7, <1>8, <1>9, <1>10, <1>11, <1>12, <1>13,
     <1>14, <1>15, Zenon DEF Next, Answers, Timers
<1> QED
  BY <1>16, Zenon DEF Goal

\* useAutoSave: a form that is flagged and may be saved has a save in flight, a
\* timer or a retry armed, or an error on the status line, for any number of
\* retries, edits and changes from outside.
THEOREM FlaggedFormsAreScheduled == Spec => []FlaggedIsScheduled
<1>1. Init => FlaggedIsScheduled
  BY Zenon DEF Init, FlaggedIsScheduled
<1>2. WriterTypes /\ FlaggedIsScheduled /\ [Next]_vars => FlaggedIsScheduled'
  BY ScheduledStep, Zenon
<1> QED
  BY <1>1, <1>2, SessionTypes, PTL DEF Spec

-----------------------------------------------------------------------------
(* Exhausted retries are reported.                                         *)

\* Until the document has loaded, the only save is the one the quit handler
\* asks for, and its retries: nothing was saved before it, and the blank form
\* stays flagged until it ends well.
FirstSave ==
    life = "loading" =>
        /\ form = Blank /\ hash = 0 /\ ~hasChanges /\ ~timer /\ asks = {}
        /\ (quit = "no" => run = Idle) /\ (quit = "no" \/ run # Idle => retry = 0)
        /\ (quit = "no" \/ run # Idle \/ retry > 0 \/ saveState = "error")
               => savedKey = None /\ dirty

\* Without changes a render does not enable saving, and one that was disabled
\* before changes no flag.
LEMMA DisabledRerender ==
    ASSUME NEW en \in BOOLEAN, Rerender(en), ~en, ~enabled
    PROVE  UNCHANGED <<dirty, timer, savedKey, retry, run, saveState>>
<1>1. en = enabled
  BY Zenon DEF enabled, Enabled
<1> QED
  BY <1>1, Zenon DEF Rerender

\* A run that ends in a render that does not enable saving arms no timer.
LEMMA DisabledEnd ==
    ASSUME NEW en \in BOOLEAN, EndRun(en), ~en, ~enabled, ~timer, quit # "no"
    PROVE  run' = Idle /\ ~timer' /\ saveState' = "saved" /\ quit' # "no"
<1>1. en = enabled
  BY Zenon DEF enabled, Enabled
<1>2. Succeeded(run.key, enabled, timer)
  BY <1>1, Zenon DEF EndRun
<1>3. run' = Idle /\ saveState' = "saved" /\ ~timer'
  BY <1>2, Zenon DEF Succeeded
<1>4. quit' # "no"
  BY Zenon DEF EndRun, AckAfterRun
<1> QED
  BY <1>3, <1>4, Zenon

\* The session keeps to that while it loads.
LEMMA FirstSaveStep ==
    ASSUME FirstSave, [Next]_vars
    PROVE  FirstSave'
<1> SUFFICES ASSUME life' = "loading"
             PROVE  /\ form' = Blank /\ hash' = 0 /\ ~hasChanges' /\ ~timer' /\ asks' = {}
                    /\ quit' = "no" => run' = Idle
                    /\ quit' = "no" \/ run' # Idle => retry' = 0
                    /\ (quit' = "no" \/ run' # Idle \/ retry' > 0 \/ saveState' = "error")
                           => savedKey' = None /\ dirty'
  BY Zenon DEF FirstSave
<1> DEFINE Formed == form' = Blank /\ hash' = 0 /\ ~hasChanges' /\ ~timer' /\ asks' = {}
           Quiet == /\ quit' = "no" => run' = Idle
                    /\ quit' = "no" \/ run' # Idle => retry' = 0
                    /\ (quit' = "no" \/ run' # Idle \/ retry' > 0 \/ saveState' = "error")
                           => savedKey' = None /\ dirty'
           Goal == Formed /\ Quiet
<1>1. ASSUME LoadDone \/ LoadFails \/ Close \/ Exit PROVE Goal
  BY <1>1, Zenon DEF LoadDone, LoadFails, Close, Exit
<1>2. ASSUME EditorReady \/ EditBlocks \/ EditOther PROVE Goal
  BY <1>2, Zenon DEF EditorReady, EditBlocks, EditOther, env_vars
<1>3. ASSUME SaveRequested \/ Blur \/ BeforeUnload \/ KeepMine \/ ReloadFromDisk \/ Restore
      PROVE  Goal
  BY <1>3, Zenon DEF SaveRequested, Blur, BeforeUnload, KeepMine, ReloadFromDisk, Choose, Restore
<1>4. ASSUME DebounceFires \/ HashFrame PROVE Goal
  <2>1. life = "loading" /\ (timer \/ hash # form.b)
    BY <1>4, Zenon DEF DebounceFires, HashFrame, env_vars
  <2> QED
    BY <2>1 DEF FirstSave, Blank
<1>5. ASSUME InitialHash \/ ReloadAnswered \/ ReloadFails \/ ChoiceDone PROVE Goal
  BY <1>5, Zenon DEF InitialHash, ReloadAnswered, ReloadFails, ChoiceDone, FirstSave
<1>6. ASSUME ProjectsLoaded \/ DismissError \/ ExternalWrite \/ UNCHANGED vars PROVE Goal
  <2>1. UNCHANGED <<life, form, hash, hasChanges, timer, asks, quit, run, retry, saveState,
                    savedKey, dirty>>
    BY <1>6, Zenon DEF ProjectsLoaded, DismissError, ExternalWrite, vars, form_vars, auto_vars,
       save_vars, env_vars
  <2> QED
    BY <2>1, Zenon DEF FirstSave
<1>7. ASSUME ExternalChangeEvent PROVE Goal
  <2>1. /\ UNCHANGED <<life, form, hash, hasChanges, asks, quit>> /\ Rerender(FALSE)
    BY <1>7, Zenon DEF ExternalChangeEvent, form_vars
  <2>2. ~enabled
    BY <2>1, Zenon DEF FirstSave, enabled, Enabled
  <2>3. UNCHANGED <<dirty, timer, savedKey, retry, run, saveState>>
    BY <2>1, <2>2, DisabledRerender, Zenon
  <2> QED
    BY <2>1, <2>3, Zenon DEF FirstSave
<1>8. ASSUME ServerWrites PROVE Goal
  <2>1. /\ UNCHANGED <<life, form, hash, hasChanges, timer, asks, quit, retry, saveState,
                       savedKey, dirty>>
        /\ run.at = "save"
    BY <1>8, Zenon DEF ServerWrites, form_vars, auto_vars, env_vars
  <2>2. run # Idle
    BY <2>1, ConstantTypes, Zenon
  <2> QED
    BY <2>1, <2>2, Zenon DEF FirstSave
<1>9. ASSUME SaveAnswered PROVE Goal
  <2>1. /\ UNCHANGED <<life, form, hash, asks, quit, retry, saveState, savedKey>>
        /\ run.at = "wrote" /\ mounted
    BY <1>9, Zenon DEF SaveAnswered, env_vars, mounted
  <2>2. ~enabled /\ run # Idle
    BY <2>1, ConstantTypes, Zenon DEF FirstSave, enabled, Enabled
  <2>3. hasChanges' = FALSE /\ UNCHANGED <<dirty, timer>>
    BY <1>9, <2>1, <2>2, Zenon DEF SaveAnswered
  <2> QED
    BY <2>1, <2>2, <2>3, Zenon DEF FirstSave
<1>10. ASSUME ServerRefuses \/ HashAnswered PROVE Goal
  <2>1. /\ UNCHANGED <<life, form, hash, hasChanges, asks, retry>> /\ run # Idle
    BY <1>10, ConstantTypes, Zenon DEF ServerRefuses, HashAnswered, form_vars
  <2>2. EndRun(Enabled(hasChanges, archived, conflict'))
    BY <1>10, Zenon DEF ServerRefuses, HashAnswered
  <2>3. /\ Enabled(hasChanges, archived, conflict') \in BOOLEAN
        /\ ~Enabled(hasChanges, archived, conflict') /\ ~enabled /\ ~timer /\ quit # "no"
    BY <2>1, Zenon DEF FirstSave, enabled, Enabled
  <2>4. run' = Idle /\ ~timer' /\ saveState' = "saved" /\ quit' # "no"
    BY <2>2, <2>3, DisabledEnd, Zenon
  <2> QED
    BY <2>1, <2>4 DEF FirstSave
<1>11. ASSUME SaveFails PROVE Goal
  <2>1. /\ UNCHANGED <<life, form, hash, hasChanges, asks, timer, savedKey, dirty>>
        /\ run' = Idle /\ run # Idle
    BY <1>11, ConstantTypes, Zenon DEF SaveFails, Failed, form_vars, auto_vars
  <2>2. quit # "no" /\ quit' # "no"
    BY <1>11, <2>1, Zenon DEF SaveFails, AckAfterRun, FirstSave
  <2> QED
    BY <2>1, <2>2, Zenon DEF FirstSave
<1>12. ASSUME RetryFires PROVE Goal
  <2>1. /\ UNCHANGED <<life, form, hash, hasChanges, asks, quit>>
        /\ retry > 0 /\ retry' = 0 /\ PerformSave(retry, timer)
    BY <1>12, Zenon DEF RetryFires, form_vars, env_vars
  <2>2. run = Idle /\ quit # "no" /\ ~timer /\ savedKey = None /\ dirty
    BY <2>1 DEF FirstSave
  <2>3. BeginSave(retry, timer)
    BY <2>1, <2>2, Zenon DEF PerformSave, saving
  <2>4. CASE project
    BY <2>1, <2>2, <2>3, <2>4, Zenon DEF BeginSave, FirstSave
  <2>5. CASE ~project
    <3>1. Succeeded(key, enabled, timer) /\ ~enabled
      BY <2>1, <2>2, <2>3, <2>5, Zenon DEF BeginSave, FirstSave, enabled, Enabled
    <3>2. run' = Idle /\ saveState' = "saved" /\ ~timer'
      BY <2>2, <3>1, Zenon DEF Succeeded
    <3> QED
      BY <2>1, <2>2, <2>3, <3>2 DEF FirstSave
  <2> QED
    BY <2>4, <2>5, Zenon
<1>13. ASSUME FlushDirty PROVE Goal
  <2>1. /\ UNCHANGED <<life, form, hash, hasChanges, asks, retry>> /\ quit = "no" /\ mounted
    BY <1>13, Zenon DEF FlushDirty, form_vars, mounted
  <2>2. run = Idle /\ retry = 0 /\ ~timer /\ savedKey = None /\ dirty /\ ~hasChanges
    BY <2>1, Zenon DEF FirstSave
  <2>3. BeginSave(0, FALSE) /\ quit' # "no"
    BY <1>13, <2>1, <2>2, Zenon DEF FlushDirty, saveNow, PerformSave, saving
  <2>4. CASE project
    BY <2>1, <2>2, <2>3, <2>4, Zenon DEF BeginSave, FirstSave
  <2>5. CASE ~project
    <3>1. Succeeded(key, enabled, FALSE) /\ ~enabled
      BY <2>1, <2>2, <2>3, <2>5, Zenon DEF BeginSave, FirstSave, enabled, Enabled
    <3>2. run' = Idle /\ saveState' = "saved" /\ ~timer'
      BY <2>2, <3>1, Zenon DEF Succeeded
    <3> QED
      BY <2>1, <2>2, <2>3, <3>2 DEF FirstSave
  <2> QED
    BY <2>4, <2>5, Zenon
<1> HIDE DEF Goal
<1>14. Goal
  BY <1>1, <1>2, <1>3, <1>4, <1>5, <1>6, <1>7, <1>8, <1>9, <1>10, <1>11, <1>12, <1>13, Zenon
     DEF Next, Answers, Timers
<1> QED
  BY <1>14, Zenon DEF Goal

\* setDirtyError: recomputing an entry for the new flag keeps it in step.
LEMMA FlagInStep ==
    ASSUME ErrorIsReported, mounted, saveState = "error",
           NEW d, errEntry' = ErrorFlag(errEntry, saveState, d), errEntry' # "dismissed"
    PROVE  errEntry' = IF d THEN "dirty" ELSE "clean"
BY Zenon DEF ErrorIsReported, ErrorFlag

\* Every step keeps the store's entry in step with the editor.
LEMMA ReportedStep ==
    ASSUME WriterTypes, FirstSave, ErrorIsReported, [Next]_vars
    PROVE  ErrorIsReported'
<1> SUFFICES ASSUME mounted', saveState' = "error", errEntry' # "dismissed"
             PROVE  errEntry' = IF dirty' THEN "dirty" ELSE "clean"
  BY Zenon DEF ErrorIsReported
<1> DEFINE Goal == errEntry' = IF dirty' THEN "dirty" ELSE "clean"
<1>1. ASSUME LoadDone PROVE Goal
  <2>1. /\ life = "loading" /\ saveState = "error" /\ errEntry' = errEntry
        /\ ValueEffect(Key(disk, disk.b), savedKey, FALSE, saving, timer)
    BY <1>1, Zenon DEF LoadDone, save_vars
  <2>2. savedKey = None /\ dirty
    BY <2>1, Zenon DEF FirstSave
  <2>3. Key(disk, disk.b) = disk /\ disk # None
    BY Zenon DEF Key, WriterTypes, Texts, Content
  <2>4. dirty'
    BY <2>1, <2>2, <2>3, Zenon DEF ValueEffect
  <2> QED
    BY <2>1, <2>2, <2>4, Zenon DEF ErrorIsReported, mounted
<1>2. ASSUME LoadFails \/ ProjectsLoaded \/ ExternalWrite \/ InitialHash PROVE Goal
  <2>1. UNCHANGED <<dirty, saveState, errEntry>>
    BY <1>2, Zenon DEF LoadFails, ProjectsLoaded, ExternalWrite, InitialHash, auto_vars, save_vars
  <2>2. mounted
    BY <1>2, Zenon DEF LoadFails, ProjectsLoaded, ExternalWrite, InitialHash, env_vars, mounted
  <2> QED
    BY <2>1, <2>2, Zenon DEF ErrorIsReported
<1>3. ASSUME KeepMine \/ ReloadFromDisk \/ ReloadFails \/ ServerWrites \/ UNCHANGED vars
      PROVE  Goal
  <2>1. UNCHANGED <<dirty, saveState, errEntry, life>>
    BY <1>3, Zenon DEF KeepMine, ReloadFromDisk, Choose, ReloadFails, ServerWrites, vars,
       auto_vars, save_vars, env_vars
  <2> QED
    BY <2>1, Zenon DEF ErrorIsReported, mounted
<1>4. ASSUME EditorReady PROVE Goal
  <2>1. /\ saveState' = saveState /\ dirty' = FALSE /\ life = "open"
        /\ errEntry' = ErrorFlag(errEntry, saveState, FALSE)
    BY <1>4, Zenon DEF EditorReady, Baseline
  <2> QED
    BY <2>1, FlagInStep, Zenon DEF mounted
<1>5. ASSUME EditBlocks \/ EditOther \/ HashFrame PROVE Goal
  <2>1. /\ saveState' = saveState /\ life' = life
        /\ errEntry' = ErrorFlag(errEntry, saveState, dirty')
    BY <1>5, Zenon DEF EditBlocks, EditOther, HashFrame, env_vars
  <2> QED
    BY <2>1, FlagInStep DEF mounted
<1>6. ASSUME ReloadAnswered \/ ExternalChangeEvent \/ ChoiceDone \/ Restore PROVE Goal
  <2>1. /\ saveState' = saveState /\ life' = life
        /\ errEntry' = ErrorFlag(errEntry, saveState, dirty')
    BY <1>6, Zenon DEF ReloadAnswered, ExternalChangeEvent, ChoiceDone, Restore, Rerender
  <2> QED
    BY <2>1, FlagInStep DEF mounted
<1>7. ASSUME SaveAnswered PROVE Goal
  <2>1. saveState' = saveState /\ life' = life
    BY <1>7, Zenon DEF SaveAnswered, env_vars
  <2>2. mounted
    BY <2>1, Zenon DEF mounted
  <2>3. errEntry' = ErrorFlag(errEntry, saveState, dirty')
    BY <1>7, <2>2, Zenon DEF SaveAnswered
  <2> QED
    BY <2>1, <2>2, <2>3, FlagInStep
<1>8. ASSUME SaveRequested \/ Blur \/ BeforeUnload \/ DebounceFires \/ RetryFires \/ FlushDirty
      PROVE  Goal
  <2>1. /\ life' = life
        /\ \/ UNCHANGED <<saveState, errEntry, dirty>>
           \/ \E n, tm : BeginSave(n, tm)
    BY <1>8, Zenon DEF SaveRequested, Blur, BeforeUnload, DebounceFires, RetryFires, FlushDirty,
       saveNow, PerformSave, env_vars
  <2>2. ASSUME NEW n, NEW tm, BeginSave(n, tm) PROVE saveState' # "error"
    BY <2>2, Zenon DEF BeginSave, Succeeded
  <2> QED
    BY <2>1, <2>2 DEF ErrorIsReported, mounted
<1>9. ASSUME ServerRefuses \/ HashAnswered PROVE Goal
  <2>1. saveState' = "saved"
    BY <1>9, Zenon DEF ServerRefuses, HashAnswered, EndRun, Succeeded
  <2> QED
    BY <2>1, Zenon
<1>10. ASSUME SaveFails PROVE Goal
  <2>1. life' = life /\ dirty' = dirty /\ Failed
    BY <1>10, Zenon DEF SaveFails, auto_vars
  <2>2. mounted
    BY <2>1, Zenon DEF mounted
  <2>3. \/ UNCHANGED <<saveState, errEntry>>
        \/ errEntry' = ErrorFlag("dirty", "error", dirty)
    BY <2>1, <2>2, Zenon DEF Failed
  <2> QED
    BY <2>1, <2>2, <2>3, Zenon DEF ErrorIsReported, ErrorFlag
<1>11. ASSUME DismissError \/ Close \/ Exit PROVE Goal
  BY <1>11, Zenon DEF DismissError, Close, Exit, mounted
<1> HIDE DEF Goal
<1>12. Goal
  BY <1>1, <1>2, <1>3, <1>4, <1>5, <1>6, <1>7, <1>8, <1>9, <1>10, <1>11, Zenon
     DEF Next, Answers, Timers
<1> QED
  BY <1>12, Zenon DEF Goal

\* useAutoSave and saveError.store: an unsaved form whose retries are exhausted
\* has its entry in the error store, dirty exactly while the form is, until the
\* user dismisses it, so that navigation is held back.
THEOREM ExhaustedRetriesAreReported == Spec => []ErrorIsReported
<1>1. Init => FirstSave /\ ErrorIsReported
  BY Zenon DEF Init, FirstSave, ErrorIsReported
<1>2. FirstSave /\ [Next]_vars => FirstSave'
  BY FirstSaveStep, Zenon
<1>3. WriterTypes /\ FirstSave /\ ErrorIsReported /\ [Next]_vars => ErrorIsReported'
  BY ReportedStep, Zenon
<1> QED
  BY <1>1, <1>2, <1>3, SessionTypes, PTL DEF Spec

----------------------------------------------------------------------------
(* The settings page.                                                      *)

CallParts == {"id", "group", "writes", "shows", "undo", "fresh", "state"}

\* The call is one the forms make: its fields are its group's, and the calls that
\* could be mistaken for a new one carry an earlier number.
WellFormed(c) ==
    /\ c = [x \in CallParts |-> c[x]]
    /\ c.id \in Nat /\ c.group \in Groups
    /\ c.fresh \in BOOLEAN /\ c.state \in {"sent", "done", "failed"}
    /\ DOMAIN c.writes \subseteq GroupFields[c.group]
    /\ DOMAIN c.shows \subseteq GroupFields[c.group]
    /\ DOMAIN c.undo \subseteq GroupFields[c.group]
    /\ c.writes # NoFields \/ c.group \notin {"mcp", "system"} => c.id <= settingsSteps

\* A new level is not shown by its own answer, but by the load that follows.
LoadsAfter(c) == c.group = "system" /\ c.writes # NoFields

\* What the form will show of a field once the call has answered.
WillShow(c, f) == IF f \in DOMAIN c.shows THEN c.shows[f] ELSE fields[f]

\* The answer brings the form to what the configuration is, or will be once the
\* call has been served.
AnswerAgrees(c) ==
    /\ c.state # "failed"
    /\ c.state = "sent" /\ ~c.fresh /\ ~LoadsAfter(c) =>
           \A f \in GroupFields[c.group] : WillShow(c, f) = Written(c.writes)[f]
    /\ c.state = "done" /\ ~LoadsAfter(c) =>
           \A f \in GroupFields[c.group] : WillShow(c, f) = config[f]

Quiet(g) == \A c \in asked : c.group # g

FormInv(g) ==
    /\ \A c, d \in asked : c.group = g /\ d.group = g => c = d
    /\ Quiet(g) => \A f \in GroupFields[g] : fields[f] = config[f]
    /\ \A c \in asked : c.group = g => AnswerAgrees(c)

FormsInvariant ==
    /\ settingsSteps \in Nat
    /\ fields = [f \in Fields |-> fields[f]] /\ config = [f \in Fields |-> config[f]]
    /\ \A c \in asked : WellFormed(c)
    /\ \A g \in Groups \ disturbed : FormInv(g)

\* Every field belongs to one group.
LEMMA GroupsApart ==
    /\ \A g \in Groups : GroupFields[g] \subseteq Fields
    /\ \A g, h \in Groups, f \in Fields : f \in GroupFields[g] /\ f \in GroupFields[h] => g = h
    /\ "background" \in Groups /\ {"keep", "hidden"} \subseteq GroupFields["background"]
<1>1. \A g \in Groups : GroupFields[g] \subseteq Fields
  BY Zenon DEF Fields
<1>2. Groups = {"git", "background", "window", "hotkey", "backup", "sidebar", "footer",
                "tooltips", "scale", "system", "mcp"}
  BY Zenon DEF Groups, GroupFields
<1>3. ASSUME NEW g \in Groups, NEW h \in Groups, NEW f, f \in GroupFields[g], f \in GroupFields[h]
      PROVE  g = h
  BY <1>2, <1>3, SMTT(30) DEF GroupFields
<1>4. "background" \in Groups /\ {"keep", "hidden"} \subseteq GroupFields["background"]
  BY <1>2, Zenon DEF GroupFields
<1> QED
  BY <1>1, <1>3, <1>4, Zenon

\* The value a write leaves in a field.
LEMMA WrittenValue ==
    ASSUME NEW w, NEW f \in Fields
    PROVE  Written(w)[f] = IF "keep" \in DOMAIN w /\ w["keep"] = 0 /\ f = "hidden" THEN 0
                           ELSE IF f \in DOMAIN w THEN w[f] ELSE config[f]
  BY Zenon DEF Written, Over

\* A write changes no field of another group.
LEMMA WrittenApart ==
    ASSUME NEW g \in Groups, NEW w, DOMAIN w \subseteq GroupFields[g],
           NEW h \in Groups, h # g, NEW f \in GroupFields[h]
    PROVE  Written(w)[f] = config[f]
<1>1. f \in Fields /\ f \notin DOMAIN w
  BY GroupsApart, Zenon
<1>2. ~("keep" \in DOMAIN w /\ f = "hidden")
  BY GroupsApart, Zenon
<1> QED
  BY <1>1, <1>2, WrittenValue, Zenon

\* A group none of whose calls, fields and settings change stays as it is.
LEMMA FormFrame ==
    ASSUME NEW h \in Groups, FormInv(h),
           \A d : d \in asked' /\ d.group = h <=> d \in asked /\ d.group = h,
           \A f \in GroupFields[h] : fields'[f] = fields[f] /\ config'[f] = config[f]
    PROVE  FormInv(h)'
<1>1. Quiet(h)' <=> Quiet(h)
  BY Zenon DEF Quiet
<1>2. ASSUME NEW d \in asked', d.group = h
      PROVE  AnswerAgrees(d)'
  <2>1. d \in asked /\ AnswerAgrees(d)
    BY <1>2, Zenon DEF FormInv
  <2>2. \A f \in GroupFields[h] : WillShow(d, f)' = WillShow(d, f)
    BY Zenon DEF WillShow
  <2>3. \A f \in GroupFields[h] : Written(d.writes)'[f] = Written(d.writes)[f]
    <3> SUFFICES ASSUME NEW f \in GroupFields[h]
                 PROVE  Written(d.writes)'[f] = Written(d.writes)[f]
      BY Zenon
    <3>1. f \in Fields
      BY GroupsApart, Zenon
    <3> QED
      BY <3>1, Zenon DEF Written, Over
  <2> QED
    BY <1>2, <2>1, <2>2, <2>3, Zenon DEF AnswerAgrees, LoadsAfter
<1> QED
  BY <1>1, <1>2, Zenon DEF FormInv

\* Asking the backend: when the group is at rest its answer will agree, and when
\* it is not the group is disturbed from now on.
LEMMA AskKeeps ==
    ASSUME FormsInvariant, NEW c, Ask(c), WellFormed(c)', c.id = settingsSteps + 1,
           c.writes # NoFields \/ c.group = "git",
           settingsSteps' = settingsSteps + 1, config' = config,
           fields' = [f \in Fields |-> fields'[f]],
           \A f \in Fields \ GroupFields[c.group] : fields'[f] = fields[f],
           (\A f \in GroupFields[c.group] : fields[f] = config[f]) => AnswerAgrees(c)'
    PROVE  FormsInvariant'
<1>1. c.group \in Groups /\ settingsSteps \in Nat /\ settingsSteps' \in Nat
  BY Zenon, SMT DEF WellFormed, FormsInvariant
<1>2. asked' = asked \cup {c} /\ disturbed' = disturbed \cup Overlapping(asked')
  BY Zenon DEF Ask
<1>3. ASSUME NEW d \in asked
      PROVE  d # c /\ WellFormed(d)'
  <2>1. WellFormed(d)
    BY Zenon DEF FormsInvariant
  <2>2. d.writes # NoFields \/ d.group \notin {"mcp", "system"} => d.id <= settingsSteps
    BY <2>1, Zenon DEF WellFormed
  <2>3. d.id \in Nat
    BY <2>1, Zenon DEF WellFormed
  <2>4. d # c
    BY <1>1, <2>2, <2>3
  <2>5. d.writes # NoFields \/ d.group \notin {"mcp", "system"} => d.id <= settingsSteps'
    BY <1>1, <2>2, <2>3
  <2> QED
    BY <2>1, <2>4, <2>5, Zenon DEF WellFormed
<1>4. \A d \in asked' : WellFormed(d)'
  BY <1>2, <1>3, Zenon
<1>5. ASSUME NEW h \in Groups \ disturbed', h # c.group
      PROVE  FormInv(h)'
  <2>1. FormInv(h)
    BY <1>2, Zenon DEF FormsInvariant
  <2>2. \A d : d \in asked' /\ d.group = h <=> d \in asked /\ d.group = h
    BY <1>2, <1>5, Zenon
  <2>3. \A f \in GroupFields[h] : fields'[f] = fields[f] /\ config'[f] = config[f]
    BY <1>1, <1>5, GroupsApart, Zenon
  <2> QED
    BY <2>1, <2>2, <2>3, FormFrame, Zenon
<1>6. ASSUME c.group \notin disturbed'
      PROVE  FormInv(c.group)'
  <2>1. Quiet(c.group)
    <3> SUFFICES ASSUME NEW d \in asked, d.group = c.group
                 PROVE  FALSE
      BY Zenon DEF Quiet
    <3>1. c \in asked' /\ d \in asked' /\ c # d
      BY <1>2, <1>3, Zenon
    <3>2. c.group \in Overlapping(asked')
      BY <1>1, <3>1, Zenon DEF Overlapping
    <3> QED
      BY <1>2, <1>6, <3>2, Zenon
  <2>2. FormInv(c.group)
    BY <1>1, <1>2, <1>6, Zenon DEF FormsInvariant
  <2>3. AnswerAgrees(c)'
    BY <2>1, <2>2, Zenon DEF FormInv
  <2>4. \A d \in asked' : d.group = c.group => d = c
    BY <1>2, <2>1, Zenon DEF Quiet
  <2>5. ~Quiet(c.group)'
    BY <1>2, Zenon DEF Quiet
  <2> QED
    BY <2>3, <2>4, <2>5, Zenon DEF FormInv
<1>7. config' = [f \in Fields |-> config'[f]]
  BY Zenon DEF FormsInvariant
<1> QED
  BY <1>1, <1>4, <1>5, <1>6, <1>7, Zenon DEF FormsInvariant

\* A step of the page that leaves the calls and the fields alone.
LEMMA PageKeeps ==
    ASSUME FormsInvariant, UNCHANGED <<config, fields, asked, disturbed>>,
           settingsSteps' = settingsSteps \/ settingsSteps' = settingsSteps + 1
    PROVE  FormsInvariant'
<1>1. settingsSteps \in Nat /\ settingsSteps' \in Nat
  BY DEF FormsInvariant
<1>2. ASSUME NEW d \in asked
      PROVE  WellFormed(d)'
  <2>1. WellFormed(d)
    BY Zenon DEF FormsInvariant
  <2>2. d.writes # NoFields \/ d.group \notin {"mcp", "system"} => d.id <= settingsSteps
    BY <2>1, Zenon DEF WellFormed
  <2>3. d.id \in Nat
    BY <2>1, Zenon DEF WellFormed
  <2>4. d.writes # NoFields \/ d.group \notin {"mcp", "system"} => d.id <= settingsSteps'
    BY <1>1, <2>2, <2>3
  <2> QED
    BY <2>1, <2>4, Zenon DEF WellFormed
<1>3. asked' = asked /\ disturbed' = disturbed /\ fields' = fields /\ config' = config
  BY Zenon
<1>4. ASSUME NEW h \in Groups \ disturbed'
      PROVE  FormInv(h)'
  <2>1. FormInv(h)
    BY <1>3, Zenon DEF FormsInvariant
  <2> QED
    BY <1>3, <2>1, FormFrame, Zenon
<1>5. fields' = [f \in Fields |-> fields'[f]] /\ config' = [f \in Fields |-> config'[f]]
  BY <1>3, Zenon DEF FormsInvariant
<1> QED
  BY <1>1, <1>2, <1>3, <1>4, <1>5, Zenon DEF FormsInvariant

\* A call replaced by its next state: the other groups see nothing of it.
LEMMA ReplaceKeeps ==
    ASSUME FormsInvariant, NEW c \in asked, NEW e, e.group = c.group, WellFormed(e)',
           asked' = (asked \ {c}) \cup {e}, disturbed \subseteq disturbed',
           settingsSteps' = settingsSteps, fields' = fields,
           config' = config \/ config' = Written(c.writes),
           c.group \notin disturbed' => AnswerAgrees(e)'
    PROVE  FormsInvariant'
<1>1. WellFormed(c) /\ c.group \in Groups /\ DOMAIN c.writes \subseteq GroupFields[c.group]
  BY Zenon DEF WellFormed, FormsInvariant
<1>2. \A d \in asked' : WellFormed(d)'
  BY Zenon DEF FormsInvariant, WellFormed
<1>3. ASSUME NEW h \in Groups \ disturbed', h # c.group
      PROVE  FormInv(h)'
  <2>1. FormInv(h)
    BY Zenon DEF FormsInvariant
  <2>2. \A d : d \in asked' /\ d.group = h <=> d \in asked /\ d.group = h
    BY <1>3, Zenon
  <2>3. \A f \in GroupFields[h] : config'[f] = config[f]
    <3>1. \A f \in GroupFields[h] : Written(c.writes)[f] = config[f]
      BY <1>1, <1>3, WrittenApart, Zenon
    <3> QED
      BY <3>1, Zenon
  <2> QED
    BY <2>1, <2>2, <2>3, FormFrame, Zenon
<1>4. ASSUME c.group \notin disturbed'
      PROVE  FormInv(c.group)'
  <2>1. FormInv(c.group)
    BY <1>1, <1>4, Zenon DEF FormsInvariant
  <2>2. \A d \in asked : d.group = c.group => d = c
    BY <2>1, Zenon DEF FormInv
  <2>3. \A d \in asked' : d.group = c.group => d = e
    BY <2>2, Zenon
  <2>4. ~Quiet(c.group)'
    BY Zenon DEF Quiet
  <2>5. AnswerAgrees(e)'
    BY <1>4, Zenon
  <2> QED
    BY <2>3, <2>4, <2>5, Zenon DEF FormInv
<1>5. config' = [f \in Fields |-> config'[f]]
  <2>1. CASE config' = config
    BY <2>1, Zenon DEF FormsInvariant
  <2>2. CASE config' = Written(c.writes)
    BY <2>2, Zenon DEF Written
  <2> QED
    BY <2>1, <2>2, Zenon
<1>6. fields' = [f \in Fields |-> fields'[f]] /\ settingsSteps' \in Nat
  BY Zenon DEF FormsInvariant
<1> QED
  BY <1>2, <1>3, <1>4, <1>5, <1>6, Zenon DEF FormsInvariant

\* Serving a call changes the configuration the way its answer will show.
LEMMA ServeKeeps ==
    ASSUME FormsInvariant, NEW c \in asked, Serve(c)
    PROVE  FormsInvariant'
<1>1. WellFormed(c)
  BY Zenon DEF FormsInvariant
<1>2. /\ c.state = "sent" /\ config' = Written(c.writes)
      /\ asked' = (asked \ {c}) \cup
                  {[c EXCEPT !.state = "done",
                             !.shows = IF c.fresh THEN Only(config', GroupFields[c.group])
                                       ELSE @]}
      /\ fields' = fields /\ disturbed' = disturbed /\ settingsSteps' = settingsSteps
  BY Zenon DEF Serve
<1>3. c = [x \in CallParts |-> c[x]]
  BY <1>1, Zenon DEF WellFormed
<1>4. PICK shows : shows = IF c.fresh THEN Only(config', GroupFields[c.group]) ELSE c.shows
  BY Zenon
<1>11. PICK e : e = [c EXCEPT !.state = "done", !.shows = shows]
  BY Zenon
<1>10. asked' = (asked \ {c}) \cup {e}
  BY <1>2, <1>4, <1>11, Zenon
<1>5. /\ e = [x \in CallParts |-> e[x]]
      /\ e.id = c.id /\ e.group = c.group /\ e.writes = c.writes /\ e.undo = c.undo
      /\ e.fresh = c.fresh /\ e.state = "done"
      /\ e.shows = shows
  <2>1. DOMAIN c = CallParts
    BY <1>3, Zenon
  <2>2. e = [x \in DOMAIN e |-> e[x]] /\ DOMAIN e = CallParts
    BY <1>11, <2>1, Zenon
  <2> QED
    BY <1>11, <2>1, <2>2, Zenon DEF CallParts
<1>12. e.shows = IF c.fresh THEN Only(config', GroupFields[c.group]) ELSE c.shows
  BY <1>4, <1>5, Zenon
<1>6. DOMAIN Only(config', GroupFields[c.group]) = GroupFields[c.group]
  BY Zenon DEF Only
<1>7. WellFormed(e)
  BY <1>1, <1>5, <1>6, <1>12, Zenon DEF WellFormed
<1>8. WellFormed(e)'
  BY <1>2, <1>7, Zenon DEF WellFormed
<1>9. ASSUME c.group \notin disturbed'
      PROVE  AnswerAgrees(e)'
  <2>1. AnswerAgrees(c)
    BY <1>1, <1>2, <1>9, Zenon DEF FormsInvariant, FormInv, WellFormed
  <2>2. ASSUME ~LoadsAfter(e), NEW f \in GroupFields[c.group]
        PROVE  WillShow(e, f)' = config'[f]
    <3>1. CASE c.fresh
      BY <1>6, <1>12, <3>1, Zenon DEF WillShow, Only
    <3>2. CASE ~c.fresh
      <4>1. WillShow(c, f) = Written(c.writes)[f]
        BY <1>2, <1>5, <2>1, <2>2, <3>2, Zenon DEF AnswerAgrees, LoadsAfter
      <4>2. WillShow(e, f)' = WillShow(c, f)
        BY <1>2, <1>12, <3>2, Zenon DEF WillShow
      <4> QED
        BY <1>2, <4>1, <4>2, Zenon
    <3> QED
      BY <3>1, <3>2, Zenon
  <2>3. LoadsAfter(e)' <=> LoadsAfter(e)
    BY Zenon DEF LoadsAfter
  <2> QED
    BY <1>5, <2>2, <2>3, Zenon DEF AnswerAgrees
<1> QED
  BY <1>2, <1>5, <1>8, <1>9, <1>10, ReplaceKeeps, Zenon

\* A call that fails disturbs its group.
LEMMA FailsKeeps ==
    ASSUME FormsInvariant, NEW c \in asked, Fail(c)
    PROVE  FormsInvariant'
<1>1. WellFormed(c)
  BY Zenon DEF FormsInvariant
<1>2. /\ asked' = (asked \ {c}) \cup {[c EXCEPT !.state = "failed"]}
      /\ disturbed' = disturbed \cup {c.group}
      /\ fields' = fields /\ settingsSteps' = settingsSteps
  BY Zenon DEF Fail
<1>3. config' = config \/ config' = Written(c.writes)
  BY Zenon DEF Fail
<1>4. c = [x \in CallParts |-> c[x]]
  BY <1>1, Zenon DEF WellFormed
<1>5. PICK e : e = [c EXCEPT !.state = "failed"]
  BY Zenon
<1>6. /\ e = [x \in CallParts |-> e[x]]
      /\ e.id = c.id /\ e.group = c.group /\ e.writes = c.writes /\ e.undo = c.undo
      /\ e.fresh = c.fresh /\ e.state = "failed" /\ e.shows = c.shows
  <2>1. DOMAIN c = CallParts
    BY <1>4, Zenon
  <2>2. e = [x \in DOMAIN e |-> e[x]] /\ DOMAIN e = CallParts
    BY <1>5, <2>1, Zenon
  <2> QED
    BY <1>5, <2>1, <2>2, Zenon DEF CallParts
<1>7. WellFormed(e)'
  BY <1>1, <1>2, <1>6, Zenon DEF WellFormed
<1> QED
  BY <1>2, <1>3, <1>5, <1>6, <1>7, ReplaceKeeps, Zenon

\* The answer of an undisturbed group brings its form to the configuration, or is
\* followed by a load that does.
LEMMA ReplyKeeps ==
    ASSUME FormsInvariant, NEW c \in asked, Reply(c)
    PROVE  FormsInvariant'
<1>1. WellFormed(c) /\ c.group \in Groups
  BY Zenon DEF FormsInvariant, WellFormed
<1>2. PICK shown : shown = IF c.state = "done" THEN c.shows ELSE Undone(c)
  BY Zenon
<1>3. /\ c.state # "sent" /\ fields' = Over(shown, fields, Fields)
      /\ asked' = (asked \ {c}) \cup {LoadCall(c.id + 10, g) : g \in FollowUp(c)}
      /\ disturbed' = disturbed \cup Overlapping(asked')
      /\ config' = config /\ settingsSteps' = settingsSteps
  BY <1>2, Zenon DEF Reply
<1>4. DOMAIN shown \subseteq GroupFields[c.group]
  <2>1. DOMAIN NoFields = {}
    BY Zenon DEF NoFields
  <2>2. DOMAIN Undone(c) \subseteq GroupFields[c.group]
    BY <1>1, <2>1, Zenon DEF Undone, WellFormed
  <2> QED
    BY <1>1, <1>2, <2>2, Zenon DEF WellFormed
<1>5. FollowUp(c) \subseteq {c.group} /\ FollowUp(c) \subseteq {"mcp", "system"}
  BY Zenon DEF FollowUp
<1>6. ASSUME NEW d \in asked', d \notin asked \/ d = c
      PROVE  d = LoadCall(c.id + 10, c.group) /\ FollowUp(c) # {}
  BY <1>3, <1>5, <1>6, Zenon
<1>7. ASSUME FollowUp(c) # {}
      PROVE  /\ WellFormed(LoadCall(c.id + 10, c.group))'
             /\ LoadCall(c.id + 10, c.group).group = c.group
             /\ LoadCall(c.id + 10, c.group).fresh
             /\ LoadCall(c.id + 10, c.group).state = "sent"
  <2>1. c.group \in {"mcp", "system"}
    BY <1>5, <1>7, Zenon
  <2>2. PICK k : k = c.id + 10
    BY Zenon
  <2>3. k \in Nat
    BY <1>1, <2>2 DEF WellFormed
  <2>4. PICK l : l = LoadCall(k, c.group)
    BY Zenon
  <2>5. l = [id |-> k, group |-> c.group, writes |-> NoFields, shows |-> NoFields,
             undo |-> NoFields, fresh |-> TRUE, state |-> "sent"]
    BY <2>1, <2>4, Zenon DEF LoadCall, Call
  <2>6. /\ l.id = k /\ l.group = c.group /\ l.writes = NoFields /\ l.shows = NoFields
        /\ l.undo = NoFields /\ l.fresh = TRUE /\ l.state = "sent"
    BY <2>5, Zenon
  <2>7. l = [x \in CallParts |-> l[x]]
    BY <2>5, Zenon DEF CallParts
  <2>8. DOMAIN NoFields = {}
    BY Zenon DEF NoFields
  <2>9. WellFormed(l)'
    BY <1>1, <2>1, <2>3, <2>6, <2>7, <2>8, Zenon DEF WellFormed
  <2> QED
    BY <2>2, <2>4, <2>6, <2>9, Zenon
<1>8. \A d \in asked' : WellFormed(d)'
  <2>1. \A d \in asked : WellFormed(d)'
    BY <1>3, Zenon DEF FormsInvariant, WellFormed
  <2> QED
    BY <1>6, <1>7, <2>1, Zenon
<1>9. ASSUME NEW h \in Groups \ disturbed', h # c.group
      PROVE  FormInv(h)'
  <2>1. FormInv(h)
    BY <1>3, Zenon DEF FormsInvariant
  <2>2. \A d : d \in asked' /\ d.group = h <=> d \in asked /\ d.group = h
    BY <1>3, <1>6, <1>7, <1>9, Zenon
  <2>3. \A f \in GroupFields[h] : f \in Fields /\ f \notin DOMAIN shown
    BY <1>1, <1>4, <1>9, GroupsApart, Zenon
  <2>4. \A f \in GroupFields[h] : fields'[f] = fields[f] /\ config'[f] = config[f]
    BY <1>3, <2>3, Zenon DEF Over
  <2> QED
    BY <2>1, <2>2, <2>4, FormFrame, Zenon
<1>10. ASSUME c.group \notin disturbed'
       PROVE  FormInv(c.group)'
  <2>1. FormInv(c.group)
    BY <1>1, <1>3, <1>10, Zenon DEF FormsInvariant
  <2>2. \A d \in asked : d.group = c.group => d = c
    BY <2>1, Zenon DEF FormInv
  <2>3. AnswerAgrees(c) /\ c.state = "done"
    BY <1>1, <1>3, <2>1, Zenon DEF FormInv, AnswerAgrees, WellFormed
  <2>4. \A d \in asked' : d.group = c.group => d = LoadCall(c.id + 10, c.group) /\ FollowUp(c) # {}
    BY <1>6, <2>2, Zenon
  <2>5. \A d \in asked' : d.group = c.group => AnswerAgrees(d)'
    BY <1>7, <2>4, Zenon DEF AnswerAgrees
  <2>6. ASSUME Quiet(c.group)', NEW f \in GroupFields[c.group]
        PROVE  fields'[f] = config'[f]
    <3>1. FollowUp(c) = {}
      <4> SUFFICES ASSUME FollowUp(c) # {}
                   PROVE  FALSE
        BY Zenon
      <4>1. LoadCall(c.id + 10, c.group) \in asked'
        BY <1>3, <1>5, Zenon
      <4> QED
        BY <1>7, <2>6, <4>1, Zenon DEF Quiet
    <3>2. ~LoadsAfter(c)
      BY <2>3, <3>1, Zenon DEF FollowUp, LoadsAfter
    <3>3. WillShow(c, f) = config[f]
      BY <2>3, <3>2, Zenon DEF AnswerAgrees
    <3>4. f \in Fields
      BY <1>1, GroupsApart, Zenon
    <3>5. fields'[f] = WillShow(c, f)
      BY <1>2, <1>3, <2>3, <3>4, Zenon DEF Over, WillShow
    <3> QED
      BY <1>3, <3>3, <3>5, Zenon
  <2> QED
    BY <2>4, <2>5, <2>6, Zenon DEF FormInv
<1>11. fields' = [f \in Fields |-> fields'[f]]
  BY <1>3, Zenon DEF Over
<1>12. config' = [f \in Fields |-> config'[f]] /\ settingsSteps' \in Nat
  BY <1>3, Zenon DEF FormsInvariant
<1> QED
  BY <1>8, <1>9, <1>10, <1>11, <1>12, Zenon DEF FormsInvariant

\* Written to a group at rest, w is what showing s will bring the form to; a new
\* log level is loaded afterwards.
Brings(g, w, s, shown) ==
    \/ g = "system"
    \/ (\A f \in GroupFields[g] : fields[f] = config[f]) =>
           \A f \in GroupFields[g] : (IF f \in DOMAIN s THEN s[f] ELSE shown[f]) = Written(w)[f]

\* A call of a form, from its parts.
LEMMA FormCallKeeps ==
    ASSUME FormsInvariant, NEW g \in Groups, NEW w, NEW s, NEW u, NEW r \in BOOLEAN,
           w # NoFields \/ g = "git",
           DOMAIN w \subseteq GroupFields[g], DOMAIN s \subseteq GroupFields[g],
           DOMAIN u \subseteq GroupFields[g],
           Ask(Call(settingsSteps + 1, g, w, s, u, r)),
           settingsSteps' = settingsSteps + 1, config' = config,
           fields' = [f \in Fields |-> fields'[f]],
           \A f \in Fields \ GroupFields[g] : fields'[f] = fields[f],
           r \/ Brings(g, w, s, fields')
    PROVE  FormsInvariant'
<1>1. PICK k : k = settingsSteps + 1
  BY Zenon
<1>2. PICK c : c = Call(k, g, w, s, u, r)
  BY Zenon
<1>3. c = [id |-> k, group |-> g, writes |-> w, shows |-> s, undo |-> u, fresh |-> r,
           state |-> "sent"]
  BY <1>2, Zenon DEF Call
<1>4. /\ c.id = k /\ c.group = g /\ c.writes = w /\ c.shows = s /\ c.undo = u
      /\ c.fresh = r /\ c.state = "sent"
  BY <1>3, Zenon
<1>5. c = [x \in CallParts |-> c[x]]
  BY <1>3, Zenon DEF CallParts
<1>6. settingsSteps \in Nat /\ k \in Nat /\ k <= settingsSteps'
  BY <1>1, SMT DEF FormsInvariant
<1>7. WellFormed(c)'
  BY <1>4, <1>5, <1>6, Zenon DEF WellFormed
<1>8. ASSUME \A f \in GroupFields[g] : fields[f] = config[f]
      PROVE  AnswerAgrees(c)'
  <2>1. CASE r
    BY <1>4, <2>1, Zenon DEF AnswerAgrees
  <2>2. CASE g = "system"
    <3>1. w # NoFields
      BY <2>2, Zenon
    <3> QED
      BY <1>4, <2>2, <3>1, Zenon DEF AnswerAgrees, LoadsAfter
  <2>3. CASE \A f \in GroupFields[g] :
                 (IF f \in DOMAIN s THEN s[f] ELSE fields'[f]) = Written(w)[f]
    <3>1. \A f \in GroupFields[g] : Written(w)'[f] = Written(w)[f]
      BY Zenon DEF Written, Over
    <3>2. \A f \in GroupFields[g] : WillShow(c, f)' = Written(c.writes)'[f]
      BY <1>4, <2>3, <3>1, Zenon DEF WillShow
    <3> QED
      BY <1>4, <3>2, Zenon DEF AnswerAgrees
  <2> QED
    BY <1>8, <2>1, <2>2, <2>3, Zenon DEF Brings
<1>9. Ask(c)
  BY <1>1, <1>2, Zenon
<1>10. /\ c.id = settingsSteps + 1 /\ (c.writes # NoFields \/ c.group = "git")
       /\ \A f \in Fields \ GroupFields[c.group] : fields'[f] = fields[f]
       /\ (\A f \in GroupFields[c.group] : fields[f] = config[f]) => AnswerAgrees(c)'
  BY <1>1, <1>4, <1>8, Zenon
<1> QED
  BY <1>7, <1>9, <1>10, AskKeeps, Zenon

\* Saving what is shown only on success.
LEMMA SaveFormKeeps ==
    ASSUME FormsInvariant, NEW g \in Groups, NEW w, NEW s, w # NoFields,
           DOMAIN w \subseteq GroupFields[g], DOMAIN s \subseteq GroupFields[g],
           Save(g, w, s), Brings(g, w, s, fields)
    PROVE  FormsInvariant'
<1>1. /\ settingsSteps' = settingsSteps + 1 /\ config' = config /\ fields' = fields
      /\ Ask(Call(settingsSteps + 1, g, w, s, NoFields, FALSE))
  BY Zenon DEF Save, SettingsStep
<1>2. DOMAIN NoFields = {}
  BY Zenon DEF NoFields
<1>3. fields' = [f \in Fields |-> fields'[f]]
  BY <1>1, Zenon DEF FormsInvariant
<1> QED
  BY <1>1, <1>2, <1>3, FormCallKeeps, Zenon

\* One field is not none.
LEMMA FieldFacts ==
    ASSUME NEW f, NEW v
    PROVE  DOMAIN Field(f, v) = {f} /\ Field(f, v) # NoFields /\ Field(f, v)[f] = v
<1>1. DOMAIN NoFields = {} /\ DOMAIN Field(f, v) = {f}
  BY Zenon DEF NoFields, Field
<1>2. Field(f, v)[f] = v
  BY Zenon DEF Field
<1> QED
  BY <1>1, <1>2, Zenon

\* The forms that save one group with what they will show.
LEMMA SaveGitKeeps ==
    ASSUME FormsInvariant, NEW new, DOMAIN new \subseteq GroupFields["git"],
           Save("git", GitConfig(new), new)
    PROVE  FormsInvariant'
<1>1. "git" \in Groups /\ "branch" \in GroupFields["git"] /\ "keep" \notin GroupFields["git"]
  BY Zenon DEF Groups, GroupFields
<1>2. PICK w : w = GitConfig(new)
  BY Zenon
<1>3. /\ DOMAIN w = GroupFields["git"]
      /\ \A f \in GroupFields["git"] : w[f] = IF f \in DOMAIN new THEN new[f] ELSE fields[f]
  BY <1>2, Zenon DEF GitConfig, Over
<1>4. w # NoFields
  <2>1. DOMAIN NoFields = {}
    BY Zenon DEF NoFields
  <2> QED
    BY <1>1, <1>3, <2>1, Zenon
<1>5. Brings("git", w, new, fields)
  <2> SUFFICES ASSUME NEW f \in GroupFields["git"]
               PROVE  (IF f \in DOMAIN new THEN new[f] ELSE fields[f]) = Written(w)[f]
    BY Zenon DEF Brings
  <2>1. f \in Fields
    BY <1>1, GroupsApart, Zenon
  <2>2. Written(w)[f] = w[f]
    BY <1>1, <1>3, <2>1, WrittenValue, Zenon
  <2> QED
    BY <1>3, <2>2, Zenon
<1> QED
  BY <1>1, <1>2, <1>3, <1>4, <1>5, SaveFormKeeps, Zenon

\* One field, saved alone (handleStartHiddenToggle, handleAppScaleChange...).
LEMMA SaveFieldKeeps ==
    ASSUME FormsInvariant, NEW g \in Groups, NEW x \in GroupFields[g], x # "keep", NEW v,
           Save(g, Field(x, v), Field(x, v))
    PROVE  FormsInvariant'
<1>0. PICK w : w = Field(x, v)
  BY Zenon
<1>4. DOMAIN w = {x} /\ w # NoFields
  BY <1>0, FieldFacts, Zenon
<1>1. \A f \in GroupFields[g] : f \in Fields
  BY GroupsApart, Zenon
<1>2. ASSUME \A f \in GroupFields[g] : fields[f] = config[f], NEW f \in GroupFields[g]
      PROVE  (IF f \in DOMAIN w THEN w[f] ELSE fields[f])
             = Written(w)[f]
  <2>1. Written(w)[f] = IF f \in DOMAIN w THEN w[f] ELSE config[f]
    <3>1. "keep" \notin DOMAIN w /\ f \in Fields
      BY <1>1, <1>4, Zenon
    <3> QED
      BY <3>1, WrittenValue, Zenon
  <2> QED
    BY <1>2, <2>1, Zenon
<1>3. Brings(g, w, w, fields)
  BY <1>2, Zenon DEF Brings
<1> QED
  BY <1>0, <1>3, <1>4, SaveFormKeeps, Zenon

\* The backup form saves and shows both of its fields.
LEMMA SaveBackupKeeps ==
    ASSUME FormsInvariant, NEW on, NEW n,
           Save("backup", [backupOn |-> on, maxBackups |-> n], [backupOn |-> on, maxBackups |-> n])
    PROVE  FormsInvariant'
<1>1. "backup" \in Groups /\ GroupFields["backup"] = {"backupOn", "maxBackups"}
  BY Zenon DEF Groups, GroupFields
<1>2. PICK w : w = [backupOn |-> on, maxBackups |-> n]
  BY Zenon
<1>3. DOMAIN w = {"backupOn", "maxBackups"}
  BY <1>2, Zenon
<1>4. w # NoFields
  <2>1. DOMAIN NoFields = {}
    BY Zenon DEF NoFields
  <2> QED
    BY <1>3, <2>1, Zenon
<1>5. Brings("backup", w, w, fields)
  <2>1. \A f \in GroupFields["backup"] : f \in Fields /\ f \in DOMAIN w /\ "keep" \notin DOMAIN w
    BY <1>1, <1>3, GroupsApart, Zenon
  <2> QED
    BY <2>1, WrittenValue, Zenon DEF Brings
<1> QED
  BY <1>1, <1>2, <1>3, <1>4, <1>5, SaveFormKeeps, Zenon

\* Without the background there is no hidden start: the form shows both.
LEMMA SaveKeepKeeps ==
    ASSUME FormsInvariant, HandleKeepInBackgroundToggle
    PROVE  FormsInvariant'
<1>1. "background" \in Groups /\ GroupFields["background"] = {"keep", "hidden"}
  BY Zenon DEF Groups, GroupFields
<1>2. PICK on : on = 1 - fields["keep"]
  BY Zenon
<1>3. PICK w : w = Field("keep", on)
  BY Zenon
<1>4. PICK s : s = IF on = 0 THEN [keep |-> 0, hidden |-> 0] ELSE w
  BY Zenon
<1>5. Save("background", w, s)
  BY <1>2, <1>3, <1>4, Zenon DEF HandleKeepInBackgroundToggle
<1>6. DOMAIN w = {"keep"} /\ w # NoFields /\ w["keep"] = on
  BY <1>3, FieldFacts, Zenon
<1>7. /\ on = 0 => DOMAIN s = {"keep", "hidden"} /\ s["keep"] = 0 /\ s["hidden"] = 0
      /\ on # 0 => s = w
  BY <1>4, Zenon
<1>8. ASSUME \A f \in GroupFields["background"] : fields[f] = config[f],
             NEW f \in GroupFields["background"]
      PROVE  (IF f \in DOMAIN s THEN s[f] ELSE fields[f]) = Written(w)[f]
  <2>1. f \in Fields
    BY <1>1, GroupsApart, Zenon
  <2>2. Written(w)[f] = IF on = 0 /\ f = "hidden" THEN 0
                        ELSE IF f = "keep" THEN on ELSE config[f]
    BY <1>6, <2>1, WrittenValue, Zenon
  <2>3. fields[f] = config[f]
    BY <1>8, Zenon
  <2> QED
    BY <1>1, <1>6, <1>7, <2>2, <2>3, Zenon
<1>9. DOMAIN s \subseteq GroupFields["background"] /\ DOMAIN w \subseteq GroupFields["background"]
  BY <1>1, <1>6, <1>7, Zenon
<1>10. Brings("background", w, s, fields)
  BY <1>8, Zenon DEF Brings
<1> QED
  BY <1>1, <1>5, <1>6, <1>9, <1>10, SaveFormKeeps, Zenon

\* Showing at once what is saved.
LEMMA OptimisticKeeps ==
    ASSUME FormsInvariant, NEW g \in Groups, NEW w, NEW u, w # NoFields, "keep" \notin DOMAIN w,
           DOMAIN w \subseteq GroupFields[g], DOMAIN u \subseteq GroupFields[g],
           settingsSteps' = settingsSteps + 1, config' = config,
           Ask(Call(settingsSteps + 1, g, w, NoFields, u, FALSE)),
           fields' = Over(w, fields, Fields)
    PROVE  FormsInvariant'
<1>1. DOMAIN NoFields = {}
  BY Zenon DEF NoFields
<1>2. fields' = [f \in Fields |-> fields'[f]]
  BY Zenon DEF Over
<1>3. \A f \in Fields : fields'[f] = IF f \in DOMAIN w THEN w[f] ELSE fields[f]
  BY Zenon DEF Over
<1>4. \A f \in Fields \ GroupFields[g] : fields'[f] = fields[f]
  BY <1>3, Zenon
<1>5. Brings(g, w, NoFields, fields')
  <2> SUFFICES ASSUME \A f \in GroupFields[g] : fields[f] = config[f], NEW f \in GroupFields[g]
               PROVE  (IF f \in DOMAIN NoFields THEN NoFields[f] ELSE fields'[f]) = Written(w)[f]
    BY Zenon DEF Brings
  <2>1. f \in Fields
    BY GroupsApart, Zenon
  <2>2. Written(w)[f] = IF f \in DOMAIN w THEN w[f] ELSE config[f]
    BY <2>1, WrittenValue, Zenon
  <2>3. fields[f] = config[f]
    BY Zenon
  <2> QED
    BY <1>1, <1>3, <2>1, <2>2, <2>3, Zenon
<1> QED
  BY <1>1, <1>2, <1>4, <1>5, FormCallKeeps, Zenon

\* One field, shown at once and put back when the call fails (setSidebarVisible...).
LEMMA SaveOptimisticKeeps ==
    ASSUME FormsInvariant, NEW g \in Groups, NEW x \in GroupFields[g], x # "keep", NEW v, NEW o,
           SaveOptimistic(g, Field(x, v), Field(x, o))
    PROVE  FormsInvariant'
<1>1. PICK w : w = Field(x, v)
  BY Zenon
<1>2. PICK u : u = Field(x, o)
  BY Zenon
<1>3. DOMAIN w = {x} /\ w # NoFields /\ DOMAIN u = {x}
  BY <1>1, <1>2, FieldFacts, Zenon
<1>4. /\ settingsSteps' = settingsSteps + 1 /\ config' = config
      /\ Ask(Call(settingsSteps + 1, g, w, NoFields, u, FALSE))
      /\ fields' = Over(w, fields, Fields)
  BY <1>1, <1>2, Zenon DEF SaveOptimistic, SettingsStep
<1>5. "keep" \notin DOMAIN w /\ DOMAIN w \subseteq GroupFields[g] /\ DOMAIN u \subseteq GroupFields[g]
  BY <1>3, Zenon
<1> QED
  BY <1>3, <1>4, <1>5, OptimisticKeeps, Zenon

\* The hotkey is shown at once, or refused without asking.
LEMMA HotkeyKeeps ==
    ASSUME FormsInvariant, NEW new, HandleHotkeyConfigChange(new)
    PROVE  FormsInvariant'
<1>1. "hotkey" \in Groups /\ GroupFields["hotkey"] = {"hotkeyOn", "hotkey"}
  BY Zenon DEF Groups, GroupFields
<1>2. PICK w : w = Over(new, fields, GroupFields["hotkey"])
  BY Zenon
<1>3. DOMAIN w = {"hotkeyOn", "hotkey"}
  BY <1>1, <1>2, Zenon DEF Over
<1>4. "keep" \notin DOMAIN w /\ w # NoFields
  <2>1. DOMAIN NoFields = {}
    BY Zenon DEF NoFields
  <2>2. "hotkey" \in DOMAIN w /\ "keep" \notin DOMAIN w
    BY <1>3, Zenon
  <2> QED
    BY <2>1, <2>2, Zenon
<1>5. \/ PageOnly([panel EXCEPT !.hotkeyError = TRUE])
      \/ /\ settingsSteps' = settingsSteps + 1 /\ config' = config
         /\ Ask(Call(settingsSteps + 1, "hotkey", w, NoFields, NoFields, FALSE))
         /\ fields' = Over(w, fields, Fields)
  BY <1>2, Zenon DEF HandleHotkeyConfigChange, SettingsStep
<1>6. CASE PageOnly([panel EXCEPT !.hotkeyError = TRUE])
  BY <1>6, PageKeeps, Zenon DEF PageOnly, SettingsStep
<1>7. DOMAIN NoFields = {}
  BY Zenon DEF NoFields
<1>8. DOMAIN w \subseteq GroupFields["hotkey"] /\ DOMAIN NoFields \subseteq GroupFields["hotkey"]
  BY <1>1, <1>3, <1>7, Zenon
<1> QED
  BY <1>1, <1>4, <1>5, <1>6, <1>8, OptimisticKeeps, Zenon

\* The MCP server answers with its new status.
LEMMA McpKeeps ==
    ASSUME FormsInvariant, NEW x \in GroupFields["mcp"], NEW v, McpCall(Field(x, v))
    PROVE  FormsInvariant'
<1>1. "mcp" \in Groups
  BY Zenon DEF Groups, GroupFields
<1>2. PICK w : w = Field(x, v)
  BY Zenon
<1>3. DOMAIN w = {x} /\ w # NoFields /\ DOMAIN NoFields = {}
  BY <1>2, FieldFacts, Zenon DEF NoFields
<1>4. /\ settingsSteps' = settingsSteps + 1 /\ config' = config /\ fields' = fields
      /\ Ask(Call(settingsSteps + 1, "mcp", w, NoFields, NoFields, TRUE))
  BY <1>2, Zenon DEF McpCall, SettingsStep
<1>5. fields' = [f \in Fields |-> fields'[f]]
  BY <1>4, Zenon DEF FormsInvariant
<1>6. DOMAIN w \subseteq GroupFields["mcp"] /\ DOMAIN NoFields \subseteq GroupFields["mcp"]
  BY <1>3, Zenon
<1> QED
  BY <1>1, <1>3, <1>4, <1>5, <1>6, FormCallKeeps, Zenon

\* Loading the git form again after a load that failed.
LEMMA RetryKeeps ==
    ASSUME FormsInvariant, RetryLoadSettings
    PROVE  FormsInvariant'
<1>1. "git" \in Groups
  BY Zenon DEF Groups, GroupFields
<1>2. DOMAIN NoFields = {}
  BY Zenon DEF NoFields
<1>3. /\ settingsSteps' = settingsSteps + 1 /\ config' = config /\ fields' = fields
      /\ Ask(Call(settingsSteps + 1, "git", NoFields, NoFields, NoFields, TRUE))
  BY Zenon DEF RetryLoadSettings, SettingsStep, LoadCall
<1>4. fields' = [f \in Fields |-> fields'[f]]
  BY <1>3, Zenon DEF FormsInvariant
<1>5. DOMAIN NoFields \subseteq GroupFields["git"]
  BY <1>2, Zenon
<1> QED
  BY <1>1, <1>3, <1>4, <1>5, FormCallKeeps, Zenon

\* The page opens with one load under way; the other forms show what is stored.
LEMMA FormsStart == SettingsInit => FormsInvariant
<1> SUFFICES ASSUME SettingsInit
             PROVE  FormsInvariant
  BY Zenon
<1>1. PICK g \in Groups : /\ asked = {LoadCall(0, g)}
                          /\ fields = Over(Only(Defaults, GroupFields[g]), config, Fields)
  BY Zenon DEF SettingsInit
<1>2. config = [f \in Fields |-> config[f]]
  BY Zenon DEF SettingsInit, StoredConfig
<1>3. fields = [f \in Fields |-> fields[f]]
  BY <1>1, Zenon DEF Over
<1>4. PICK u : u = IF g \in {"footer", "tooltips"} THEN Field(g, 1) ELSE NoFields
  BY Zenon
<1>5. DOMAIN u \subseteq GroupFields[g] /\ DOMAIN NoFields = {}
  <2>1. "footer" \in GroupFields["footer"] /\ "tooltips" \in GroupFields["tooltips"]
    BY Zenon DEF GroupFields
  <2>2. DOMAIN NoFields = {} /\ DOMAIN Field(g, 1) = {g}
    BY FieldFacts, Zenon DEF NoFields
  <2> QED
    BY <1>4, <2>1, <2>2, Zenon
<1>6. PICK c : c = LoadCall(0, g)
  BY Zenon
<1>7. c = [id |-> 0, group |-> g, writes |-> NoFields, shows |-> NoFields, undo |-> u,
           fresh |-> TRUE, state |-> "sent"]
  BY <1>4, <1>6, Zenon DEF LoadCall, Call
<1>8. /\ c.id = 0 /\ c.group = g /\ c.writes = NoFields /\ c.shows = NoFields /\ c.undo = u
      /\ c.fresh = TRUE /\ c.state = "sent"
  BY <1>7, Zenon
<1>9. c = [x \in CallParts |-> c[x]]
  BY <1>7, Zenon DEF CallParts
<1>10. settingsSteps = 0 /\ 0 \in Nat /\ 0 <= 0
  BY DEF SettingsInit
<1>11. WellFormed(c)
  BY <1>5, <1>8, <1>9, <1>10, Zenon DEF WellFormed
<1>12. ASSUME NEW h \in Groups
       PROVE  FormInv(h)
  <2>1. AnswerAgrees(c)
    BY <1>8, Zenon DEF AnswerAgrees
  <2>2. ASSUME Quiet(h), NEW f \in GroupFields[h]
        PROVE  fields[f] = config[f]
    <3>1. h # g
      BY <1>1, <1>6, <1>8, <2>2, Zenon DEF Quiet
    <3>2. f \in Fields /\ f \notin GroupFields[g]
      BY <3>1, GroupsApart, Zenon
    <3>3. DOMAIN Only(Defaults, GroupFields[g]) = GroupFields[g]
      BY Zenon DEF Only
    <3> QED
      BY <1>1, <3>2, <3>3, Zenon DEF Over
  <2> QED
    BY <1>1, <1>6, <2>1, <2>2, Zenon DEF FormInv
<1> QED
  BY <1>1, <1>2, <1>3, <1>6, <1>10, <1>11, <1>12, Zenon DEF FormsInvariant

\* Every step of the page and of the backend keeps the invariant.
LEMMA FormsStep == FormsInvariant /\ [SettingsNext]_settingsVars => FormsInvariant'
<1> SUFFICES ASSUME FormsInvariant, [SettingsNext]_settingsVars
             PROVE  FormsInvariant'
  BY Zenon
<1>1. ASSUME NEW c \in asked, Serve(c) \/ Fail(c) \/ Reply(c)
      PROVE  FormsInvariant'
  BY <1>1, ServeKeeps, FailsKeeps, ReplyKeeps, Zenon
<1>2. CASE HandleGitSyncToggle
  <2>1. PICK new : new = GitToggled(1 - fields["enabled"])
    BY Zenon
  <2>2. DOMAIN new \subseteq GroupFields["git"]
    BY <2>1, Zenon DEF GitToggled, GroupFields
  <2> QED
    BY <1>2, <2>1, <2>2, SaveGitKeeps, Zenon DEF HandleGitSyncToggle
<1>3. ASSUME NEW x \in GroupFields["git"], NEW v, Save("git", GitConfig(Field(x, v)), Field(x, v))
      PROVE  FormsInvariant'
  <2>1. PICK new : new = Field(x, v)
    BY Zenon
  <2>2. DOMAIN new = {x}
    BY <2>1, FieldFacts, Zenon
  <2>3. DOMAIN new \subseteq GroupFields["git"]
    BY <2>2, Zenon
  <2> QED
    BY <1>3, <2>1, <2>3, SaveGitKeeps, Zenon
<1>4. {"interval", "autoPush", "branch"} \subseteq GroupFields["git"]
  BY Zenon DEF GroupFields
<1>5. ASSUME NEW n, \/ HandleAutoPushToggle
                    \/ HandleCommitIntervalChange(n) \/ HandleBranchChange(n)
      PROVE  FormsInvariant'
  BY <1>3, <1>4, <1>5, Zenon DEF HandleAutoPushToggle, HandleCommitIntervalChange,
                                 HandleBranchChange
<1>6. CASE RetryLoadSettings
  BY <1>6, RetryKeeps, Zenon
<1>7. CASE HandleKeepInBackgroundToggle
  BY <1>7, SaveKeepKeeps, Zenon
<1>8. /\ {"background", "window", "scale", "system", "sidebar", "footer", "tooltips"} \subseteq Groups
      /\ "hidden" \in GroupFields["background"] /\ "frameless" \in GroupFields["window"]
      /\ "scale" \in GroupFields["scale"] /\ "logLevel" \in GroupFields["system"]
      /\ "sidebar" \in GroupFields["sidebar"] /\ "footer" \in GroupFields["footer"]
      /\ "tooltips" \in GroupFields["tooltips"]
      /\ {"mcpOn", "mcpPort", "mcpToken"} \subseteq GroupFields["mcp"]
  BY Zenon DEF Groups, GroupFields
<1>9. CASE HandleStartHiddenToggle \/ HandleLinuxWindowModeToggle \/ HandleAppScaleChange(2)
  BY <1>8, <1>9, SaveFieldKeeps, Zenon DEF HandleStartHiddenToggle, HandleLinuxWindowModeToggle,
                                           HandleAppScaleChange
<1>10. CASE HandleLogLevelChange(2)
  <2>1. PICK w : w = Field("logLevel", 2)
    BY Zenon
  <2>2. DOMAIN w = {"logLevel"} /\ w # NoFields /\ DOMAIN NoFields = {}
    BY <2>1, FieldFacts, Zenon DEF NoFields
  <2>3. DOMAIN w \subseteq GroupFields["system"] /\ DOMAIN NoFields \subseteq GroupFields["system"]
    BY <1>8, <2>2, Zenon
  <2>4. Brings("system", w, NoFields, fields)
    BY Zenon DEF Brings
  <2> QED
    BY <1>8, <1>10, <2>1, <2>2, <2>3, <2>4, SaveFormKeeps, Zenon DEF HandleLogLevelChange
<1>11. CASE SetSidebarVisible \/ SetShowFooterHints \/ SetShowShortcutTooltips
  BY <1>8, <1>11, SaveOptimisticKeeps, Zenon DEF SetSidebarVisible, SetShowFooterHints,
                                                 SetShowShortcutTooltips
<1>12. ASSUME NEW new, HandleHotkeyConfigChange(new)
       PROVE  FormsInvariant'
  BY <1>12, HotkeyKeeps, Zenon
<1>13. CASE SetEnabled \/ SetPort(2) \/ RegenerateToken
  BY <1>8, <1>13, McpKeeps, Zenon DEF SetEnabled, SetPort, RegenerateToken
<1>14. CASE HandleBackupToggle \/ HandleMaxBackupsChange(2)
  BY <1>14, SaveBackupKeeps, Zenon DEF HandleBackupToggle, HandleMaxBackupsChange
<1>15. ASSUME NEW new, PageOnly(new)
       PROVE  FormsInvariant'
  BY <1>15, PageKeeps, Zenon DEF PageOnly, SettingsStep
<1>16. CASE FocusHotkey \/ LeaveHotkey \/ PressHotkey
  BY <1>12, <1>15, <1>16, Zenon DEF FocusHotkey, LeaveHotkey, PressHotkey
<1>17. ASSUME NEW what, NEW c, AskBackup(what, c)
       PROVE  FormsInvariant'
  BY <1>15, <1>17, Zenon DEF AskBackup
<1>18. CASE CancelSettingsDialog \/ ConfirmBackup
  BY <1>15, <1>18, Zenon DEF CancelSettingsDialog, ConfirmBackup
<1>19. CASE HandleRequestReindex \/ HandleConfirmReindex \/ ReindexProgress
  BY <1>15, <1>19, Zenon DEF HandleRequestReindex, HandleConfirmReindex, ReindexProgress
<1>20. ASSUME NEW i, NEW q, SelectSection(i) \/ HandleNextSection \/ HandlePreviousSection
                            \/ SetFilter(q)
       PROVE  FormsInvariant'
  BY <1>15, <1>20, Zenon DEF SelectSection, HandleNextSection, HandlePreviousSection, SetFilter
<1>21. CASE DeleteBackup \/ RestoreBackup \/ ReindexEnds \/ UNCHANGED settingsVars
  BY <1>21, PageKeeps, Zenon DEF DeleteBackup, RestoreBackup, ReindexEnds, settingsVars
<1> QED
  BY <1>1, <1>2, <1>5, <1>6, <1>7, <1>9, <1>10, <1>11, <1>12, <1>13, <1>14, <1>16, <1>17,
     <1>18, <1>19, <1>20, <1>21, Zenon DEF SettingsNext

(* The settings page never drifts from the configuration: in every          *)
(* behaviour, with any number of changes, calls served in any order and     *)
(* answers that come back in any order, a group none of whose calls failed  *)
(* or overlapped shows the backend's values once its calls have answered    *)
(* (the hooks of frontend/src/settings).                                    *)
THEOREM FormsFollowConfig == SettingsSpec => []FormsAgree
<1>1. FormsInvariant => FormsAgree
  <2> SUFFICES ASSUME FormsInvariant, NEW g \in Groups \ disturbed, Pending(g) = {}
               PROVE  Only(fields, GroupFields[g]) = Only(config, GroupFields[g])
    BY Zenon DEF FormsAgree
  <2>1. Quiet(g)
    BY Zenon DEF Quiet, Pending
  <2>2. \A f \in GroupFields[g] : fields[f] = config[f]
    BY <2>1, Zenon DEF FormsInvariant, FormInv
  <2> QED
    BY <2>2, Zenon DEF Only
<1> QED
  BY <1>1, FormsStart, FormsStep, PTL DEF SettingsSpec

=============================================================================
