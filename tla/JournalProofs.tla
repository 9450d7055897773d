---------------------------- MODULE JournalProofs ----------------------------
(***************************************************************************)
(* Proofs about the journaled multi-file write: for any number of files    *)
(* and any contents, it implements AtomicWrite, a locked mutation starts   *)
(* clean, and the reported outcome is the state in effect.                 *)
(***************************************************************************)
EXTENDS Journal, TLAPS

PreCommit == {"stageJournal", "stage", "torn", "commitJournal"}

\* The staged copies against the journal file.
StagedCopies ==
    /\ jnl = NoJournal => \A f \in File : next[f] = Absent
    /\ jnl # NoJournal => \A f \in File : next[f] # Absent => f \in jnl.files

\* The lock holder's progress against the files.
Progress ==
    /\ pc = "replay" => /\ jnl # NoJournal
                        /\ \A f \in jnl.files \ todo : next[f] = Absent
    /\ pc \in {"body", "stageJournal"} => jnl = NoJournal
    /\ pc \in {"replay", "body"} => ~jtmp
    /\ pc \in PreCommit \cup {"catch"} => batch \in Batch
    /\ pc \in {"stage", "torn", "commitJournal"} =>
          /\ jnl = [state |-> "staged", files |-> DOMAIN batch]
          /\ todo \subseteq DOMAIN batch
          /\ \A f \in (DOMAIN batch) \ todo : next[f] = batch[f]
    /\ pc = "commitJournal" => todo = {}

\* Before the commit point the old contents are in effect, after it the new.
CommitPoint ==
    /\ pc \in PreCommit => View = before
    /\ pc = "catch" => View = IF Committed THEN Overlay(before, batch) ELSE before
    /\ pc \in {"recover", "replay"} /\ goal = "undo" => View = before
    /\ pc \in {"recover", "replay"} /\ goal = "finish" => View = Overlay(before, batch)

IInv == TypeOK /\ StagedCopies /\ NoTornCommit /\ Progress /\ CommitPoint

-----------------------------------------------------------------------------
\* A batch is a function from some of the files to contents.
LEMMA BatchType ==
    ASSUME NEW b \in Batch
    PROVE  DOMAIN b \in SUBSET File /\ b \in [DOMAIN b -> Val] /\ b # NoBatch
BY JournalAssumption DEF Batch

\* A journal file is not the absence of one.
LEMMA JournalIsFile ==
    ASSUME NEW b \in Batch, NEW st \in {"staged", "committed"}
    PROVE  [state |-> st, files |-> DOMAIN b] # NoJournal
BY BatchType, JournalAssumption

\* The contents in effect are contents: NoTornCommit keeps a torn copy out.
LEMMA ViewType ==
    ASSUME TypeOK, NoTornCommit
    PROVE  View \in [File -> Val]
BY DEF TypeOK, NoTornCommit, View

\* Without a committed journal the published files are in effect.
LEMMA ViewIsDisk ==
    ASSUME TypeOK, ~Committed
    PROVE  View = disk
BY DEF TypeOK, View

-----------------------------------------------------------------------------
\* A step out of a state of IInv keeps the types.
LEMMA StepType ==
    ASSUME TypeOK, NoTornCommit, Progress, [Next]_jvars
    PROVE  TypeOK'
<1> USE DEF TypeOK, Stages, Results
<1>1. CASE Acquire
  BY <1>1 DEF Acquire
<1>2. CASE ReadJournal
  BY <1>2 DEF ReadJournal, Recovered, JournalFile
<1>3. CASE RollForward
  <2>1. PICK f \in File :
           /\ First(f)
           /\ disk' = IF next[f] # Absent THEN [disk EXCEPT ![f] = next[f]] ELSE disk
           /\ next' = [next EXCEPT ![f] = Absent]
           /\ todo' = todo \ {f}
    BY <1>3 DEF RollForward
  <2>2. next[f] # Absent => next[f] \in Val
    BY <1>3 DEF RollForward, NoTornCommit
  <2>3. UNCHANGED <<jnl, jtmp, pc, goal, batch, result, before>>
    BY <1>3 DEF RollForward
  <2> QED
    BY <2>1, <2>2, <2>3
<1>4. CASE RollBack
  BY <1>4 DEF RollBack
<1>5. CASE RemoveJournal
  BY <1>5 DEF RemoveJournal, Recovered, RecoveryThrew
<1>6. CASE RecoveryFails
  BY <1>6 DEF RecoveryFails, RecoveryThrew
<1>7. CASE Release
  BY <1>7 DEF Release
<1>8. ASSUME NEW b \in Batch, Begin(b) PROVE TypeOK'
  <2>1. before' \in [File -> Val]
    BY <1>8, ViewType DEF Begin
  <2> QED
    BY <1>8, <2>1 DEF Begin
<1>9. CASE WriteJournalTemp
  BY <1>9 DEF WriteJournalTemp
<1>10. CASE PublishStaged
  BY <1>10, BatchType DEF PublishStaged, JournalFile, Progress, PreCommit
<1>11. CASE StageOpen
  BY <1>11 DEF StageOpen
<1>12. CASE StageFlush
  <2>1. batch \in Batch /\ todo \subseteq DOMAIN batch
    BY <1>12 DEF StageFlush, Progress, PreCommit
  <2>2. \A f \in todo : batch[f] \in Val
    BY <2>1, BatchType
  <2> QED
    BY <1>12, <2>2 DEF StageFlush, First
<1>13. CASE StagedAll
  BY <1>13 DEF StagedAll
<1>14. CASE PublishCommitted
  BY <1>14, BatchType DEF PublishCommitted, JournalFile, Progress, PreCommit
<1>15. CASE Catch
  BY <1>15 DEF Catch
<1>16. CASE StageFails
  BY <1>16 DEF StageFails
<1>17. CASE CatchFails
  BY <1>17 DEF CatchFails
<1>18. CASE Kill
  BY <1>18 DEF Kill
<1>19. CASE UNCHANGED jvars
  BY <1>19 DEF jvars
<1> QED
  BY <1>1, <1>2, <1>3, <1>4, <1>5, <1>6, <1>7, <1>8, <1>9, <1>10, <1>11, <1>12,
     <1>13, <1>14, <1>15, <1>16, <1>17, <1>18, <1>19 DEF Next, Recovery, Write

\* The staged copies and the writer's progress stay in step with the journal.
LEMMA StepFiles ==
    ASSUME TypeOK, StagedCopies, NoTornCommit, Progress, [Next]_jvars
    PROVE  StagedCopies' /\ NoTornCommit' /\ Progress'
<1> USE DEF StagedCopies, NoTornCommit, Committed, Progress, PreCommit
<1>1. CASE Acquire
  BY <1>1 DEF Acquire
<1>2. CASE ReadJournal
  BY <1>2 DEF ReadJournal, Recovered, TypeOK
<1>3. CASE RollForward \/ RollBack
  <2>1. PICK f \in File :
           /\ First(f)
           /\ next' = [next EXCEPT ![f] = Absent]
           /\ todo' = todo \ {f}
    BY <1>3 DEF RollForward, RollBack
  <2>2. UNCHANGED <<jnl, jtmp, pc, batch>> /\ pc = "replay"
    BY <1>3 DEF RollForward, RollBack
  <2>3. next' \in [File -> Val \cup {Absent, Torn}]
           /\ \A g \in File : next'[g] = IF g = f THEN Absent ELSE next[g]
    BY <2>1 DEF TypeOK
  <2>4. \A g \in jnl.files \ todo' : next'[g] = Absent
    BY <2>1, <2>2, <2>3 DEF TypeOK, JournalFile
  <2>5. StagedCopies'
    BY <2>2, <2>3
  <2>6. NoTornCommit'
    BY <2>2, <2>3, JournalAssumption
  <2> QED
    BY <2>2, <2>4, <2>5, <2>6
<1>5. CASE RemoveJournal
  <2>1. \A f \in File : next[f] = Absent
    BY <1>5 DEF RemoveJournal
  <2> QED
    BY <1>5, <2>1 DEF RemoveJournal, Recovered, RecoveryThrew
<1>6. CASE RecoveryFails
  BY <1>6 DEF RecoveryFails, RecoveryThrew
<1>7. CASE Release
  BY <1>7 DEF Release
<1>8. ASSUME NEW b \in Batch, Begin(b)
      PROVE  StagedCopies' /\ NoTornCommit' /\ Progress'
  BY <1>8 DEF Begin
<1>9. CASE WriteJournalTemp
  BY <1>9 DEF WriteJournalTemp
<1>10. CASE PublishStaged
  BY <1>10, BatchType DEF PublishStaged
<1>11. CASE StageOpen
  <2>1. PICK f \in File : First(f) /\ next' = [next EXCEPT ![f] = Torn]
    BY <1>11 DEF StageOpen
  <2>2. \A g \in File : next'[g] = IF g = f THEN Torn ELSE next[g]
    BY <2>1 DEF TypeOK
  <2>3. UNCHANGED <<jnl, todo, batch>> /\ pc = "stage" /\ pc' = "torn" /\ f \in todo
    BY <1>11, <2>1 DEF StageOpen, First
  <2>4. /\ todo \subseteq DOMAIN batch /\ DOMAIN batch \subseteq File
        /\ jnl # NoJournal /\ jnl.files = DOMAIN batch
    BY <2>3, BatchType, JournalIsFile
  <2>5. StagedCopies'
    BY <2>2, <2>3, <2>4
  <2>6. ~Committed'
    BY <2>3
  <2>7. \A g \in (DOMAIN batch) \ todo : next'[g] = batch[g]
    BY <2>2, <2>3, <2>4
  <2> QED
    BY <2>3, <2>4, <2>5, <2>6, <2>7
<1>12. CASE StageFlush
  <2>1. PICK f \in File : /\ First(f)
                          /\ next' = [next EXCEPT ![f] = batch[f]]
                          /\ todo' = todo \ {f}
    BY <1>12 DEF StageFlush
  <2>2. \A g \in File : next'[g] = IF g = f THEN batch[f] ELSE next[g]
    BY <2>1 DEF TypeOK
  <2>3. UNCHANGED <<jnl, batch>> /\ pc = "torn" /\ pc' = "stage" /\ f \in todo
    BY <1>12, <2>1 DEF StageFlush, First
  <2>4. /\ todo \subseteq DOMAIN batch /\ DOMAIN batch \subseteq File
        /\ jnl # NoJournal /\ jnl.files = DOMAIN batch
    BY <2>3, BatchType, JournalIsFile
  <2>5. StagedCopies'
    BY <2>2, <2>3, <2>4
  <2>6. ~Committed'
    BY <2>3
  <2>7. todo' \subseteq DOMAIN batch
    BY <2>1, <2>4
  <2>8. \A g \in (DOMAIN batch) \ todo' : next'[g] = batch[g]
    BY <2>1, <2>2, <2>3, <2>4
  <2> QED
    BY <2>3, <2>5, <2>6, <2>7, <2>8
<1>13. CASE StagedAll
  BY <1>13 DEF StagedAll
<1>14. CASE PublishCommitted
  <2>1. batch \in Batch /\ jnl.files = DOMAIN batch /\ todo = {}
          /\ \A f \in DOMAIN batch : next[f] = batch[f]
    BY <1>14 DEF PublishCommitted
  <2>2. \A f \in File : next[f] # Torn
    BY <1>14, <2>1, BatchType, JournalAssumption DEF PublishCommitted
  <2>3. jnl' # NoJournal
    BY <1>14, <2>1, JournalIsFile DEF PublishCommitted
  <2>4. StagedCopies'
    BY <1>14, <2>1, <2>3 DEF PublishCommitted
  <2> QED
    BY <1>14, <2>1, <2>2, <2>4 DEF PublishCommitted
<1>15. CASE Catch
  BY <1>15 DEF Catch
<1>16. CASE StageFails
  BY <1>16 DEF StageFails
<1>17. CASE CatchFails
  BY <1>17 DEF CatchFails
<1>18. CASE Kill
  BY <1>18 DEF Kill
<1>19. CASE UNCHANGED jvars
  BY <1>19 DEF jvars
<1> QED
  BY <1>1, <1>2, <1>3, <1>5, <1>6, <1>7, <1>8, <1>9, <1>10, <1>11, <1>12,
     <1>13, <1>14, <1>15, <1>16, <1>17, <1>18, <1>19 DEF Next, Recovery, Write

-----------------------------------------------------------------------------
\* Installing the batch: once every staged copy is complete, switching the
\* journal to "committed" overlays the batch on the contents in effect.
LEMMA CommitOverlays ==
    ASSUME TypeOK, StagedCopies, NoTornCommit, Progress, PublishCommitted
    PROVE  View' = Overlay(View, batch)
<1>1. /\ batch \in Batch /\ ~Committed /\ todo = {}
      /\ jnl # NoJournal /\ jnl.files = DOMAIN batch
      /\ \A f \in DOMAIN batch : next[f] = batch[f]
  BY JournalIsFile DEF PublishCommitted, Progress, PreCommit, Committed
<1>2. View = disk
  BY <1>1, ViewIsDisk
<1>3. jnl' # NoJournal /\ jnl'.state = "committed"
  BY <1>1, JournalIsFile DEF PublishCommitted
<1>4. View' = [f \in File |-> IF next[f] # Absent THEN next[f] ELSE disk[f]]
  BY <1>3 DEF PublishCommitted, View, Committed
<1>5. \A f \in File : next[f] # Absent <=> f \in DOMAIN batch
  BY <1>1, BatchType, JournalAssumption DEF StagedCopies
<1> QED
  BY <1>1, <1>2, <1>4, <1>5, BatchType DEF Overlay

\* No other step changes the contents in effect: the files are moved into place
\* under a committed journal, and the journal is removed only after that.
LEMMA ViewStable ==
    ASSUME TypeOK, StagedCopies, NoTornCommit, Progress, [Next]_jvars,
           ~PublishCommitted
    PROVE  View' = View
<1> USE DEF View, Committed
<1>1. CASE RollForward
  <2>1. PICK f \in File :
           /\ disk' = IF next[f] # Absent THEN [disk EXCEPT ![f] = next[f]] ELSE disk
           /\ next' = [next EXCEPT ![f] = Absent]
    BY <1>1 DEF RollForward
  <2>2. Committed /\ Committed'
    BY <1>1 DEF RollForward
  <2>3. \A g \in File : /\ next'[g] = IF g = f THEN Absent ELSE next[g]
                        /\ disk'[g] = IF g = f /\ next[f] # Absent THEN next[f] ELSE disk[g]
    BY <2>1 DEF TypeOK
  <2> QED
    BY <2>2, <2>3
<1>2. CASE RollBack
  BY <1>2 DEF RollBack
<1>3. CASE RemoveJournal
  <2>1. \A f \in File : next[f] = Absent
    BY <1>3 DEF RemoveJournal, StagedCopies, Progress
  <2> QED
    BY <1>3, <2>1 DEF RemoveJournal
<1>4. CASE PublishStaged
  <2>1. jnl = NoJournal /\ jnl'.state = "staged"
    BY <1>4 DEF PublishStaged, Progress
  <2> QED
    BY <1>4, <2>1 DEF PublishStaged
<1>5. CASE StageOpen \/ StageFlush
  <2>1. jnl.state = "staged" /\ jnl' = jnl /\ disk' = disk
    BY <1>5 DEF StageOpen, StageFlush, Progress
  <2> QED
    BY <2>1
<1>6. CASE UNCHANGED <<disk, next, jnl>>
  BY <1>6
<1> QED
  BY <1>1, <1>2, <1>3, <1>4, <1>5, <1>6
     DEF Next, Recovery, Write, jvars, Acquire, ReadJournal, RecoveryFails, Release,
         Begin, WriteJournalTemp, StagedAll, Catch, StageFails, CatchFails, Kill

\* The history of the commit point is kept by every step.
LEMMA StepCommitPoint ==
    ASSUME IInv, [Next]_jvars
    PROVE  CommitPoint'
<1> USE DEF CommitPoint, PreCommit
<1> TypeOK /\ StagedCopies /\ NoTornCommit /\ Progress /\ CommitPoint
  BY DEF IInv
<1>1. CASE PublishCommitted
  <2>1. View' = Overlay(before, batch) /\ UNCHANGED <<before, batch>>
    BY <1>1, CommitOverlays DEF PublishCommitted
  <2>2. Committed'
    BY <1>1, JournalIsFile DEF PublishCommitted, Progress, Committed
  <2> QED
    BY <1>1, <2>1, <2>2 DEF PublishCommitted, Overlay
<1>2. CASE ~PublishCommitted
  <2>1. View' = View
    BY <1>2, ViewStable
  <2>2. CASE Acquire
    BY <2>1, <2>2 DEF Acquire
  <2>3. CASE Recovery
    BY <2>1, <2>3 DEF Recovery, ReadJournal, RollForward, RollBack, RemoveJournal,
                      Recovered, RecoveryThrew, Overlay
  <2>4. CASE RecoveryFails \/ Release \/ CatchFails \/ Kill
    BY <2>4 DEF RecoveryFails, RecoveryThrew, Release, CatchFails, Kill
  <2>5. ASSUME NEW b \in Batch, Begin(b) PROVE CommitPoint'
    BY <2>1, <2>5 DEF Begin
  <2>6. CASE WriteJournalTemp \/ StageOpen \/ StageFlush \/ StagedAll
    BY <2>1, <2>6 DEF WriteJournalTemp, StageOpen, StageFlush, StagedAll
  <2>7. CASE PublishStaged
    <3>1. ~Committed'
      BY <2>7 DEF PublishStaged, Committed
    <3> QED
      BY <2>1, <2>7, <3>1 DEF PublishStaged
  <2>8. CASE Catch
    BY <2>1, <2>8 DEF Catch, Overlay
  <2>9. CASE StageFails
    <3>1. ~Committed'
      BY <2>9 DEF StageFails, Committed, Progress
    <3> QED
      BY <2>1, <2>9, <3>1 DEF StageFails
  <2>10. CASE UNCHANGED jvars
    BY <2>10 DEF jvars, View, Committed, Overlay
  <2> QED
    BY <1>2, <2>2, <2>3, <2>4, <2>5, <2>6, <2>7, <2>8, <2>9, <2>10 DEF Next, Write
<1> QED
  BY <1>1, <1>2

\* The inductive invariant of the journaled write.
LEMMA Invariance == Spec => []IInv
<1>1. Init => IInv
  BY DEF Init, IInv, TypeOK, StagedCopies, NoTornCommit, Progress, CommitPoint,
         Committed, View, Stages, Results, PreCommit
<1>2. IInv /\ [Next]_jvars => IInv'
  BY StepType, StepFiles, StepCommitPoint DEF IInv
<1>3. QED
  BY <1>1, <1>2, PTL DEF Spec

-----------------------------------------------------------------------------
\* Type correctness: published files hold whole contents, whatever step the
\* writer was killed at (AtomicFileStore.writeJsonJournaled, recoverJournal).
THEOREM TypeCorrect == Spec => []TypeOK
BY Invariance, PTL DEF IInv

\* A staged copy cut short by a kill or an error is never covered by a
\* committed journal, so recoverJournal never moves it into place.
THEOREM NoTornCommitHolds == Spec => []NoTornCommit
BY Invariance, PTL DEF IInv

\* Every locked mutation of the keystore starts its body without a journal, a
\* staged copy or a temporary journal file of an earlier command.
THEOREM CleanBodyHolds == Spec => []CleanBody
<1>1. IInv => CleanBody
  BY DEF IInv, CleanBody, StagedCopies, Progress
<1> QED
  BY <1>1, Invariance, PTL

\* A call that is still running has reported nothing.
ResultAtEnd == pc # "idle" => result = "none"

\* What changePassword reports about the password in effect is true, unless
\* the journal cannot be read back after a failed write.
THEOREM TruthfulHolds == Spec => [](Truthful /\ ResultAtEnd)
<1>1. Init => Truthful /\ ResultAtEnd
  BY DEF Init, Truthful, ResultAtEnd
<1>2. IInv /\ Truthful /\ ResultAtEnd /\ [Next]_jvars => (Truthful /\ ResultAtEnd)'
  <2> SUFFICES ASSUME IInv, Truthful, ResultAtEnd, [Next]_jvars
               PROVE  Truthful' /\ ResultAtEnd'
    OBVIOUS
  <2> USE DEF Truthful, ResultAtEnd
  <2> TypeOK /\ StagedCopies /\ NoTornCommit /\ Progress /\ CommitPoint
    BY DEF IInv
  <2>1. CASE PublishCommitted
    BY <2>1 DEF PublishCommitted
  <2>2. CASE Acquire
    BY <2>2 DEF Acquire
  <2>3. CASE ReadJournal \/ RemoveJournal \/ RecoveryFails
    <3>1. View' = View /\ UNCHANGED <<before, batch, goal>> /\ pc \in {"recover", "replay"}
      BY <2>3, ViewStable
         DEF Next, Recovery, ReadJournal, RemoveJournal, RecoveryFails, PublishCommitted
    <3>2. \/ UNCHANGED result
          \/ /\ pc' \in {"body", "idle"}
             /\ pc' = "body" => result' = "none"
             /\ result' = "failed" => goal = "undo"
             /\ result' \in {"complete", "incomplete"} => goal = "finish"
      BY <2>3 DEF ReadJournal, RemoveJournal, RecoveryFails, Recovered, RecoveryThrew, TypeOK
    <3>3. pc' = "idle" \/ result' = "none"
      BY <2>3, <3>1 DEF ReadJournal, RemoveJournal, RecoveryFails, Recovered, RecoveryThrew, TypeOK
    <3> QED
      BY <3>1, <3>2, <3>3 DEF CommitPoint, Overlay
  <2>4. CASE RollForward \/ RollBack
    BY <2>4 DEF RollForward, RollBack
  <2>5. CASE Release
    BY <2>5 DEF Release
  <2>6. ASSUME NEW b \in Batch, Begin(b) PROVE Truthful' /\ ResultAtEnd'
    BY <2>6 DEF Begin
  <2>7. CASE WriteJournalTemp \/ PublishStaged \/ StageOpen \/ StageFlush \/ StagedAll
    BY <2>7 DEF WriteJournalTemp, PublishStaged, StageOpen, StageFlush, StagedAll
  <2>8. CASE Catch \/ StageFails
    BY <2>8 DEF Catch, StageFails
  <2>9. CASE CatchFails
    BY <2>9 DEF CatchFails
  <2>10. CASE Kill
    BY <2>10 DEF Kill
  <2>11. CASE UNCHANGED jvars
    BY <2>11 DEF jvars, View, Committed, Overlay
  <2> QED
    BY <2>1, <2>2, <2>3, <2>4, <2>5, <2>6, <2>7, <2>8, <2>9, <2>10, <2>11
       DEF Next, Recovery, Write
<1>3. QED
  BY <1>1, <1>2, Invariance, PTL DEF Spec

-----------------------------------------------------------------------------
\* A step before the commit point asks for a batch, gives it up, or is internal.
LEMMA StepRefines ==
    ASSUME IInv, [Next]_jvars
    PROVE  [Abstract!Next]_(Abstract!vars)
<1> TypeOK /\ StagedCopies /\ NoTornCommit /\ Progress /\ CommitPoint
  BY DEF IInv
<1> USE DEF Abstract!vars, Abstract!Next, Pending
<1>1. CASE PublishCommitted
  <2>1. batch \in Batch /\ batch # NoBatch /\ Pending = batch
    BY <1>1, BatchType DEF PublishCommitted, Progress, PreCommit
  <2>2. View' = Overlay(View, batch)
    BY <1>1, CommitOverlays
  <2>3. Committed'
    BY <1>1, JournalIsFile DEF PublishCommitted, Progress, PreCommit, Committed
  <2>4. Pending' = NoBatch
    BY <1>1, <2>3 DEF PublishCommitted
  <2> QED
    BY <2>1, <2>2, <2>4 DEF Abstract!Commit, Abstract!Overlay, Overlay
<1>2. CASE ~PublishCommitted
  <2>1. View' = View
    BY <1>2, ViewStable
  <2>2. SUFFICES \/ Pending' = Pending
                 \/ Pending' = NoBatch
                 \/ Pending = NoBatch /\ Pending' \in Batch
    BY <2>1 DEF Abstract!Request, Abstract!Abort, Abstract!Batch, Batch
  <2>3. CASE Acquire \/ Recovery \/ RecoveryFails \/ Release
    BY <2>3 DEF Acquire, Recovery, ReadJournal, RollForward, RollBack, RemoveJournal,
                Recovered, RecoveryThrew, RecoveryFails, Release
  <2>4. ASSUME NEW b \in Batch, Begin(b) PROVE Pending = NoBatch /\ Pending' \in Batch
    BY <2>4 DEF Begin
  <2>5. CASE WriteJournalTemp \/ StageOpen \/ StageFlush \/ StagedAll
    BY <2>5 DEF WriteJournalTemp, StageOpen, StageFlush, StagedAll
  <2>6. CASE PublishStaged
    BY <2>6 DEF PublishStaged, Committed
  <2>7. CASE StageFails
    BY <2>7 DEF StageFails, Committed, Progress
  <2>8. CASE Catch \/ CatchFails \/ Kill
    BY <2>8 DEF Catch, CatchFails, Kill
  <2>9. CASE UNCHANGED jvars
    BY <2>9 DEF jvars, Committed
  <2> QED
    BY <1>2, <2>3, <2>4, <2>5, <2>6, <2>7, <2>8, <2>9 DEF Next, Write
<1> QED
  BY <1>1, <1>2

\* writeJsonJournaled with recoverJournal implements the atomic multi-file
\* write: whatever step is killed or throws, all files change or none.
THEOREM Refinement == Spec => AtomicBatch
<1>1. Init => Abstract!Init
  BY DEF Init, Abstract!Init, View, Committed, Pending
<1>2. IInv /\ [Next]_jvars => [Abstract!Next]_(Abstract!vars)
  BY StepRefines
<1>3. QED
  BY <1>1, <1>2, Invariance, PTL DEF Spec, AtomicBatch, Abstract!Spec
=============================================================================
