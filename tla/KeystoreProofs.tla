---------------------------- MODULE KeystoreProofs ----------------------------
(***************************************************************************)
(* Proofs about the keystore directory.  For any number of wallets, of     *)
(* readers and of passwords, and whatever step a command is killed at: the *)
(* index never dangles, one password opens everything it refers to, what   *)
(* delete removed does not come back, and a reader is refused only for a   *)
(* reason that is true.                                                    *)
(*                                                                         *)
(* A step of the keystore is a step of the journal, or the body of a       *)
(* mutation writes one file while there is no journal; so the journal's    *)
(* lemmas say what happens to the contents in effect.                      *)
(***************************************************************************)
EXTENDS Keystore, JournalProofs

\* The batch of a password change, until its commit point is passed: all files
\* in the index and the verifier, under one password.
OneBatch ==
    pc \in PreCommit =>
        /\ index # {}
        /\ \E new \in Password : batch = [f \in index \cup {Verifier} |-> new]

\* No mutation is in progress outside its body and its journaled write.
InProgress ==
    /\ holder # NoReader => kop = NoOp
    /\ kop = NoOp => kpc = "choose"
    /\ pc = "idle" \/ (pc \in {"recover", "replay"} /\ goal = "entry") => kop = NoOp
    /\ pc = "body" /\ kop # NoOp => kop.kind \in {"import", "delete"}

\* What the body of a mutation has done when it comes to each file operation.
BodyStages ==
    pc = "body" /\ kop # NoOp =>
        /\ kop.blob \in Blob
        /\ kop.kind = "import" =>
              /\ kop.blob \notin index
              /\ kpc \in {"blob", "index"} => disk[Verifier] = kop.new
              /\ kpc = "index" => disk[kop.blob] = kop.new
        /\ kop.kind = "delete" /\ kpc = "unlink" => kop.blob \notin index

\* A staged copy is a secret, never the absence of one.
StagedSecrets == \A f \in File : next[f] # Missing

\* A reader past the check for a journal, whose password and wallet have stood
\* since it started, meets files of that password.
ReaderSees ==
    \A r \in Reader :
        /\ stable[r] => InEffect(r)
        /\ rpc[r] \in {"blob", "verifier"} /\ stable[r] =>
              disk[Verifier] = ask[r].pw /\ disk[ask[r].blob] = ask[r].pw
        /\ rpc[r] = "verifier" /\ stable[r] => got[r] = ask[r].pw

JournalInv == TypeOK /\ StagedCopies /\ NoTornCommit /\ Progress

KInv ==
    /\ KTypeOK /\ JournalInv
    /\ OneBatch /\ InProgress /\ BodyStages /\ StagedSecrets
    /\ IndexNeverDangling /\ OnePassword /\ NoResurrection
    /\ ReaderSees /\ ReaderServed

-----------------------------------------------------------------------------
\* The body of a mutation changes published files only.
BodyWrite == pc = "body" /\ pc' \in {"body", "idle"} /\ UNCHANGED <<jrest, result>>

\* The verifier is a file of its own.
LEMMA FileKinds ==
    /\ Verifier \in File
    /\ Blob \subseteq File
    /\ Verifier \notin Blob
BY JournalAssumption, KeystoreAssumption DEF Verifier, Blob, File

\* What a password change writes is a batch of the journal.
LEMMA ChangeIsBatch ==
    ASSUME KTypeOK, NEW new \in Password
    PROVE  [f \in index \cup {Verifier} |-> new] \in Batch
<1>0. index \subseteq Blob
  BY DEF KTypeOK
<1>1. index \cup {Verifier} \in (SUBSET File) \ {{}}
  BY <1>0, FileKinds
<1>2. [f \in index \cup {Verifier} |-> new] \in [index \cup {Verifier} -> Val]
  BY DEF Password
<1> QED
  BY <1>1, <1>2 DEF Batch

\* A mutation's kind, wallet and passwords.
LEMMA OpType ==
    ASSUME KTypeOK, kop # NoOp
    PROVE  /\ kop.kind \in {"import", "delete", "change"}
           /\ kop.blob \in File /\ (kop.blob \in Blob \/ kop.blob = Verifier)
           /\ kop.new \in Val /\ kop.new # Missing
BY FileKinds DEF KTypeOK, Op, Password

\* A mutation's choice is not the absence of one.
LEMMA OpIsOp ==
    ASSUME NEW k \in {"import", "delete", "change"}, NEW b \in Blob \cup {Verifier},
           NEW old \in Password, NEW new \in Password
    PROVE  /\ [kind |-> k, blob |-> b, old |-> old, new |-> new] \in Op
           /\ [kind |-> k, blob |-> b, old |-> old, new |-> new] # NoOp
BY KeystoreAssumption DEF Op

\* Every step of the keystore is a step of the journal, or a body that writes.
LEMMA KStep ==
    ASSUME KTypeOK, [KNext]_vars
    PROVE  [Next]_jvars \/ (BodyWrite /\ (ImportVerifier \/ ImportBlob \/ DeleteBlob))
<1> USE DEF End, GoOn, WriteFile, Doing, Choosing
<1>1. ASSUME NEW b \in Blob, NEW pw \in Password, ChooseImport(b, pw) \/ ChooseDelete(b, pw)
      PROVE  UNCHANGED jvars
  BY <1>1 DEF ChooseImport, ChooseDelete
<1>2. ASSUME NEW old \in Password, NEW new \in Password, ChangePassword(old, new)
      PROVE  Next
  BY <1>2, ChangeIsBatch DEF ChangePassword, Next
<1>3. CASE ImportVerifier \/ ImportBlob \/ DeleteBlob
  BY <1>3 DEF ImportVerifier, ImportBlob, DeleteBlob, BodyWrite, jrest
<1>4. CASE ImportIndex \/ DeleteIndex \/ EndBody
  BY <1>4 DEF ImportIndex, DeleteIndex, EndBody, jrest, jvars, Next, Release
<1>5. CASE JournalStep
  BY <1>5 DEF JournalStep, Next
<1>6. ASSUME NEW r \in Reader, Read(r)
      PROVE  [Next]_jvars
  BY <1>6 DEF Read, ReadStart, ReadCheck, ReadLock, ReadLockTimeout, ReadRecover, ReadRecovered,
              ReadRecoveryFails, ReadBlocked, ReadBlob, ReadDecrypt, StoreUnchanged, Next
<1>7. CASE UNCHANGED vars
  BY <1>7 DEF vars
<1> QED
  BY <1>1, <1>2, <1>3, <1>4, <1>5, <1>6, <1>7 DEF KNext, Mutate

\* One file operation of a body: which file it writes, and what.
LEMMA BodyDisk ==
    ASSUME KTypeOK, ImportVerifier \/ ImportBlob \/ DeleteBlob
    PROVE  \/ disk' = disk
           \/ ImportVerifier /\ disk[Verifier] = Missing /\ disk' = [disk EXCEPT ![Verifier] = kop.new]
           \/ ImportBlob /\ disk' = [disk EXCEPT ![kop.blob] = kop.new]
           \/ DeleteBlob /\ disk' = [disk EXCEPT ![kop.blob] = Missing]
BY DEF ImportVerifier, ImportBlob, DeleteBlob, WriteFile

\* The journal's own invariant: published files hold whole contents, and the
\* staged copies stay in step with the journal.
LEMMA KStepJournal ==
    ASSUME KTypeOK, JournalInv, [KNext]_vars
    PROVE  JournalInv'
<1>1. CASE [Next]_jvars
  BY <1>1, StepType, StepFiles DEF JournalInv
<1>2. CASE BodyWrite /\ (ImportVerifier \/ ImportBlob \/ DeleteBlob)
  <2>1. disk' \in [File -> Val]
    BY <1>2, BodyDisk, OpType, FileKinds, KeystoreAssumption
       DEF ImportVerifier, ImportBlob, DeleteBlob, Doing, KTypeOK, TypeOK
  <2>2. TypeOK'
    BY <1>2, <2>1 DEF BodyWrite, jrest, JournalInv, TypeOK, Stages
  <2>3. StagedCopies' /\ NoTornCommit' /\ Progress'
    BY <1>2 DEF BodyWrite, jrest, JournalInv, StagedCopies, NoTornCommit, Progress, Committed,
                PreCommit
  <2> QED
    BY <2>2, <2>3 DEF JournalInv
<1> QED
  BY <1>1, <1>2, KStep

\* Every step keeps the types.
LEMMA KStepType ==
    ASSUME KTypeOK, JournalInv, BodyStages, [KNext]_vars
    PROVE  KTypeOK'
<1>0. TypeOK'
  BY KStepJournal DEF JournalInv
<1> USE DEF KTypeOK, Choosing, Doing, End, GoOn, WriteFile, Quiet, Observe, StoreUnchanged, kvars,
            Step, ReaderEnds
<1>1. ASSUME NEW b \in Blob, NEW pw \in Password, ChooseImport(b, pw) \/ ChooseDelete(b, pw)
      PROVE  KTypeOK'
  <2>1. kop' \in Op
    BY <1>1, OpIsOp DEF ChooseImport, ChooseDelete
  <2> QED
    BY <1>0, <1>1, <2>1 DEF ChooseImport, ChooseDelete
<1>2. ASSUME NEW old \in Password, NEW new \in Password, ChangePassword(old, new)
      PROVE  KTypeOK'
  <2>1. kop' \in Op
    BY <1>2, OpIsOp DEF ChangePassword
  <2> QED
    BY <1>0, <1>2, <2>1 DEF ChangePassword
<1>3. CASE ImportVerifier \/ EndBody
  BY <1>0, <1>3 DEF ImportVerifier, EndBody
<1>4. CASE ImportBlob \/ ImportIndex \/ DeleteIndex \/ DeleteBlob
  <2>1. kop.blob \in Blob
    BY <1>4 DEF BodyStages, ImportBlob, ImportIndex, DeleteIndex, DeleteBlob
  <2> QED
    BY <1>0, <1>4, <2>1 DEF ImportBlob, ImportIndex, DeleteIndex, DeleteBlob
<1>5. CASE JournalStep
  BY <1>0, <1>5 DEF JournalStep, Settle
<1>6. ASSUME NEW r \in Reader, NEW b \in Blob, NEW pw \in Password, ReadStart(r, b, pw)
      PROVE  KTypeOK'
  BY <1>0, <1>6, FileKinds DEF ReadStart
<1>7. ASSUME NEW r \in Reader, ReadBlob(r)
      PROVE  KTypeOK'
  BY <1>0, <1>7, FileKinds DEF ReadBlob, TypeOK
<1>8. ASSUME NEW r \in Reader,
             \/ ReadCheck(r) \/ ReadLock(r) \/ ReadLockTimeout(r) \/ ReadRecover(r)
             \/ ReadRecovered(r) \/ ReadRecoveryFails(r) \/ ReadBlocked(r) \/ ReadDecrypt(r)
      PROVE  KTypeOK'
  BY <1>0, <1>8 DEF ReadCheck, ReadLock, ReadLockTimeout, ReadRecover, ReadRecovered,
                    ReadRecoveryFails, ReadBlocked, ReadDecrypt
<1>9. CASE UNCHANGED vars
  BY <1>0, <1>9 DEF vars, rvars
<1> QED
  BY <1>1, <1>2, <1>3, <1>4, <1>5, <1>6, <1>7, <1>8, <1>9 DEF KNext, Mutate, Read

-----------------------------------------------------------------------------
\* No mutation outlives its body or its write, and a killed one is forgotten.
LEMMA KStepInProgress ==
    ASSUME KTypeOK, JournalInv, InProgress, [KNext]_vars
    PROVE  InProgress'
<1> USE DEF InProgress, Choosing, Doing, End, GoOn, WriteFile, Quiet, StoreUnchanged, kvars, jvars
<1>1. ASSUME NEW b \in Blob, NEW pw \in Password, ChooseImport(b, pw) \/ ChooseDelete(b, pw)
      PROVE  InProgress'
  BY <1>1, OpIsOp DEF ChooseImport, ChooseDelete
<1>2. ASSUME NEW old \in Password, NEW new \in Password, ChangePassword(old, new)
      PROVE  InProgress'
  BY <1>2, OpIsOp DEF ChangePassword, Begin
<1>3. CASE ImportVerifier \/ ImportBlob \/ ImportIndex \/ DeleteIndex \/ DeleteBlob \/ EndBody
  BY <1>3 DEF ImportVerifier, ImportBlob, ImportIndex, DeleteIndex, DeleteBlob, EndBody, jrest
<1>4. CASE JournalStep
  <2>1. CASE pc' = "idle"
    BY <1>4, <2>1 DEF JournalStep, Settle
  <2>2. CASE pc' # "idle"
    <3>1. UNCHANGED <<kop, kpc, holder>> /\ holder = NoReader
      BY <1>4, <2>2 DEF JournalStep, Settle
    <3>2. CASE Acquire \/ Recovery \/ RecoveryFails \/ StageFails \/ CatchFails \/ Kill
      BY <2>2, <3>1, <3>2
         DEF Acquire, Recovery, ReadJournal, RollForward, RollBack, RemoveJournal, Recovered,
             RecoveryThrew, RecoveryFails, StageFails, CatchFails, Kill
    <3>3. CASE Write
      BY <2>2, <3>1, <3>3
         DEF Write, WriteJournalTemp, PublishStaged, StageOpen, StageFlush, StagedAll,
             PublishCommitted, Catch
    <3> QED
      BY <1>4, <3>2, <3>3 DEF JournalStep
  <2> QED
    BY <2>1, <2>2
<1>5. ASSUME NEW r \in Reader, Read(r)
      PROVE  InProgress'
  <2>1. ASSUME NEW b \in Blob, NEW pw \in Password, ReadStart(r, b, pw)
        PROVE  InProgress'
    BY <2>1 DEF ReadStart
  <2>2. CASE ReadCheck(r) \/ ReadLockTimeout(r) \/ ReadBlob(r) \/ ReadDecrypt(r) \/ ReadBlocked(r)
    BY <2>2 DEF ReadCheck, ReadLockTimeout, ReadBlob, ReadDecrypt, ReadBlocked
  <2>3. CASE ReadLock(r) \/ ReadRecover(r) \/ ReadRecovered(r) \/ ReadRecoveryFails(r)
    <3>1. UNCHANGED <<kop, kpc>> /\ kop = NoOp
      BY <2>3, KeystoreAssumption
         DEF ReadLock, ReadRecover, ReadRecovered, ReadRecoveryFails, Acquire
    <3> QED
      BY <3>1
  <2> QED
    BY <1>5, <2>1, <2>2, <2>3 DEF Read
<1>6. CASE UNCHANGED vars
  BY <1>6 DEF vars, rvars
<1> QED
  BY <1>1, <1>2, <1>3, <1>4, <1>5, <1>6 DEF KNext, Mutate

\* A step of a reader takes no mutation further.
LEMMA ReaderKeeps ==
    ASSUME KTypeOK, InProgress, NEW r \in Reader, Read(r)
    PROVE  /\ UNCHANGED kvars
           /\ \/ UNCHANGED jvars
              \/ kop = NoOp /\ (Acquire \/ Recovery \/ Release \/ RecoveryFails \/ Kill)
<1> USE DEF InProgress, StoreUnchanged
<1>1. CASE ReadLock(r) \/ ReadRecover(r) \/ ReadRecovered(r) \/ ReadRecoveryFails(r)
  BY <1>1, KeystoreAssumption
     DEF ReadLock, ReadRecover, ReadRecovered, ReadRecoveryFails, Acquire
<1> QED
  BY <1>1 DEF Read, ReadStart, ReadCheck, ReadLockTimeout, ReadBlob, ReadDecrypt, ReadBlocked

\* The batch of a password change covers the index until the commit point.
LEMMA KStepOneBatch ==
    ASSUME KTypeOK, InProgress, OneBatch, [KNext]_vars
    PROVE  OneBatch'
<1> USE DEF OneBatch, PreCommit
<1>1. CASE Mutate
  <2>1. ASSUME NEW old \in Password, NEW new \in Password, ChangePassword(old, new)
        PROVE  OneBatch'
    BY <2>1 DEF ChangePassword, Begin
  <2>2. CASE pc' \in {"body", "idle"}
    BY <2>2
  <2> QED
    BY <1>1, <2>1, <2>2
       DEF Mutate, ChooseImport, ChooseDelete, ImportVerifier, ImportBlob, ImportIndex,
           DeleteIndex, DeleteBlob, EndBody, Choosing, Doing, End, GoOn, WriteFile, jvars
<1>2. CASE JournalStep
  <2>1. pc' \in PreCommit => pc \in PreCommit /\ UNCHANGED <<batch, index>>
    BY <1>2 DEF JournalStep, Acquire, Recovery, ReadJournal, RollForward, RollBack, RemoveJournal,
                Recovered, RecoveryThrew, RecoveryFails, Write, WriteJournalTemp, PublishStaged,
                StageOpen, StageFlush, StagedAll, PublishCommitted, Catch, StageFails,
                CatchFails, Kill
  <2> QED
    BY <2>1
<1>3. ASSUME NEW r \in Reader, Read(r)
      PROVE  OneBatch'
  BY <1>3, ReaderKeeps
     DEF jvars, kvars, Acquire, Recovery, ReadJournal, RollForward, RollBack, RemoveJournal,
         Recovered, RecoveryThrew, RecoveryFails, Release, Kill
<1>4. CASE UNCHANGED vars
  BY <1>4 DEF vars, jvars, kvars
<1> QED
  BY <1>1, <1>2, <1>3, <1>4 DEF KNext

\* What a body has done is still there at its next file operation: it alone
\* changes the files while it holds the lock.
LEMMA KStepBodyStages ==
    ASSUME KTypeOK, InProgress, BodyStages, [KNext]_vars
    PROVE  BodyStages'
<1> USE DEF BodyStages
<1>1. CASE Mutate
  <2> USE DEF Choosing, Doing, End, GoOn, WriteFile, jvars
  <2>1. ASSUME NEW b \in Blob, NEW pw \in Password, ChooseImport(b, pw) \/ ChooseDelete(b, pw)
        PROVE  BodyStages'
    BY <2>1 DEF ChooseImport, ChooseDelete
  <2>2. ASSUME NEW old \in Password, NEW new \in Password, ChangePassword(old, new)
        PROVE  BodyStages'
    BY <2>2 DEF ChangePassword, Begin
  <2>3. CASE ImportVerifier
    BY <2>3, FileKinds DEF ImportVerifier, KTypeOK, TypeOK
  <2>4. CASE ImportBlob
    BY <2>4, FileKinds DEF ImportBlob, KTypeOK, TypeOK
  <2>5. CASE ImportIndex \/ DeleteIndex \/ DeleteBlob \/ EndBody
    BY <2>5 DEF ImportIndex, DeleteIndex, DeleteBlob, EndBody
  <2> QED
    BY <1>1, <2>1, <2>2, <2>3, <2>4, <2>5 DEF Mutate
<1>2. CASE JournalStep
  <2>1. pc' = "body" => pc \in {"recover", "replay"} /\ goal = "entry" /\ UNCHANGED kop
    BY <1>2 DEF JournalStep, Settle, Acquire, Recovery, ReadJournal, RollForward, RollBack,
                RemoveJournal, Recovered, RecoveryThrew, RecoveryFails, Write, WriteJournalTemp,
                PublishStaged, StageOpen, StageFlush, StagedAll, PublishCommitted, Catch,
                StageFails, CatchFails, Kill
  <2> QED
    BY <2>1 DEF InProgress
<1>3. ASSUME NEW r \in Reader, Read(r)
      PROVE  BodyStages'
  BY <1>3, ReaderKeeps DEF jvars, kvars
<1>4. CASE UNCHANGED vars
  BY <1>4 DEF vars, jvars, kvars
<1> QED
  BY <1>1, <1>2, <1>3, <1>4 DEF KNext

\* Only passwords are staged.
LEMMA KStepStagedSecrets ==
    ASSUME KTypeOK, JournalInv, OneBatch, StagedSecrets, [KNext]_vars
    PROVE  StagedSecrets'
<1> USE DEF StagedSecrets
<1>1. CASE StageFlush
  <2>1. PICK f \in File : First(f) /\ next' = [next EXCEPT ![f] = batch[f]]
    BY <1>1 DEF StageFlush
  <2>2. f \in DOMAIN batch
    BY <1>1, <2>1 DEF StageFlush, First, JournalInv, Progress
  <2>3. batch[f] # Missing
    BY <1>1, <2>2 DEF StageFlush, OneBatch, PreCommit, Password
  <2> QED
    BY <2>1, <2>3 DEF KTypeOK, TypeOK
<1>2. CASE RollForward \/ RollBack
  BY <1>2, JournalAssumption, KeystoreAssumption DEF RollForward, RollBack, KTypeOK, TypeOK
<1>3. CASE StageOpen
  BY <1>3, JournalAssumption, KeystoreAssumption DEF StageOpen, KTypeOK, TypeOK
<1>4. CASE UNCHANGED next
  BY <1>4
<1>5. CASE [Next]_jvars
  BY <1>1, <1>2, <1>3, <1>4, <1>5
     DEF Next, Acquire, Recovery, ReadJournal, RemoveJournal, RecoveryFails, Release, Begin, Write,
         WriteJournalTemp, PublishStaged, StagedAll, PublishCommitted, Catch, StageFails,
         CatchFails, Kill, jvars
<1> QED
  BY <1>4, <1>5, KStep DEF BodyWrite, jrest

-----------------------------------------------------------------------------
\* Only import adds a wallet to the index, and it does so while there is no
\* journal, after both of its files.
LEMMA IndexGrows ==
    ASSUME KTypeOK, JournalInv, BodyStages, [KNext]_vars
    PROVE  \/ index' \subseteq index
           \/ /\ index' = index \cup {kop.blob} /\ kop.blob \in Blob
              /\ disk[Verifier] = kop.new /\ disk[kop.blob] = kop.new
              /\ kop.new # Missing
              /\ UNCHANGED <<disk, next, jnl>> /\ jnl = NoJournal
<1>1. CASE ImportIndex
  BY <1>1, OpType DEF ImportIndex, BodyStages, Doing, JournalInv, Progress, jrest
<1>2. CASE Mutate /\ ~ImportIndex
  BY <1>2 DEF Mutate, ChooseImport, ChooseDelete, ChangePassword, ImportVerifier, ImportBlob,
              DeleteIndex, DeleteBlob, EndBody
<1>3. CASE JournalStep \/ UNCHANGED vars
  BY <1>3 DEF JournalStep, vars, kvars
<1>4. ASSUME NEW r \in Reader, Read(r)
      PROVE  UNCHANGED index
  BY <1>4 DEF Read, ReadStart, ReadCheck, ReadLock, ReadLockTimeout, ReadRecover, ReadRecovered,
              ReadRecoveryFails, ReadBlocked, ReadBlob, ReadDecrypt, StoreUnchanged, kvars
<1> QED
  BY <1>1, <1>2, <1>3, <1>4 DEF KNext

\* The contents in effect change in three ways: the commit point of a password
\* change gives the verifier and all indexed files one password; a body writes
\* a file that nothing refers to; or not at all.
LEMMA KStepView ==
    ASSUME KTypeOK, JournalInv, OneBatch, [KNext]_vars
    PROVE  \/ View' = View
           \/ /\ index' = index /\ index # {}
              /\ UNCHANGED disk
              /\ \E new \in Password : \A f \in index \cup {Verifier} : View'[f] = new
           \/ /\ ImportVerifier \/ ImportBlob \/ DeleteBlob
              /\ index' = index /\ View = disk /\ View' = disk' /\ UNCHANGED <<next, jnl>>
<1> TypeOK /\ StagedCopies /\ NoTornCommit /\ Progress
  BY DEF JournalInv
<1>1. CASE PublishCommitted
  <2>1. View' = Overlay(View, batch) /\ UNCHANGED disk
    BY <1>1, CommitOverlays DEF PublishCommitted
  <2>2. PICK new \in Password : batch = [f \in index \cup {Verifier} |-> new]
    BY <1>1 DEF OneBatch, PreCommit, PublishCommitted
  <2>3. \A f \in index \cup {Verifier} : f \in File
    BY FileKinds DEF KTypeOK
  <2>4. \A f \in index \cup {Verifier} : View'[f] = new
    BY <2>1, <2>2, <2>3 DEF Overlay
  <2>5. index' = index
    <3>1. pc = "commitJournal" /\ pc' \in {"recover", "catch"}
      BY <1>1 DEF PublishCommitted
    <3> QED
      BY <3>1
         DEF KNext, Mutate, ChooseImport, ChooseDelete, ChangePassword, ImportVerifier, ImportBlob,
             ImportIndex, DeleteIndex, DeleteBlob, EndBody, Doing, Choosing, JournalStep, Read,
             ReadStart, ReadCheck, ReadLock, ReadLockTimeout, ReadRecover, ReadRecovered,
             ReadRecoveryFails, ReadBlocked, ReadBlob, ReadDecrypt, StoreUnchanged, kvars, vars
  <2>6. index # {}
    BY <1>1 DEF OneBatch, PreCommit, PublishCommitted
  <2> QED
    BY <2>1, <2>4, <2>5, <2>6
<1>2. CASE [Next]_jvars /\ ~PublishCommitted
  BY <1>2, ViewStable
<1>3. CASE BodyWrite /\ (ImportVerifier \/ ImportBlob \/ DeleteBlob)
  <2>1. jnl = NoJournal /\ UNCHANGED <<jnl, next>>
    BY <1>3 DEF BodyWrite, Progress, jrest
  <2>2. View = disk
    BY <2>1, ViewIsDisk DEF Committed
  <2>3. disk' \in [File -> Val]
    BY KStepJournal DEF JournalInv, TypeOK
  <2>4. View' = disk'
    BY <2>1, <2>3 DEF View, Committed
  <2>5. index' = index
    BY <1>3 DEF ImportVerifier, ImportBlob, DeleteBlob
  <2> QED
    BY <1>3, <2>1, <2>2, <2>4, <2>5
<1> QED
  BY <1>1, <1>2, <1>3, KStep

\* A body writes a file only if nothing in the index refers to it.
LEMMA BodySpares ==
    ASSUME KTypeOK, BodyStages, OnePassword, View = disk,
           ImportVerifier \/ ImportBlob \/ DeleteBlob
    PROVE  \A f \in index : disk'[f] = disk[f] /\ disk'[Verifier] = disk[Verifier]
<1>1. CASE disk' = disk
  BY <1>1
<1>2. CASE disk[Verifier] = Missing
  BY <1>2 DEF OnePassword
<1>3. CASE ImportBlob \/ DeleteBlob
  <2>1. kop.blob \notin index /\ kop.blob \in Blob
    BY <1>3 DEF BodyStages, ImportBlob, DeleteBlob, Doing
  <2>2. \A f \in File : f # kop.blob => disk'[f] = disk[f]
    BY <1>3, BodyDisk DEF KTypeOK, TypeOK, ImportBlob, DeleteBlob, WriteFile
  <2> QED
    BY <2>1, <2>2, FileKinds DEF KTypeOK
<1> QED
  BY <1>1, <1>2, <1>3, BodyDisk

\* One password opens the verifier and every wallet, after every step.
LEMMA KStepOnePassword ==
    ASSUME KTypeOK, JournalInv, OneBatch, BodyStages, OnePassword, [KNext]_vars
    PROVE  OnePassword'
<1>1. CASE index' \subseteq index
  <2>1. CASE View' = View
    BY <1>1, <2>1 DEF OnePassword
  <2>2. ASSUME index' = index,
               NEW new \in Password, \A f \in index \cup {Verifier} : View'[f] = new
        PROVE  OnePassword'
    BY <2>2 DEF OnePassword, Password, Verifier
  <2>3. CASE /\ ImportVerifier \/ ImportBlob \/ DeleteBlob
             /\ index' = index /\ View = disk /\ View' = disk'
    BY <2>3, BodySpares DEF OnePassword, Verifier
  <2> QED
    BY <2>1, <2>2, <2>3, KStepView
<1>2. CASE /\ index' = index \cup {kop.blob} /\ kop.blob \in Blob
           /\ disk[Verifier] = kop.new /\ disk[kop.blob] = kop.new
           /\ kop.new # Missing
           /\ UNCHANGED <<disk, next, jnl>> /\ jnl = NoJournal
  <2>1. View = disk /\ View' = View
    BY <1>2, ViewIsDisk DEF View, Committed, JournalInv
  <2> QED
    BY <1>2, <2>1 DEF OnePassword, Verifier
<1> QED
  BY <1>1, <1>2, IndexGrows

\* The published files change in two ways: a staged copy moves into place, with
\* the contents in effect as they were, or a body writes.
LEMMA KStepFiles ==
    ASSUME KTypeOK, JournalInv, [KNext]_vars
    PROVE  \/ UNCHANGED disk
           \/ /\ View' = View /\ UNCHANGED index
              /\ \A f \in File : \/ disk'[f] = disk[f]
                                 \/ next[f] # Absent /\ disk'[f] = next[f] /\ disk'[f] = View[f]
           \/ ImportVerifier \/ ImportBlob \/ DeleteBlob
<1> TypeOK /\ StagedCopies /\ NoTornCommit /\ Progress
  BY DEF JournalInv
<1>1. CASE RollForward
  <2>1. \A f \in File : disk'[f] = disk[f] \/ (next[f] # Absent /\ disk'[f] = next[f])
    BY <1>1 DEF RollForward, TypeOK
  <2>2. \A f \in File : next[f] # Absent => View[f] = next[f]
    BY <1>1 DEF RollForward, View
  <2>3. View' = View
    BY <1>1, ViewStable DEF RollForward, PublishCommitted, Next, Recovery
  <2>4. UNCHANGED index
    <3>1. pc = "replay"
      BY <1>1 DEF RollForward
    <3> QED
      BY <3>1
         DEF KNext, Mutate, ChooseImport, ChooseDelete, ChangePassword, ImportVerifier, ImportBlob,
             ImportIndex, DeleteIndex, DeleteBlob, EndBody, Doing, Choosing, JournalStep, Read,
             ReadStart, ReadCheck, ReadLock, ReadLockTimeout, ReadRecover, ReadRecovered,
             ReadRecoveryFails, ReadBlocked, ReadBlob, ReadDecrypt, StoreUnchanged, kvars, vars
  <2> QED
    BY <2>1, <2>2, <2>3, <2>4
<1>2. CASE [Next]_jvars /\ ~RollForward
  BY <1>2
     DEF Next, Acquire, Recovery, ReadJournal, RollBack, RemoveJournal, RecoveryFails, Release,
         Begin, Write, WriteJournalTemp, PublishStaged, StageOpen, StageFlush, StagedAll,
         PublishCommitted, Catch, StageFails, CatchFails, Kill, jvars
<1> QED
  BY <1>1, <1>2, KStep

\* The file of every wallet in the index exists, after every step.
LEMMA KStepDangling ==
    ASSUME KTypeOK, JournalInv, BodyStages, StagedSecrets, OnePassword, IndexNeverDangling,
           [KNext]_vars
    PROVE  IndexNeverDangling'
<1> USE DEF IndexNeverDangling
<1>0. index \subseteq File
  BY FileKinds DEF KTypeOK
<1>1. CASE index' \subseteq index
  <2>1. CASE UNCHANGED disk
    BY <1>1, <2>1
  <2>2. CASE \A f \in File : disk'[f] = disk[f] \/ (next[f] # Absent /\ disk'[f] = next[f])
    BY <1>0, <1>1, <2>2 DEF StagedSecrets
  <2>3. CASE ImportVerifier \/ ImportBlob \/ DeleteBlob
    <3>1. View = disk
      BY <2>3, ViewIsDisk
         DEF ImportVerifier, ImportBlob, DeleteBlob, Doing, JournalInv, Progress, Committed
    <3> QED
      BY <1>1, <2>3, <3>1, BodySpares
  <2> QED
    BY <2>1, <2>2, <2>3, KStepFiles
<1>2. CASE /\ index' = index \cup {kop.blob} /\ disk[kop.blob] = kop.new
           /\ kop.new # Missing /\ UNCHANGED disk
  BY <1>2
<1> QED
  BY <1>1, <1>2, IndexGrows

\* A removed wallet leaves no file and no staged copy, after every step.
LEMMA KStepNoResurrection ==
    ASSUME KTypeOK, JournalInv, OneBatch, BodyStages, IndexNeverDangling, NoResurrection,
           [KNext]_vars
    PROVE  NoResurrection'
<1> USE DEF NoResurrection
<1>0. gone \subseteq Blob /\ gone \subseteq File /\ \A b \in gone : b \notin index /\ b # Verifier
  BY FileKinds DEF KTypeOK, IndexNeverDangling
<1>1. CASE ImportVerifier
  <2>1. \A b \in gone : disk'[b] = disk[b]
    BY <1>0, <1>1, FileKinds, BodyDisk DEF KTypeOK, TypeOK, ImportVerifier, ImportBlob, DeleteBlob, Doing
  <2> QED
    BY <1>1, <2>1 DEF ImportVerifier, WriteFile, jrest
<1>2. CASE ImportBlob
  <2>1. disk' = [disk EXCEPT ![kop.blob] = kop.new] /\ gone' = gone \ {kop.blob} /\ UNCHANGED next
    BY <1>2 DEF ImportBlob, WriteFile, jrest
  <2> QED
    BY <1>0, <2>1 DEF KTypeOK, TypeOK
<1>3. CASE DeleteBlob
  <2>1. /\ disk' = [disk EXCEPT ![kop.blob] = Missing] /\ gone' = gone \cup {kop.blob}
        /\ UNCHANGED next /\ jnl = NoJournal /\ kop.blob \in Blob
    BY <1>3 DEF DeleteBlob, Doing, jrest, JournalInv, Progress, BodyStages
  <2>2. next[kop.blob] = Absent
    BY <2>1, FileKinds DEF JournalInv, StagedCopies
  <2> QED
    BY <1>0, <2>1, <2>2, FileKinds DEF KTypeOK, TypeOK
<1>4. CASE ~(ImportVerifier \/ ImportBlob \/ DeleteBlob)
  <2>1. gone' = gone
    BY <1>4
       DEF KNext, Mutate, ChooseImport, ChooseDelete, ChangePassword, ImportIndex, DeleteIndex,
           EndBody, JournalStep, Read, ReadStart, ReadCheck, ReadLock, ReadLockTimeout, ReadRecover,
           ReadRecovered, ReadRecoveryFails, ReadBlocked, ReadBlob, ReadDecrypt, StoreUnchanged,
           kvars, vars
  <2>2. \A b \in gone : disk'[b] = disk[b]
    BY <1>0, <1>4, KStepFiles
  <2>3. \A b \in gone : next'[b] = Absent
    <3>1. CASE StageOpen \/ StageFlush
      <4>1. PICK f \in File : First(f) /\ \A g \in File : g # f => next'[g] = next[g]
        BY <3>1 DEF StageOpen, StageFlush, KTypeOK, TypeOK
      <4>2. f \in DOMAIN batch
        BY <3>1, <4>1 DEF StageOpen, StageFlush, First, JournalInv, Progress
      <4>3. f \in index \cup {Verifier}
        BY <3>1, <4>2 DEF StageOpen, StageFlush, OneBatch, PreCommit
      <4> QED
        BY <1>0, <4>1, <4>3
    <3>2. CASE RollForward \/ RollBack
      BY <1>0, <3>2 DEF RollForward, RollBack, KTypeOK, TypeOK
    <3>3. CASE UNCHANGED next
      BY <3>3
    <3> QED
      BY <1>4, <3>1, <3>2, <3>3, KStep
         DEF Next, Acquire, Recovery, ReadJournal, RemoveJournal, RecoveryFails, Release, Begin,
             Write, WriteJournalTemp, PublishStaged, StagedAll, PublishCommitted, Catch, StageFails,
             CatchFails, Kill, jvars
  <2> QED
    BY <2>1, <2>2, <2>3
<1> QED
  BY <1>1, <1>2, <1>3, <1>4

-----------------------------------------------------------------------------
\* A reader that comes to its two files finds no journal; it reads them in two
\* steps, with nothing in between but the steps of others.
LEMMA ReaderMoves ==
    ASSUME KTypeOK, JournalInv, [KNext]_vars, NEW r \in Reader
    PROVE  \/ rpc'[r] = rpc[r] /\ ask'[r] = ask[r] /\ got'[r] = got[r]
           \/ rpc'[r] \notin {"blob", "verifier", "authFailed", "missing"}
           \/ rpc'[r] = "blob" /\ jnl = NoJournal /\ UNCHANGED <<disk, next, jnl>>
           \/ ReadBlob(r)
           \/ ReadDecrypt(r)
<1> USE DEF KTypeOK, Step
<1>1. CASE Mutate \/ JournalStep \/ UNCHANGED vars
  BY <1>1
     DEF Mutate, ChooseImport, ChooseDelete, ChangePassword, ImportVerifier, ImportBlob,
         ImportIndex, DeleteIndex, DeleteBlob, EndBody, JournalStep, Quiet, vars, rvars
<1>2. ASSUME NEW q \in Reader, Read(q), q # r
      PROVE  rpc'[r] = rpc[r] /\ ask'[r] = ask[r] /\ got'[r] = got[r]
  BY <1>2 DEF Read, ReadStart, ReadCheck, ReadLock, ReadLockTimeout, ReadRecover, ReadRecovered,
              ReadRecoveryFails, ReadBlocked, ReadBlob, ReadDecrypt
<1>3. CASE ReadCheck(r)
  BY <1>3 DEF ReadCheck, StoreUnchanged, jvars
<1>4. CASE ReadRecovered(r)
  BY <1>4 DEF ReadRecovered, Release, JournalInv, Progress
<1>5. CASE ReadLock(r) \/ ReadLockTimeout(r) \/ ReadRecover(r) \/ ReadRecoveryFails(r) \/ ReadBlocked(r)
  BY <1>5 DEF ReadLock, ReadLockTimeout, ReadRecover, ReadRecoveryFails, ReadBlocked
<1>6. ASSUME NEW b \in Blob, NEW pw \in Password, ReadStart(r, b, pw)
      PROVE  rpc'[r] \notin {"blob", "verifier", "authFailed", "missing"}
  BY <1>6 DEF ReadStart
<1> QED
  BY <1>1, <1>2, <1>3, <1>4, <1>5, <1>6 DEF KNext, Read

\* The history of a reader is of the contents in effect.
LEMMA StableInEffect ==
    ASSUME KTypeOK, ReaderSees, [KNext]_vars, NEW r \in Reader, stable'[r]
    PROVE  InEffect(r)' /\ (rpc[r] # "idle" => stable[r])
<1>1. CASE UNCHANGED vars
  BY <1>1 DEF ReaderSees, InEffect, View, Committed, vars, jvars, kvars, rvars
<1>2. CASE Observe
  BY <1>2 DEF Observe
<1> QED
  BY <1>1, <1>2
     DEF KNext, Mutate, ChooseImport, ChooseDelete, ChangePassword, ImportVerifier, ImportBlob,
         ImportIndex, DeleteIndex, DeleteBlob, EndBody, JournalStep, Quiet, Read, ReadStart,
         ReadCheck, ReadLock, ReadLockTimeout, ReadRecover, ReadRecovered, ReadRecoveryFails,
         ReadBlocked, ReadBlob, ReadDecrypt

\* While a wallet and its password stay in effect, its two files stay as a reader
\* past the check has found them, whatever others do between its reads.
LEMMA KStepReaderSees ==
    ASSUME KTypeOK, JournalInv, OneBatch, BodyStages, OnePassword, ReaderSees, [KNext]_vars,
           OnePassword'
    PROVE  ReaderSees'
<1> SUFFICES ASSUME NEW r \in Reader, stable'[r]
             PROVE  /\ InEffect(r)'
                    /\ rpc'[r] \in {"blob", "verifier"} =>
                          disk'[Verifier] = ask'[r].pw /\ disk'[ask'[r].blob] = ask'[r].pw
                    /\ rpc'[r] = "verifier" => got'[r] = ask'[r].pw
  BY DEF ReaderSees, Verifier
<1>1. InEffect(r)' /\ (rpc[r] # "idle" => stable[r])
  BY StableInEffect
<1>2. ASSUME rpc[r] \in {"blob", "verifier"}
      PROVE  disk'[Verifier] = ask[r].pw /\ disk'[ask[r].blob] = ask[r].pw
  <2>1. /\ stable[r] /\ InEffect(r)
        /\ disk[Verifier] = ask[r].pw /\ disk[ask[r].blob] = ask[r].pw
    BY <1>1, <1>2 DEF ReaderSees
  <2>2. /\ ask[r].blob \in index /\ ask[r].blob \in File
        /\ View[Verifier] = ask[r].pw /\ View[ask[r].blob] = ask[r].pw
    BY <2>1 DEF InEffect, OnePassword, KTypeOK
  <2>3. CASE UNCHANGED disk
    BY <2>1, <2>3
  <2>4. CASE \A f \in File : disk'[f] = disk[f] \/ disk'[f] = View[f]
    BY <2>1, <2>2, <2>4, FileKinds
  <2>5. CASE ImportVerifier \/ ImportBlob \/ DeleteBlob
    <3>1. View = disk
      BY <2>5, ViewIsDisk
         DEF ImportVerifier, ImportBlob, DeleteBlob, Doing, JournalInv, Progress, Committed
    <3> QED
      BY <2>1, <2>2, <2>5, <3>1, BodySpares
  <2> QED
    BY <2>3, <2>4, <2>5, KStepFiles
<1>3. CASE rpc'[r] = rpc[r] /\ ask'[r] = ask[r] /\ got'[r] = got[r]
  BY <1>1, <1>2, <1>3 DEF ReaderSees
<1>4. CASE rpc'[r] = "blob" /\ jnl = NoJournal /\ UNCHANGED <<disk, next, jnl>>
  <2>1. View' = disk'
    BY <1>4, ViewIsDisk DEF View, Committed, JournalInv
  <2> QED
    BY <1>1, <1>4, <2>1 DEF InEffect, OnePassword, Verifier
<1>5. CASE ReadBlob(r)
  <2>1. rpc[r] = "blob" /\ ask' = ask /\ got'[r] = disk[ask[r].blob] /\ UNCHANGED disk
    BY <1>5 DEF ReadBlob, KTypeOK, StoreUnchanged, jvars
  <2> QED
    BY <1>1, <1>2, <2>1
<1>6. CASE ReadDecrypt(r)
  BY <1>1, <1>6 DEF ReadDecrypt, Step, KTypeOK
<1>7. CASE rpc'[r] \notin {"blob", "verifier"}
  BY <1>1, <1>7
<1> QED
  BY <1>3, <1>4, <1>5, <1>6, <1>7, ReaderMoves

\* A reader is refused only if its password or its wallet did not stand.
LEMMA KStepReaderServed ==
    ASSUME KTypeOK, JournalInv, ReaderSees, ReaderServed, [KNext]_vars
    PROVE  ReaderServed'
<1> SUFFICES ASSUME NEW r \in Reader, stable'[r], rpc'[r] \in {"authFailed", "missing"}
             PROVE  FALSE
  BY DEF ReaderServed, KTypeOK
<1>1. rpc[r] # "idle" => stable[r]
  BY StableInEffect
<1>2. CASE rpc'[r] = rpc[r]
  BY <1>1, <1>2 DEF ReaderServed
<1>3. CASE ReadBlob(r)
  <2>1. rpc[r] = "blob" /\ disk[ask[r].blob] = Missing
    BY <1>3 DEF ReadBlob, Step, KTypeOK
  <2> QED
    BY <1>1, <2>1 DEF ReaderSees, KTypeOK, Password
<1>4. CASE ReadDecrypt(r)
  <2>1. rpc[r] = "verifier" /\ ~(disk[Verifier] \in {Missing, ask[r].pw} /\ got[r] = ask[r].pw)
    BY <1>4 DEF ReadDecrypt, Step, KTypeOK
  <2> QED
    BY <1>1, <2>1 DEF ReaderSees
<1> QED
  BY <1>2, <1>3, <1>4, ReaderMoves

-----------------------------------------------------------------------------
LEMMA KInitInv == KInit => KInv
<1> SUFFICES ASSUME KInit PROVE KInv
  OBVIOUS
<1>1. TypeOK /\ StagedCopies /\ NoTornCommit /\ Progress
  BY KeystoreAssumption
     DEF KInit, Init, TypeOK, StagedCopies, NoTornCommit, Progress, Committed, Stages, Results,
         PreCommit
<1>2. KTypeOK
  BY <1>1, FileKinds, KeystoreAssumption DEF KInit, KTypeOK
<1>3. StagedSecrets
  BY JournalAssumption, KeystoreAssumption DEF KInit, Init, StagedSecrets
<1> QED
  BY <1>1, <1>2, <1>3
     DEF KInit, Init, KInv, JournalInv, OneBatch, InProgress, BodyStages, IndexNeverDangling,
         OnePassword, NoResurrection, ReaderSees, ReaderServed, PreCommit

\* The inductive invariant of the keystore.
LEMMA KInvariance == KSpec => []KInv
<1>1. KInv /\ [KNext]_vars => KInv'
  <2> SUFFICES ASSUME KInv, [KNext]_vars PROVE KInv'
    OBVIOUS
  <2> /\ KTypeOK /\ JournalInv /\ OneBatch /\ InProgress /\ BodyStages /\ StagedSecrets
      /\ IndexNeverDangling /\ OnePassword /\ NoResurrection /\ ReaderSees /\ ReaderServed
    BY DEF KInv
  <2>1. KTypeOK' /\ JournalInv'
    BY KStepType, KStepJournal
  <2>2. OneBatch' /\ InProgress' /\ BodyStages' /\ StagedSecrets'
    BY KStepOneBatch, KStepInProgress, KStepBodyStages, KStepStagedSecrets
  <2>3. OnePassword' /\ IndexNeverDangling' /\ NoResurrection'
    BY KStepOnePassword, KStepDangling, KStepNoResurrection
  <2>4. ReaderSees' /\ ReaderServed'
    BY <2>3, KStepReaderSees, KStepReaderServed
  <2> QED
    BY <2>1, <2>2, <2>3, <2>4 DEF KInv
<1> QED
  BY <1>1, KInitInv, PTL DEF KSpec

\* Files, readers and mutations keep their types, whatever a kill cuts short
\* (Keystore.#locked and the reads outside the lock).
THEOREM KTypeCorrect == KSpec => []KTypeOK
BY KInvariance, PTL DEF KInv

\* "A committed index never references missing data": import writes the secret
\* before the index, delete the index before the secret, and a password change
\* never takes a file away.
THEOREM IndexNeverDanglingHolds == KSpec => []IndexNeverDangling
BY KInvariance, PTL DEF KInv

\* "A process killed at any step restarts with exactly one password": the
\* journaled change gives it to all files at its commit point.
THEOREM OnePasswordHolds == KSpec => []OnePassword
BY KInvariance, PTL DEF KInv

\* What delete reported as removed comes back neither from a staged copy that a
\* recovery moves into place, nor from a password change that began before.
THEOREM NoResurrectionHolds == KSpec => []NoResurrection
BY KInvariance, PTL DEF KInv

\* A reader that takes no lock is refused only when the password was changed,
\* or its wallet deleted, while it ran: #recovered before the first of its reads
\* is enough, for any number of readers and writers.
THEOREM ReaderServedHolds == KSpec => []ReaderServed
BY KInvariance, PTL DEF KInv

-----------------------------------------------------------------------------
(* The keystore implements Vault. *)

\* Only delete takes a wallet out of the index, one at a time; it moves no file.
LEMMA IndexShrinks ==
    ASSUME KTypeOK, [KNext]_vars, index' \subseteq index
    PROVE  \/ index' = index
           \/ index' = index \ {kop.blob} /\ kop.blob \in index /\ View' = View
<1>1. CASE DeleteIndex
  <2>1. View' = View
    BY <1>1 DEF DeleteIndex, jrest, View, Committed
  <2> QED
    BY <1>1, <2>1 DEF DeleteIndex
<1>2. CASE ImportIndex
  BY <1>2 DEF ImportIndex
<1>3. CASE Mutate /\ ~DeleteIndex /\ ~ImportIndex
  BY <1>3 DEF Mutate, ChooseImport, ChooseDelete, ChangePassword, ImportVerifier, ImportBlob,
              DeleteBlob, EndBody
<1>4. CASE JournalStep \/ UNCHANGED vars
  BY <1>4 DEF JournalStep, vars, kvars
<1>5. ASSUME NEW r \in Reader, Read(r)
      PROVE  UNCHANGED index
  BY <1>5 DEF Read, ReadStart, ReadCheck, ReadLock, ReadLockTimeout, ReadRecover, ReadRecovered,
              ReadRecoveryFails, ReadBlocked, ReadBlob, ReadDecrypt, StoreUnchanged, kvars
<1> QED
  BY <1>1, <1>2, <1>3, <1>4, <1>5 DEF KNext

\* Import adds a wallet that was not there, under the password of the verifier.
LEMMA IndexAdds ==
    ASSUME KTypeOK, JournalInv, BodyStages, [KNext]_vars, ~(index' \subseteq index)
    PROVE  /\ index' = index \cup {kop.blob} /\ kop.blob \in Blob \ index
           /\ View' = View /\ View[kop.blob] = View[Verifier] /\ View[Verifier] # Missing
<1>1. /\ index' = index \cup {kop.blob} /\ kop.blob \in Blob
      /\ disk[Verifier] = kop.new /\ disk[kop.blob] = kop.new /\ kop.new # Missing
      /\ UNCHANGED <<disk, next, jnl>> /\ jnl = NoJournal
  BY IndexGrows
<1>2. View = disk /\ View' = View
  BY <1>1, ViewIsDisk DEF View, Committed, JournalInv
<1> QED
  BY <1>1, <1>2

\* When the index stays as it is: one password for all, the first verifier, or nothing.
LEMMA PasswordMoves ==
    ASSUME KTypeOK, JournalInv, OneBatch, BodyStages, OnePassword, [KNext]_vars, index' = index
    PROVE  \/ \A f \in index \cup {Verifier} : View'[f] = View[f]
           \/ /\ index # {}
              /\ \E new \in Password : \A f \in index \cup {Verifier} : View'[f] = new
           \/ index = {} /\ View[Verifier] = Missing /\ View'[Verifier] \in Password
<1>1. ASSUME ImportVerifier \/ ImportBlob \/ DeleteBlob, View = disk, View' = disk'
      PROVE  \/ \A f \in index \cup {Verifier} : View'[f] = View[f]
             \/ index = {} /\ View[Verifier] = Missing /\ View'[Verifier] \in Password
  <2>1. CASE index # {}
    BY <1>1, <2>1, BodySpares
  <2>2. CASE index = {} /\ disk[Verifier] = Missing /\ ImportVerifier
    <3>1. kop.new \in Password
      BY <2>2, OpType DEF ImportVerifier, Doing, Password
    <3>2. disk \in [File -> Val] /\ Verifier \in File
      BY FileKinds DEF JournalInv, TypeOK
    <3> QED
      BY <1>1, <2>2, <3>1, <3>2, BodyDisk DEF ImportVerifier, ImportBlob, DeleteBlob, Doing
  <2>3. CASE index = {} /\ ~(disk[Verifier] = Missing /\ ImportVerifier)
    <3>1. kop.blob # Verifier \/ disk' = disk
      BY <1>1, <2>3, BodyDisk, FileKinds DEF BodyStages, ImportBlob, DeleteBlob, Doing
    <3>2. disk'[Verifier] = disk[Verifier]
      BY <1>1, <2>3, <3>1, BodyDisk, FileKinds DEF JournalInv, TypeOK
    <3> QED
      BY <1>1, <2>3, <3>2
  <2> QED
    BY <2>1, <2>2, <2>3, <1>1
<1> QED
  BY <1>1, KStepView

\* Each step of the keystore is a step of Vault, or changes nothing of it.
LEMMA VaultStep ==
    ASSUME KInv, [KNext]_vars
    PROVE  [Promised!Next]_(Promised!vars)
<1> /\ KTypeOK /\ JournalInv /\ OneBatch /\ BodyStages /\ OnePassword
  BY DEF KInv
<1>0. index \subseteq Blob
  BY DEF KTypeOK
<1>1. CASE ~(index' \subseteq index)
  <2>1. Promised!Import(kop.blob)
    BY <1>1, IndexAdds DEF Promised!Import, Opens
  <2>2. kop.blob \in Blob
    BY <1>1, IndexAdds
  <2> QED
    BY <2>1, <2>2 DEF Promised!Next
<1>2. CASE index' # index /\ index' \subseteq index
  <2>1. Promised!Delete(kop.blob)
    BY <1>2, IndexShrinks DEF Promised!Delete, Opens
  <2>2. kop.blob \in Blob
    BY <1>0, <1>2, IndexShrinks
  <2> QED
    BY <2>1, <2>2 DEF Promised!Next
<1>3. CASE index' = index
  <2>1. CASE \A f \in index \cup {Verifier} : View'[f] = View[f]
    BY <1>3, <2>1 DEF Promised!vars, Opens
  <2>2. ASSUME NEW new \in Password, index # {}, \A f \in index \cup {Verifier} : View'[f] = new
        PROVE  Promised!Change(new)
    BY <1>3, <2>2 DEF Promised!Change, Opens
  <2>3. CASE index = {} /\ View[Verifier] = Missing /\ View'[Verifier] \in Password
    BY <1>3, <2>3 DEF Promised!Next, Promised!Found, Opens
  <2> QED
    BY <1>3, <2>1, <2>2, <2>3, PasswordMoves DEF Promised!Next
<1> QED
  BY <1>1, <1>2, <1>3

\* The files, the index and the journal together are a vault: wallets come and
\* go as a whole under one master password that changes for all of them in one
\* step, wherever a command is killed or a file operation throws.
THEOREM OneVaultHolds == KSpec => OneVault
<1>1. KInit => Promised!Init
  BY FileKinds DEF KInit, Init, Promised!Init, Opens, View, Committed
<1>2. KInv /\ [KNext]_vars => [Promised!Next]_(Promised!vars)
  BY VaultStep
<1> QED
  BY <1>1, <1>2, KInvariance, PTL DEF KSpec, OneVault, Promised!Spec

\* What a vault promises: its master password opens every wallet.
THEOREM MasterOpensAll == OneVault => []Promised!MasterOpens
<1>1. Promised!Init => Promised!MasterOpens
  BY DEF Promised!Init, Promised!MasterOpens
<1>2. Promised!MasterOpens /\ [Promised!Next]_(Promised!vars) => Promised!MasterOpens'
  <2> SUFFICES ASSUME Promised!MasterOpens, [Promised!Next]_(Promised!vars) PROVE Promised!MasterOpens'
    OBVIOUS
  <2> USE DEF Promised!MasterOpens
  <2>1. CASE UNCHANGED Promised!vars
    BY <2>1 DEF Promised!vars
  <2>2. CASE Promised!Found
    BY <2>2 DEF Promised!Found
  <2>3. ASSUME NEW w \in Blob, Promised!Import(w) PROVE Promised!MasterOpens'
    BY <2>3 DEF Promised!Import
  <2>4. ASSUME NEW w \in Blob, Promised!Delete(w) PROVE Promised!MasterOpens'
    BY <2>4 DEF Promised!Delete
  <2>5. ASSUME NEW new \in Password, Promised!Change(new) PROVE Promised!MasterOpens'
    BY <2>5 DEF Promised!Change, Password
  <2> QED
    BY <2>1, <2>2, <2>3, <2>4, <2>5 DEF Promised!Next
<1> QED
  BY <1>1, <1>2, PTL DEF OneVault, Promised!Spec
=============================================================================
