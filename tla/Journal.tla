------------------------------- MODULE Journal -------------------------------
(***************************************************************************)
(* AtomicFileStore.writeJsonJournaled and recoverJournal: several files    *)
(* are replaced through staged copies (`<file>.next`) and a journal file   *)
(* whose switch from "staged" to "committed" is the commit point.          *)
(*                                                                         *)
(* The callers hold the lock of the wallet directory, so there is one      *)
(* writer at a time; it may be killed before any step (the lock then       *)
(* passes on) and any file operation may throw.  Files are numbered in the *)
(* order of the entries of a batch.                                        *)
(***************************************************************************)
EXTENDS Naturals, FiniteSets

CONSTANTS
    FileCount,        \* number of files a batch may replace
    Val,              \* file contents
    Absent,           \* there is no staged copy
    Torn,             \* a staged copy whose write was cut short
    NoJournal,        \* there is no journal file
    NoBatch           \* no batch is being written

File == 1 .. FileCount

ASSUME JournalAssumption ==
    /\ FileCount \in Nat
    /\ Absent \notin Val
    /\ Torn \notin Val \cup {Absent}
    /\ NoJournal \notin [state : {"staged", "committed"}, files : SUBSET File]
    /\ NoBatch \notin UNION {[S -> Val] : S \in SUBSET File}

VARIABLES
    disk,     \* the published contents of each file
    next,     \* the staged copy of each file
    jnl,      \* the journal: NoJournal or [state, files]
    jtmp,     \* a temporary file of the journal exists
    pc,       \* what the lock holder does next; "idle" when nobody holds it
    todo,     \* the files still to stage or to replay
    goal,     \* who called recoverJournal: every mutation, or the writer
    batch,    \* the contents the writer was given
    result,   \* what the last locked call reported
    before    \* history: the contents in effect when the batch was started

jvars == <<disk, next, jnl, jtmp, pc, todo, goal, batch, result, before>>

Batch == UNION {[S -> Val] : S \in (SUBSET File) \ {{}}}
JournalFile == [state : {"staged", "committed"}, files : SUBSET File]
Stages == {"idle", "recover", "replay", "body", "stageJournal", "stage", "torn",
           "commitJournal", "catch"}
Results == {"none", "complete", "incomplete", "failed", "unread", "blocked", "killed"}

TypeOK ==
    /\ disk \in [File -> Val]
    /\ next \in [File -> Val \cup {Absent, Torn}]
    /\ jnl \in JournalFile \cup {NoJournal}
    /\ jtmp \in BOOLEAN
    /\ pc \in Stages
    /\ todo \in SUBSET File
    /\ goal \in {"entry", "finish", "undo"}
    /\ batch \in Batch \cup {NoBatch}
    /\ result \in Results
    /\ before \in [File -> Val]

Committed == jnl # NoJournal /\ jnl.state = "committed"

\* The contents in effect: a committed journal is already the new state,
\* whatever part of it has been moved into place.
View == [f \in File |-> IF Committed /\ next[f] # Absent THEN next[f] ELSE disk[f]]

Overlay(v, b) == [f \in File |-> IF f \in DOMAIN b THEN b[f] ELSE v[f]]

\* entries.map order: the first file not yet handled.
First(f) == f \in todo /\ \A g \in todo : f <= g

Init ==
    /\ disk \in [File -> Val]
    /\ next = [f \in File |-> Absent]
    /\ jnl = NoJournal
    /\ jtmp = FALSE
    /\ pc = "idle"
    /\ todo = {}
    /\ goal = "entry"
    /\ batch = NoBatch
    /\ result = "none"
    /\ before = disk

-----------------------------------------------------------------------------
(* recoverJournal *)

\* Every locked mutation starts with recoverJournal (Keystore.#locked).
Acquire ==
    /\ pc = "idle"
    /\ pc' = "recover"
    /\ goal' = "entry"
    /\ result' = "none"
    /\ batch' = NoBatch
    /\ UNCHANGED <<disk, next, jnl, jtmp, todo, before>>

\* recoverJournal returned: the mutation goes on, or the write reports.
Recovered ==
    /\ pc' = IF goal = "entry" THEN "body" ELSE "idle"
    /\ result' = CASE goal = "entry"  -> "none"
                   [] goal = "finish" -> "complete"
                   [] goal = "undo"   -> "failed"

\* recoverJournal threw.
RecoveryThrew ==
    /\ pc' = "idle"
    /\ result' = CASE goal = "entry"  -> "blocked"
                   [] goal = "finish" -> "incomplete"
                   [] goal = "undo"   -> "failed"

\* Defect: a staged journal needs no recovery, since nothing was replaced.
ReadJournalSkipsStaged ==
    /\ pc = "recover"
    /\ jtmp' = FALSE
    /\ IF ~Committed
         THEN Recovered /\ UNCHANGED todo
         ELSE pc' = "replay" /\ todo' = jnl.files /\ UNCHANGED result
    /\ UNCHANGED <<disk, next, jnl, goal, batch, before>>

\* #removeJournalTemps, then #readJournal.
ReadJournal ==
    /\ pc = "recover"
    /\ jtmp' = FALSE
    /\ IF jnl = NoJournal
         THEN Recovered /\ UNCHANGED todo
         ELSE /\ pc' = "replay"
              /\ todo' = jnl.files
              /\ UNCHANGED result
    /\ UNCHANGED <<disk, next, jnl, goal, batch, before>>

\* Committed: rename the staged copy into place if it is still there.
RollForward ==
    /\ pc = "replay"
    /\ Committed
    /\ \E f \in File :
          /\ First(f)
          /\ disk' = IF next[f] # Absent THEN [disk EXCEPT ![f] = next[f]] ELSE disk
          /\ next' = [next EXCEPT ![f] = Absent]
          /\ todo' = todo \ {f}
    /\ UNCHANGED <<jnl, jtmp, pc, goal, batch, result, before>>

\* Staged: remove the staged copy.
RollBack ==
    /\ pc = "replay"
    /\ ~Committed
    /\ \E f \in File :
          /\ First(f)
          /\ next' = [next EXCEPT ![f] = Absent]
          /\ todo' = todo \ {f}
    /\ UNCHANGED <<disk, jnl, jtmp, pc, goal, batch, result, before>>

\* Defect: the journal goes before the files it lists are handled.
RemoveJournalEarly ==
    /\ pc = "replay"
    /\ jnl' = NoJournal
    /\ Recovered \/ RecoveryThrew
    /\ UNCHANGED <<disk, next, jtmp, todo, goal, batch, before>>

\* Every file is handled: fsync, unlink the journal; the last fsync of the
\* directory may still throw.
RemoveJournal ==
    /\ pc = "replay"
    /\ todo = {}
    /\ jnl' = NoJournal
    /\ Recovered \/ RecoveryThrew
    /\ UNCHANGED <<disk, next, jtmp, todo, goal, batch, before>>

\* Any other file operation of recoverJournal throws.
RecoveryFails ==
    /\ pc \in {"recover", "replay"}
    /\ jtmp' \in {jtmp, FALSE}
    /\ RecoveryThrew
    /\ UNCHANGED <<disk, next, jnl, todo, goal, batch, before>>

-----------------------------------------------------------------------------
(* writeJsonJournaled *)

\* Another mutation under the same lock, or none: see Keystore.
Release ==
    /\ pc = "body"
    /\ pc' = "idle"
    /\ UNCHANGED <<disk, next, jnl, jtmp, todo, goal, batch, result, before>>

Begin(b) ==
    /\ pc = "body"
    /\ batch' = b
    /\ before' = View
    /\ pc' = "stageJournal"
    /\ UNCHANGED <<disk, next, jnl, jtmp, todo, goal, result>>

\* writeText: the bytes go to a temporary file first.
WriteJournalTemp ==
    /\ pc \in {"stageJournal", "commitJournal"}
    /\ ~jtmp
    /\ jtmp' = TRUE
    /\ UNCHANGED <<disk, next, jnl, pc, todo, goal, batch, result, before>>

\* The rename publishes the journal; the fsync after it may throw.
PublishStaged ==
    /\ pc = "stageJournal"
    /\ jtmp
    /\ jnl' = [state |-> "staged", files |-> DOMAIN batch]
    /\ jtmp' = FALSE
    /\ todo' = DOMAIN batch
    /\ pc' \in {"stage", "catch"}
    /\ UNCHANGED <<disk, next, goal, batch, result, before>>

\* writeFileSync of the staged copy starts: a kill now leaves it torn.
StageOpen ==
    /\ pc = "stage"
    /\ \E f \in File : First(f) /\ next' = [next EXCEPT ![f] = Torn]
    /\ pc' = "torn"
    /\ UNCHANGED <<disk, jnl, jtmp, todo, goal, batch, result, before>>

\* ... and is complete and flushed.
StageFlush ==
    /\ pc = "torn"
    /\ \E f \in File :
          /\ First(f)
          /\ next' = [next EXCEPT ![f] = batch[f]]
          /\ todo' = todo \ {f}
    /\ pc' = "stage"
    /\ UNCHANGED <<disk, jnl, jtmp, goal, batch, result, before>>

StagedAll ==
    /\ pc = "stage"
    /\ todo = {}
    /\ pc' = "commitJournal"
    /\ UNCHANGED <<disk, next, jnl, jtmp, todo, goal, batch, result, before>>

\* The commit point.
PublishCommitted ==
    /\ pc = "commitJournal"
    /\ jtmp
    /\ jnl' = [state |-> "committed", files |-> DOMAIN batch]
    /\ jtmp' = FALSE
    /\ \/ pc' = "recover" /\ goal' = "finish"
       \/ pc' = "catch" /\ UNCHANGED goal
    /\ UNCHANGED <<disk, next, todo, batch, result, before>>

\* A file operation before the commit point throws; writeText removes its
\* temporary file if it can.
StageFails ==
    /\ pc \in {"stageJournal", "stage", "torn", "commitJournal"}
    /\ jtmp' \in {jtmp, FALSE}
    /\ pc' = "catch"
    /\ UNCHANGED <<disk, next, jnl, todo, goal, batch, result, before>>

\* Defect: every error of the write is reported as a failure.
CatchAlwaysUndoes ==
    /\ pc = "catch"
    /\ pc' = "recover"
    /\ goal' = "undo"
    /\ UNCHANGED <<disk, next, jnl, jtmp, todo, batch, result, before>>

\* The catch block: a journal that reads "committed" is rolled forward, else
\* the staged copies are removed and the failure is reported.
Catch ==
    /\ pc = "catch"
    /\ pc' = "recover"
    /\ goal' = IF Committed THEN "finish" ELSE "undo"
    /\ UNCHANGED <<disk, next, jnl, jtmp, todo, batch, result, before>>

\* #readJournal itself throws out of the catch block: the caller sees a
\* failure like any other, which the model calls "unread".
CatchFails ==
    /\ pc = "catch"
    /\ pc' = "idle"
    /\ result' = "unread"
    /\ UNCHANGED <<disk, next, jnl, jtmp, todo, goal, batch, before>>

\* The process is killed; the next command takes the lock over.
Kill ==
    /\ pc # "idle"
    /\ pc' = "idle"
    /\ result' = "killed"
    /\ UNCHANGED <<disk, next, jnl, jtmp, todo, goal, batch, before>>

Recovery == ReadJournal \/ RollForward \/ RollBack \/ RemoveJournal

Write ==
    \/ WriteJournalTemp \/ PublishStaged \/ StageOpen \/ StageFlush
    \/ StagedAll \/ PublishCommitted \/ Catch

Next ==
    \/ Acquire \/ Recovery \/ RecoveryFails
    \/ Release \/ (\E b \in Batch : Begin(b))
    \/ Write \/ StageFails \/ CatchFails
    \/ Kill

Spec == Init /\ [][Next]_jvars

\* A command that runs takes its steps, and wallet commands keep coming.
FairSpec == Spec /\ WF_jvars(Acquire) /\ WF_jvars(Recovery)

-----------------------------------------------------------------------------
\* The batch whose commit point has not been passed.
Pending ==
    IF pc \in {"stageJournal", "stage", "torn", "commitJournal"}
          \/ (pc = "catch" /\ ~Committed)
      THEN batch ELSE NoBatch

Abstract == INSTANCE AtomicWrite
              WITH view <- View, req <- Pending, NoReq <- NoBatch

\* writeJsonJournaled writes all files of the batch or none, whatever step
\* the process is killed at and whichever operation throws.
AtomicBatch == Abstract!Spec

\* What changePassword tells the user is true: after a reported failure "the
\* old password remains in effect", after success, and after an error past the
\* commit point, "the new password is in effect".  The one exception is a
\* journal that cannot be read back after an error.
Truthful ==
    /\ result = "failed" => View = before
    /\ result \in {"complete", "incomplete"} => View = Overlay(before, batch)

\* The same without the exception, as the code's comments have it: every
\* failure leaves the old contents in effect.
FailureIsFailure == result \in {"failed", "unread"} => View = before

\* A locked mutation never runs over an unfinished write: no journal, no staged
\* copy and no temporary journal file is left when its body starts.
CleanBody ==
    pc = "body" => /\ jnl = NoJournal
                   /\ ~jtmp
                   /\ \A f \in File : next[f] = Absent

\* A staged copy that was cut short is never installed, and never chosen.
NoTornCommit == Committed => \A f \in File : next[f] # Torn

\* Once kills and I/O errors stop, an interrupted write is finished or undone
\* by the commands that follow.
RecoveryHappens ==
    <>[][~Kill /\ ~RecoveryFails]_jvars
        => ((jnl # NoJournal /\ pc = "idle") ~> (jnl = NoJournal))
=============================================================================
