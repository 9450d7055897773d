------------------------------ MODULE Migration ------------------------------
(***************************************************************************)
(* The schema migration that runs before a command: the plan, the consent  *)
(* and the password, the locks of the stale files one inside the other,    *)
(* and the batch writeJsonAll that installs the migrated documents and the *)
(* copies of the old ones.  Commands run at the same time and are killed   *)
(* between any two file operations.                                        *)
(*                                                                         *)
(* Bounds: Commands of them; FileFaults kills and I/O errors in all.       *)
(***************************************************************************)
EXTENDS LocalStore, SequencesExt

\* The files of migrationSteps; wallets.json needs the password and comes first.
FileSet == {"wallets", "tokens"}
InOrder(of) == of["wallets"] \o of["tokens"]

\* The document, or its permanent copy <name>.v1.bak.
Paths == {"doc", "copy"} \X FileSet
Doc(f) == <<"doc", f>>
Copy(f) == <<"copy", f>>

InSchema == disk.kind = "schema"

\* disk.at: the files - none, old, new (migrated) or fresh (written by a command
\* of this version that found none); disk.bak[c]: the rollback copies a command made, which
\* have random names; disk.lock: who holds a lock file.
Start0 == [pc |-> "plan", stale |-> <<>>, batch |-> <<>>, i |-> 0, before |-> [f \in FileSet |-> "none"],
           safe |-> TRUE, said |-> "nothing"]

MigrationInit ==
    /\ \E at \in [FileSet -> {"none", "old", "new"}] :
        disk = [kind |-> "schema", was |-> at,
                at |-> [p \in Paths |-> IF p[1] = "doc" THEN at[p[2]] ELSE "none"],
                bak |-> [c \in Commands |-> [p \in Paths |-> "none"]],
                lock |-> [f \in FileSet |-> 0]]
    /\ task = [c \in Commands |-> Start0]
    /\ spent = 0

EndAs(c, said) == task' = [task EXCEPT ![c].pc = "release", ![c].said = said]

Stale == InOrder([f \in FileSet |-> IF disk.at[Doc(f)] = "old" THEN <<f>> ELSE <<>>])

-----------------------------------------------------------------------------
\* plan: a missing document counts as current.
MigrationPlan(c) ==
    /\ At(c, "plan")
    /\ IF Stale = <<>> THEN Step(c, "command")
       ELSE task' = [task EXCEPT ![c].pc = "consent", ![c].stale = Stale]
    /\ UNCHANGED <<disk, spent>>

\* confirm, then the password if a wallet with a secret is stale; cancelled, or
\* refused for want of a password, the command ends.
MigrationConsent(c) ==
    /\ At(c, "consent")
    /\ \/ task' = [task EXCEPT ![c].pc = "lock", ![c].i = 1]
       \/ task' = [task EXCEPT ![c].pc = "end", ![c].said = "cancelled"]
    /\ UNCHANGED <<disk, spent>>

\* write: the next lock; a holder that is dead is passed over.
Dead(c) == c \in Commands /\ At(c, "dead")
MigrationLock(c) ==
    /\ At(c, "lock")
    /\ LET f == task[c].stale[task[c].i] IN
        /\ disk.lock[f] = 0 \/ Dead(disk.lock[f])
        /\ disk' = [disk EXCEPT !.lock[f] = c]
    /\ task' = [task EXCEPT ![c].i = @ + 1,
                            ![c].pc = IF task[c].i = Len(task[c].stale) THEN "commit" ELSE "lock"]
    /\ UNCHANGED spent

MigrationLockTimeout(c) ==
    /\ At(c, "lock")
    /\ LET h == disk.lock[task[c].stale[task[c].i]] IN h # 0 /\ ~Dead(h)
    /\ EndAs(c, "failed")
    /\ UNCHANGED <<disk, spent>>

\* Defect: the old document is not copied.
EntriesWithoutCopy(f) == <<[path |-> Doc(f), value |-> "new"]>>

Entries(f) == <<[path |-> Copy(f), value |-> disk.at[Doc(f)]], [path |-> Doc(f), value |-> "new"]>>

\* commit: each file is read again under its lock; one that is current by now
\* is left out.
Batch(stale) ==
    InOrder([f \in FileSet |-> IF f \in ToSet(stale) /\ disk.at[Doc(f)] = "old" THEN Entries(f) ELSE <<>>])

MigrationCommit(c) ==
    /\ At(c, "commit")
    /\ LET batch == Batch(task[c].stale) IN
        task' = [task EXCEPT ![c].batch = batch, ![c].i = 1,
                             ![c].before = [f \in FileSet |-> disk.at[Doc(f)]],
                             ![c].pc = IF batch = <<>> THEN "release" ELSE "displace",
                             ![c].said = IF batch = <<>> THEN "upgraded" ELSE @]
    /\ UNCHANGED <<disk, spent>>

\* The password is wrong, an address matches no derivation, or a temporary file
\* cannot be written: nothing was touched.
MigrationNotStaged(c) ==
    /\ At(c, "commit")
    /\ EndAs(c, "failed")
    /\ UNCHANGED <<disk, spent>>

-----------------------------------------------------------------------------
(* writeJsonAll, after the temporary files. *)

Entry(c) == task[c].batch[task[c].i]

\* commitRename(path, bak), when there is a file.
MigrationDisplace(c) ==
    /\ At(c, "displace")
    /\ LET p == Entry(c).path IN
        disk' = [disk EXCEPT !.bak[c][p] = disk.at[p], !.at[p] = "none"]
    /\ Step(c, "publish")
    /\ UNCHANGED spent

\* commitRename(tmp, path)
MigrationPublish(c) ==
    /\ At(c, "publish")
    /\ disk' = [disk EXCEPT !.at[Entry(c).path] = Entry(c).value]
    /\ IF task[c].i = Len(task[c].batch) THEN Step(c, "flush")
       ELSE task' = [task EXCEPT ![c].pc = "displace", ![c].i = @ + 1]
    /\ UNCHANGED spent

\* Defect: an entry is recorded only when it has been installed.
RecordedLate(c) == task[c].i - 1

\* What there is to roll back: recorded before it is installed.
Recorded(c) == IF At(c, "publish") THEN task[c].i ELSE task[c].i - 1

MigrationRenameFails(c) ==
    /\ task[c].pc \in {"displace", "publish"}
    /\ Fault
    /\ task' = [task EXCEPT ![c].pc = IF Recorded(c) = 0 THEN "release" ELSE "rollback",
                            ![c].i = Recorded(c), ![c].said = "failed"]
    /\ UNCHANGED disk

NextRollback(c, safe) ==
    task' = [task EXCEPT ![c].i = @ - 1, ![c].safe = safe,
                         ![c].pc = IF task[c].i > 1 THEN "rollback" ELSE "release",
                         ![c].said = IF safe THEN "failed" ELSE "manual"]

\* The old file back to its path; without one, what was installed is removed.
MigrationRollback(c) ==
    /\ At(c, "rollback")
    /\ LET p == Entry(c).path IN
        disk' = [disk EXCEPT !.at[p] = disk.bak[c][p], !.bak[c][p] = "none"]
    /\ NextRollback(c, task[c].safe)
    /\ UNCHANGED spent

\* The removal is a best effort; a restore that fails is reported.
MigrationRollbackFails(c) ==
    /\ At(c, "rollback")
    /\ Fault
    /\ NextRollback(c, task[c].safe /\ disk.bak[c][Entry(c).path] = "none")
    /\ UNCHANGED disk

\* After the directories are flushed the rollback copies go.
MigrationFlush(c) ==
    /\ At(c, "flush")
    /\ disk' = [disk EXCEPT !.bak[c] = [p \in Paths |-> "none"]]
    /\ EndAs(c, "upgraded")
    /\ UNCHANGED spent

\* A flush that fails keeps them: the new state is in effect.
MigrationFlushFails(c) ==
    /\ At(c, "flush")
    /\ Fault
    /\ EndAs(c, "uncertain")
    /\ UNCHANGED disk

Unlocked(c) == [f \in FileSet |-> IF disk.lock[f] = c THEN 0 ELSE disk.lock[f]]

MigrationRelease(c) ==
    /\ At(c, "release")
    /\ disk' = [disk EXCEPT !.lock = Unlocked(c)]
    /\ Step(c, "end")
    /\ UNCHANGED spent

\* Nothing to migrate: the command itself, which may write a first document.
MigrationCommand(c) ==
    /\ At(c, "command")
    /\ \/ UNCHANGED disk
       \/ \E f \in FileSet :
            /\ disk.at[Doc(f)] = "none"
            /\ disk.lock[f] = 0 \/ Dead(disk.lock[f])
            /\ disk' = [disk EXCEPT !.at[Doc(f)] = "fresh"]
    /\ Step(c, "end")
    /\ UNCHANGED spent

MigrationKill(c) ==
    /\ task[c].pc \notin {"plan", "end", "dead"}
    /\ Fault
    /\ Step(c, "dead")
    /\ UNCHANGED disk

MigrationNext ==
    /\ InSchema
    /\ \E c \in Commands :
        \/ MigrationPlan(c) \/ MigrationConsent(c) \/ MigrationLock(c) \/ MigrationLockTimeout(c)
        \/ MigrationCommit(c) \/ MigrationNotStaged(c)
        \/ MigrationDisplace(c) \/ MigrationPublish(c) \/ MigrationRenameFails(c)
        \/ MigrationRollback(c) \/ MigrationRollbackFails(c)
        \/ MigrationFlush(c) \/ MigrationFlushFails(c)
        \/ MigrationRelease(c) \/ MigrationCommand(c) \/ MigrationKill(c)

-----------------------------------------------------------------------------
(* Properties. *)

\* A document of the older schema is never lost: it is at its path, in its
\* permanent copy or in a rollback copy, whatever is killed or fails and
\* whoever migrates at the same time.
OldDocumentKept == InSchema =>
    \A f \in FileSet : disk.was[f] = "old" =>
        \/ "old" \in {disk.at[Doc(f)], disk.at[Copy(f)]}
        \/ \E c \in Commands, p \in Paths : p[2] = f /\ disk.bak[c][p] = "old"

\* While it still holds the locks, a command that says the upgrade failed has
\* left the documents as it found them, and one that says it succeeded, or
\* that its durability is uncertain, has left them migrated.
MigrationAnswerTrue == InSchema =>
    \A c \in Commands : At(c, "release") =>
        /\ task[c].said = "failed" /\ task[c].batch # <<>> =>
              \A f \in ToSet(task[c].stale) : disk.at[Doc(f)] = task[c].before[f]
        /\ task[c].said \in {"upgraded", "uncertain"} =>
              \A f \in ToSet(task[c].stale) : disk.at[Doc(f)] # "old"
=============================================================================
