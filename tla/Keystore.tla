------------------------------ MODULE Keystore -------------------------------
(***************************************************************************)
(* The keystore directory: the index wallets.json, one encrypted blob per  *)
(* software wallet, and the verifier that fixes the master password.       *)
(*                                                                         *)
(* A mutation holds the lock, finishes an interrupted password change      *)
(* (Keystore.#locked) and then runs its body, one file operation at a      *)
(* time; it may be killed before any of them, and any of them may throw.   *)
(* Secrets are read outside the lock (Keystore.#recovered and then three   *)
(* separate reads), so readers interleave with every step of a writer.     *)
(*                                                                         *)
(* A file is represented by the password it is encrypted under.            *)
(***************************************************************************)
EXTENDS Journal

CONSTANTS
    Missing,   \* the file does not exist
    Reader,    \* the commands that read a secret
    NoReader,  \* the lock is not held by a reader
    NoOp       \* the lock holder has not chosen its mutation

\* The last entry of a password change is the verifier.
Verifier == FileCount
Blob == 1 .. FileCount - 1
Password == Val \ {Missing}

\* A mutation that touches secret files.
Op == [kind : {"import", "delete", "change"}, blob : Blob \cup {Verifier},
       old : Password, new : Password]

ASSUME KeystoreAssumption ==
    /\ FileCount >= 1
    /\ Missing \in Val
    /\ NoReader \notin Reader
    /\ NoOp \notin Op

VARIABLES
    index,     \* the secrets that wallets.json refers to
    kop,       \* the mutation in progress, or NoOp
    kpc,       \* its next file operation
    gone,      \* history: secrets that delete reported as removed
    holder,    \* the reader that holds the lock, or NoReader
    rpc,       \* what each reader does next
    ask,       \* what each reader wants: [blob, pw]
    got,       \* the blob contents it has read
    stable     \* history: since its start, the password the reader gives has
               \* been the one in effect and its wallet has been in the index

kvars == <<index, kop, kpc, gone>>
rvars == <<holder, rpc, ask, got, stable>>
vars == <<jvars, kvars, rvars>>

ReaderEnds == {"secret", "authFailed", "missing", "blocked", "dead"}

KTypeOK ==
    /\ TypeOK
    /\ index \in SUBSET Blob
    /\ kop \in Op \cup {NoOp}
    /\ kpc \in {"choose", "verifier", "blob", "index", "unlink"}
    /\ gone \in SUBSET Blob
    /\ holder \in Reader \cup {NoReader}
    /\ rpc \in [Reader -> {"idle", "check", "wait", "recovering", "blob", "verifier"} \cup ReaderEnds]
    /\ ask \in [Reader -> [blob : File, pw : Password]]
    /\ got \in [Reader -> Val]
    /\ stable \in [Reader -> BOOLEAN]

KInit ==
    /\ Init
    /\ disk = [f \in File |-> Missing]
    /\ index = {}
    /\ kop = NoOp
    /\ kpc = "choose"
    /\ gone = {}
    /\ holder = NoReader
    /\ rpc = [r \in Reader |-> "idle"]
    /\ ask \in [Reader -> [blob : {Verifier}, pw : Password]]
    /\ got = [r \in Reader |-> Missing]
    /\ stable = [r \in Reader |-> FALSE]

\* History: is the reader's password in effect, and its wallet in the index?
InEffect(r) == View[Verifier] = ask[r].pw /\ ask[r].blob \in index

Observe ==
    stable' = [r \in Reader |-> InEffect(r)' /\ (stable[r] \/ rpc[r] = "idle")]

Quiet == UNCHANGED <<holder, rpc, ask, got>> /\ Observe

-----------------------------------------------------------------------------
(* Mutations.  Those that touch no secret file (labels, the active account,
   ledger and watch wallets) only take and release the lock here.           *)

jrest == <<next, jnl, jtmp, todo, goal, batch, before>>
Choosing == pc = "body" /\ holder = NoReader /\ kop = NoOp
Doing(k, s) == pc = "body" /\ kop # NoOp /\ kop.kind = k /\ kpc = s

\* The body returns or throws: the lock is released.
End == pc' = "idle" /\ kop' = NoOp /\ kpc' = "choose"
GoOn(s) == UNCHANGED <<pc, kop>> /\ kpc' = s

\* A mutation that ends without touching a secret file.
EndBody ==
    /\ pc = "body"
    /\ holder = NoReader
    /\ End
    /\ UNCHANGED <<disk, jrest, result, index, gone>>
    /\ Quiet

\* writeJson of one file: a temporary file and a rename.  An error before the
\* rename changes nothing (EndBody); one after it (the fsync of the directory)
\* fails the command although the file has changed.
WriteFile(f, v, s) ==
    /\ disk' = [disk EXCEPT ![f] = v]
    /\ GoOn(s) \/ End
    /\ UNCHANGED <<jrest, result>>

\* import: #freshId avoids the ids in the index only.
ChooseImport(b, pw) ==
    /\ Choosing
    /\ b \notin index
    /\ kop' = [kind |-> "import", blob |-> b, old |-> pw, new |-> pw]
    /\ kpc' = "verifier"
    /\ UNCHANGED <<jvars, index, gone>>
    /\ Quiet

\* #assertPassword({ createIfAbsent: true }).
ImportVerifier ==
    /\ Doing("import", "verifier")
    /\ \/ /\ disk[Verifier] = Missing
          /\ WriteFile(Verifier, kop.new, "blob")
       \/ /\ disk[Verifier] = kop.new
          /\ GoOn("blob")
          /\ UNCHANGED <<disk, jrest, result>>
       \/ /\ disk[Verifier] \notin {Missing, kop.new}
          /\ End
          /\ UNCHANGED <<disk, jrest, result>>
    /\ UNCHANGED <<index, gone>>
    /\ Quiet

\* #writeBlob comes before the index that refers to it.
ImportBlob ==
    /\ Doing("import", "blob")
    /\ WriteFile(kop.blob, kop.new, "index")
    /\ gone' = gone \ {kop.blob}
    /\ UNCHANGED index
    /\ Quiet

ImportIndex ==
    /\ Doing("import", "index")
    /\ index' = index \cup {kop.blob}
    /\ End
    /\ UNCHANGED <<disk, jrest, result, gone>>
    /\ Quiet

\* Defect: the blob is removed before the index is written.
ChooseDeleteBlobFirst(b, pw) ==
    /\ Choosing
    /\ b \in index
    /\ kop' = [kind |-> "delete", blob |-> b, old |-> pw, new |-> pw]
    /\ kpc' = "unlink"
    /\ UNCHANGED <<jvars, index, gone>>
    /\ Quiet

\* delete of a whole wallet: the index first, then the blob file.
ChooseDelete(b, pw) ==
    /\ Choosing
    /\ b \in index
    /\ kop' = [kind |-> "delete", blob |-> b, old |-> pw, new |-> pw]
    /\ kpc' = "index"
    /\ UNCHANGED <<jvars, index, gone>>
    /\ Quiet

DeleteIndex ==
    /\ Doing("delete", "index")
    /\ index' = index \ {kop.blob}
    /\ GoOn("unlink") \/ End
    /\ UNCHANGED <<disk, jrest, result, gone>>
    /\ Quiet

\* #removeBlobFiles: a file that cannot be removed is reported as retained
\* (EndBody).
DeleteBlob ==
    /\ Doing("delete", "unlink")
    /\ disk' = [disk EXCEPT ![kop.blob] = Missing]
    /\ gone' = gone \cup {kop.blob}
    /\ End
    /\ UNCHANGED <<jrest, result, index>>
    /\ Quiet

\* Defect: the verifier is not part of the batch.
ChangePasswordOfBlobs(old, new) ==
    /\ Choosing
    /\ disk[Verifier] = old
    /\ index # {}
    /\ \A b \in index : disk[b] = old
    /\ kop' = [kind |-> "change", blob |-> Verifier, old |-> old, new |-> new]
    /\ Begin([f \in index |-> new])
    /\ UNCHANGED <<index, kpc, gone>>
    /\ Quiet

\* changePassword: the verifier and every blob must open with the old password;
\* all of them are written again under the new one in one journaled batch.
ChangePassword(old, new) ==
    /\ Choosing
    /\ disk[Verifier] = old
    /\ index # {}
    /\ \A b \in index : disk[b] = old
    /\ kop' = [kind |-> "change", blob |-> Verifier, old |-> old, new |-> new]
    /\ Begin([f \in index \cup {Verifier} |-> new])
    /\ UNCHANGED <<index, kpc, gone>>
    /\ Quiet

Mutate ==
    \/ \E b \in Blob, pw \in Password : ChooseImport(b, pw) \/ ChooseDelete(b, pw)
    \/ \E old, new \in Password : ChangePassword(old, new)
    \/ ImportVerifier \/ ImportBlob \/ ImportIndex
    \/ DeleteIndex \/ DeleteBlob
    \/ EndBody

-----------------------------------------------------------------------------
(* The journal, seen from a mutation: it ends with the write it serves. *)

Settle == IF pc' = "idle" THEN kop' = NoOp /\ kpc' = "choose" ELSE UNCHANGED <<kop, kpc>>

JournalStep ==
    /\ holder = NoReader
    /\ \/ Acquire \/ Recovery \/ RecoveryFails
       \/ Write \/ StageFails \/ CatchFails \/ Kill
    /\ Settle
    /\ UNCHANGED <<index, gone>>
    /\ Quiet

-----------------------------------------------------------------------------
(* Readers: decryptKey, decryptSeed, revealMnemonic. *)

Step(r, l) == rpc' = [rpc EXCEPT ![r] = l]
StoreUnchanged == UNCHANGED <<jvars, kvars>>

\* resolveAccount has found the wallet in the index.
ReadStart(r, b, pw) ==
    /\ rpc[r] = "idle"
    /\ b \in index
    /\ ask' = [ask EXCEPT ![r] = [blob |-> b, pw |-> pw]]
    /\ Step(r, "check")
    /\ StoreUnchanged
    /\ UNCHANGED <<holder, got>>
    /\ Observe

\* Defect: a reader does not look for an interrupted password change.
ReadCheckNothing(r) ==
    /\ rpc[r] = "check"
    /\ Step(r, "blob")
    /\ StoreUnchanged
    /\ UNCHANGED <<holder, ask, got>>
    /\ Observe

\* #recovered: a journal on disk is finished under the lock first.
ReadCheck(r) ==
    /\ rpc[r] = "check"
    /\ Step(r, IF jnl # NoJournal THEN "wait" ELSE "blob")
    /\ StoreUnchanged
    /\ UNCHANGED <<holder, ask, got>>
    /\ Observe

ReadLock(r) ==
    /\ rpc[r] = "wait"
    /\ holder = NoReader
    /\ Acquire
    /\ holder' = r
    /\ Step(r, "recovering")
    /\ UNCHANGED <<kvars, ask, got>>
    /\ Observe

\* withLock gives up: 5 s, or the command deadline.
ReadLockTimeout(r) ==
    /\ rpc[r] = "wait"
    /\ pc # "idle"
    /\ Step(r, "blocked")
    /\ StoreUnchanged
    /\ UNCHANGED <<holder, ask, got>>
    /\ Observe

ReadRecover(r) ==
    /\ holder = r
    /\ Recovery
    /\ UNCHANGED <<kvars, holder, rpc, ask, got>>
    /\ Observe

ReadRecovered(r) ==
    /\ holder = r
    /\ Release
    /\ holder' = NoReader
    /\ Step(r, "blob")
    /\ UNCHANGED <<kvars, ask, got>>
    /\ Observe

ReadRecoveryFails(r) ==
    /\ holder = r
    /\ \/ RecoveryFails /\ Step(r, "blocked")
       \/ Kill /\ Step(r, "dead")
    /\ holder' = NoReader
    /\ UNCHANGED <<kvars, ask, got>>
    /\ Observe

\* The last fsync of its recovery threw after the journal was removed.
ReadBlocked(r) ==
    /\ holder = r
    /\ pc = "idle"
    /\ holder' = NoReader
    /\ Step(r, "blocked")
    /\ StoreUnchanged
    /\ UNCHANGED <<ask, got>>
    /\ Observe

ReadBlob(r) ==
    /\ rpc[r] = "blob"
    /\ got' = [got EXCEPT ![r] = disk[ask[r].blob]]
    /\ Step(r, IF disk[ask[r].blob] = Missing THEN "missing" ELSE "verifier")
    /\ StoreUnchanged
    /\ UNCHANGED <<holder, ask>>
    /\ Observe

\* #assertPassword({ createIfAbsent: false }) passes without a verifier; then
\* the blob read before is decrypted.
ReadDecrypt(r) ==
    /\ rpc[r] = "verifier"
    /\ Step(r, IF disk[Verifier] \in {Missing, ask[r].pw} /\ got[r] = ask[r].pw
                 THEN "secret" ELSE "authFailed")
    /\ StoreUnchanged
    /\ UNCHANGED <<holder, ask, got>>
    /\ Observe

Read(r) ==
    \/ \E b \in Blob, pw \in Password : ReadStart(r, b, pw)
    \/ ReadCheck(r) \/ ReadLock(r) \/ ReadLockTimeout(r) \/ ReadRecover(r)
    \/ ReadRecovered(r) \/ ReadRecoveryFails(r) \/ ReadBlocked(r)
    \/ ReadBlob(r) \/ ReadDecrypt(r)

-----------------------------------------------------------------------------
KNext ==
    \/ Mutate
    \/ JournalStep
    \/ \E r \in Reader : Read(r)

KSpec == KInit /\ [][KNext]_vars

-----------------------------------------------------------------------------
\* "A committed index never references missing data": at every instant, and so
\* after a kill at any step, the file of every indexed wallet exists.
IndexNeverDangling == \A b \in index : disk[b] # Missing

\* "A process killed at any step restarts with exactly one password": one
\* password opens the verifier and every indexed wallet, counting a committed
\* change as done.  In the body of a mutation the files themselves agree.
OnePassword ==
    \A b \in index : /\ View[b] = View[Verifier]
                     /\ View[b] # Missing

\* The wallets of the index, each with the password that opens it.
Opens == [b \in index |-> View[b]]

Promised == INSTANCE Vault WITH Wallet <- Blob, None <- Missing, opens <- Opens, master <- View[Verifier]

\* Whatever step a command is killed at: wallets appear and disappear as a
\* whole and under the master password, which changes for all at once and,
\* once it was fixed, is never lost.
OneVault == Promised!Spec

\* A reader fails for the password or for a missing file only when the password
\* was changed, or the wallet deleted, while it ran (or it was wrong from the
\* start): never because it met a password change half done.
ReaderServed ==
    \A r \in Reader : rpc[r] \in {"authFailed", "missing"} => ~stable[r]

\* A secret that delete reported as removed does not come back: neither its
\* file, nor a staged copy that a later recovery would move into place.
NoResurrection == \A b \in gone : disk[b] = Missing /\ next[b] = Absent

=============================================================================
