------------------------------ MODULE FileLock ------------------------------
(***************************************************************************)
(* AtomicFileStore.withLock and isStaleLock: the lock file that serialises *)
(* every change of a stored file.  Each process is one one-shot command:   *)
(* it creates `<path>.lock` with open(O_EXCL), writes its pid into it,     *)
(* runs the locked function, and unlinks the file.  A waiter polls; it     *)
(* takes the file over when it judges it stale.                            *)
(*                                                                         *)
(* One action is one system call on the lock file, so that every           *)
(* interleaving of two processes at the file is a behaviour.               *)
(***************************************************************************)
EXTENDS Naturals, FiniteSets

CONSTANTS
    Proc,         \* the processes; their names are their pids
    Leftover,     \* a pid that is not running, named by a lock left behind
    NoPid,        \* the lock file is still empty: its owner has not written
    NoFile,       \* there is no lock file
    StaleStart,   \* TRUE: a lock of a killed command may exist at the start
    MayDie,       \* TRUE: a command may be killed at any step
    MayAge,       \* TRUE: a running process may be suspended for staleMs (30 s)
    DirWritable   \* FALSE: unlink is refused in the wallet directory

ASSUME LockAssumption ==
    /\ Leftover \notin Proc
    /\ NoPid \notin Proc \cup {Leftover}
    /\ NoFile \notin [owner : Proc \cup {Leftover}, pid : Proc \cup {Leftover, NoPid}]
    /\ {StaleStart, MayDie, MayAge, DirWritable} \subseteq BOOLEAN

VARIABLES
    lock,      \* the file: NoFile or [owner, pid]; owner is who created it
    aged,      \* TRUE when the present file is older than staleMs
    pc,        \* what each process does next
    seen,      \* what isStaleLock read: [pid, aged]
    short,     \* the command deadline ends before the 5 s lock wait
    waitOver,  \* Date.now() is past waitUntil
    expired    \* the command deadline has passed

vars == <<lock, aged, pc, seen, short, waitOver, expired>>

Pid == Proc \cup {Leftover, NoPid}
File == [owner : Proc \cup {Leftover}, pid : Pid]

\* Ends of a command.  "acquireFailed" is a raw file system error: the ENOENT
\* of readFileSync on a file that vanished after statSync, or an
\* openSync error other than EEXIST.
Ended == {"done", "lockTimeout", "deadline", "acquireFailed"}
Working == {"open", "stat", "read", "judge", "takeover", "poll", "enter", "run", "close"}
Gone == Ended \cup {"dead"}

TypeOK ==
    /\ lock \in File \cup {NoFile}
    /\ aged \in BOOLEAN
    /\ pc \in [Proc -> {"idle"} \cup Working \cup Gone]
    /\ seen \in [Proc -> [pid : Pid, aged : BOOLEAN]]
    /\ short \in [Proc -> BOOLEAN]
    /\ waitOver \in [Proc -> BOOLEAN]
    /\ expired \in [Proc -> BOOLEAN]

\* kill(pid, 0) succeeds for the process: it has started and has not exited.
Running(q) == q \in Proc /\ pc[q] \in Working

Init ==
    /\ lock \in {NoFile} \cup (IF StaleStart THEN {[owner |-> Leftover, pid |-> Leftover]} ELSE {})
    /\ aged = FALSE
    /\ pc = [p \in Proc |-> "idle"]
    /\ seen = [p \in Proc |-> [pid |-> NoPid, aged |-> FALSE]]
    /\ short \in [Proc -> BOOLEAN]
    /\ waitOver = [p \in Proc |-> FALSE]
    /\ expired = [p \in Proc |-> FALSE]

Goto(p, l) == pc' = [pc EXCEPT ![p] = l]
clocks == <<short, waitOver, expired>>

-----------------------------------------------------------------------------
Start(p) ==
    /\ pc[p] = "idle"
    /\ Goto(p, "open")
    /\ UNCHANGED <<lock, aged, seen, clocks>>

\* openSync(lock, "wx") succeeds.
Create(p) ==
    /\ pc[p] = "open"
    /\ lock = NoFile
    /\ DirWritable
    /\ lock' = [owner |-> p, pid |-> NoPid]
    /\ aged' = FALSE
    /\ Goto(p, "enter")
    /\ UNCHANGED <<seen, clocks>>

\* openSync throws anything but EEXIST (EACCES, EMFILE, ENOSPC): rethrown.
CreateFails(p) ==
    /\ pc[p] = "open"
    /\ lock = NoFile
    /\ Goto(p, "acquireFailed")
    /\ UNCHANGED <<lock, aged, seen, clocks>>

\* openSync throws EEXIST; isStaleLock starts.
Exists(p) ==
    /\ pc[p] = "open"
    /\ lock # NoFile
    /\ Goto(p, "stat")
    /\ UNCHANGED <<lock, aged, seen, clocks>>

\* statSync: a file that is gone is not stale.
Stat(p) ==
    /\ pc[p] = "stat"
    /\ IF lock = NoFile
         THEN /\ Goto(p, "poll")
              /\ UNCHANGED seen
         ELSE /\ seen' = [seen EXCEPT ![p].aged = aged]
              /\ Goto(p, "read")
    /\ UNCHANGED <<lock, aged, clocks>>

\* readFileSync is outside the try: a file that vanished since statSync ends
\* the command with the raw ENOENT.
Read(p) ==
    /\ pc[p] = "read"
    /\ IF lock = NoFile
         THEN /\ Goto(p, "acquireFailed")
              /\ UNCHANGED seen
         ELSE /\ seen' = [seen EXCEPT ![p].pid = lock.pid]
              /\ Goto(p, "judge")
    /\ UNCHANGED <<lock, aged, clocks>>

\* Defect: an empty file is taken for the leftover of a killed command.
StaleWhenEmpty(p) == seen[p].pid = NoPid \/ ~Running(seen[p].pid)

\* A file with a pid is stale when kill(pid, 0) says ESRCH; an empty file is
\* stale by its age.
Stale(p) ==
    IF seen[p].pid = NoPid THEN seen[p].aged ELSE ~Running(seen[p].pid)

Judge(p) ==
    /\ pc[p] = "judge"
    /\ Goto(p, IF Stale(p) THEN "takeover" ELSE "poll")
    /\ UNCHANGED <<lock, aged, seen, clocks>>

\* unlinkSync(lock) with its error swallowed, then `continue`: the file that
\* is removed is the one now at the path.
TakeOver(p) ==
    /\ pc[p] = "takeover"
    /\ lock' = IF DirWritable THEN NoFile ELSE lock
    /\ aged' = (aged /\ ~DirWritable)
    /\ Goto(p, "open")
    /\ UNCHANGED <<seen, clocks>>

\* Defect: the retry loop has no time limit.
PollForever(p) ==
    /\ pc[p] = "poll"
    /\ Goto(p, "open")
    /\ UNCHANGED <<lock, aged, seen, clocks>>

\* Not stale: fail when the wait is over, else sleep 25 ms and retry.
Poll(p) ==
    /\ pc[p] = "poll"
    /\ Goto(p, IF ~waitOver[p] THEN "open" ELSE IF short[p] THEN "deadline" ELSE "lockTimeout")
    /\ UNCHANGED <<lock, aged, seen, clocks>>

\* deadline.assertActive() under the lock: the finally still unlinks.
Refuse(p) ==
    /\ pc[p] = "enter"
    /\ expired[p]
    /\ lock' = NoFile
    /\ aged' = FALSE
    /\ Goto(p, "deadline")
    /\ UNCHANGED <<seen, clocks>>

\* writeSync(fd, pid) goes to the file the process created, which another
\* process may have unlinked meanwhile; then fn() starts.
Enter(p) ==
    /\ pc[p] = "enter"
    /\ ~expired[p]
    /\ lock' = IF lock # NoFile /\ lock.owner = p THEN [lock EXCEPT !.pid = p] ELSE lock
    /\ Goto(p, "run")
    /\ UNCHANGED <<aged, seen, clocks>>

\* fn() returns or throws.
Finish(p) ==
    /\ pc[p] = "run"
    /\ Goto(p, "close")
    /\ UNCHANGED <<lock, aged, seen, clocks>>

\* finally: unlink whatever is at the path; the process then exits.
Release(p) ==
    /\ pc[p] = "close"
    /\ lock' = NoFile
    /\ aged' = FALSE
    /\ Goto(p, "done")
    /\ UNCHANGED <<seen, clocks>>

-----------------------------------------------------------------------------
\* The environment: kills, suspension, and the two clocks.
Die(p) ==
    /\ MayDie
    /\ pc[p] \in Working
    /\ Goto(p, "dead")
    /\ UNCHANGED <<lock, aged, seen, clocks>>

\* A lock file grows old when its owner is dead, or suspended.
Age ==
    /\ lock # NoFile
    /\ MayAge \/ ~Running(lock.owner)
    /\ ~aged
    /\ aged' = TRUE
    /\ UNCHANGED <<lock, pc, seen, clocks>>

WaitPasses(p) ==
    /\ pc[p] \in Working
    /\ ~waitOver[p]
    /\ waitOver' = [waitOver EXCEPT ![p] = TRUE]
    /\ expired' = [expired EXCEPT ![p] = @ \/ short[p]]
    /\ UNCHANGED <<lock, aged, pc, seen, short>>

DeadlinePasses(p) ==
    /\ pc[p] \in Working
    /\ waitOver[p]
    /\ ~expired[p]
    /\ expired' = [expired EXCEPT ![p] = TRUE]
    /\ UNCHANGED <<lock, aged, pc, seen, short, waitOver>>

Step(p) ==
    \/ Create(p) \/ CreateFails(p) \/ Exists(p) \/ Stat(p) \/ Read(p) \/ Judge(p) \/ TakeOver(p)
    \/ Poll(p) \/ Refuse(p) \/ Enter(p) \/ Finish(p) \/ Release(p)

Next ==
    \/ \E p \in Proc : Start(p) \/ Step(p) \/ Die(p) \/ WaitPasses(p) \/ DeadlinePasses(p)
    \/ Age

Spec == Init /\ [][Next]_vars

\* The operating system schedules every running process, and time passes.
FairSpec == Spec /\ \A p \in Proc : WF_vars(Step(p)) /\ WF_vars(WaitPasses(p))

-----------------------------------------------------------------------------
Inside(p) == pc[p] \in {"run", "close"}

\* Two commands never run their locked functions at the same time, which is
\* what every locked read-modify-write of a stored file relies on; the lock
\* file is the running command's own, so `finally' removes nobody else's.
MutualExclusion ==
    \A p \in Proc : Inside(p) =>
        /\ lock # NoFile /\ lock.owner = p
        /\ \A q \in Proc : Inside(q) => p = q

\* A command that waits for the lock ends its wait: it runs, or it fails within
\* its 5 s and its deadline (lockWaitMs and remainingMs of withLock).
LockWaitEnds == \A p \in Proc : (pc[p] = "open") ~> (Inside(p) \/ pc[p] \in Gone)

\* A step of a process that has judged the file stale removes no lock file that
\* another, running process created and still uses.
TakesFromDead ==
    \A p, q \in Proc :
        p # q /\ lock # NoFile /\ lock.owner = q /\ pc[p] = "takeover" /\ lock' = NoFile
            => ~Running(q)

\* "A lock is taken over only when the process that holds it is dead, never
\* because of its age".
TakeOverOnlyFromDead == [][TakesFromDead]_vars
=============================================================================
