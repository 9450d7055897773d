----------------------------- MODULE LocalStore -----------------------------
(***************************************************************************)
(* What the models of the files under the wallet's root share: the files,  *)
(* the commands that have read them and not yet acted, and a count of the  *)
(* events that are bounded.  The wallet index, the schema migration, the   *)
(* books and the exports extend this module; one run checks them all, each *)
(* from its own initial states.                                            *)
(***************************************************************************)
EXTENDS Integers

CONSTANTS
    Commands,    \* the commands that run at the same time, as numbers
    FileFaults   \* kills and I/O errors in all

ASSUME LocalAssumption == 0 \notin Commands /\ FileFaults \in Nat

VARIABLES
    disk,   \* the files of one family; disk.kind names the family
    task,   \* what the running commands have read and where they are
    spent   \* how many of the bounded events have happened

localVars == <<disk, task, spent>>

Families == {"tron", "evm"}

\* A map with one key set.
With(f, key, value) == [k \in DOMAIN f \cup {key} |-> IF k = key THEN value ELSE f[k]]

\* No command is between its reads and its change.
Free == [op |-> "free"]

\* Where task is a function, of Commands: a command's steps.
At(c, pc) == task[c].pc = pc
Step(c, pc) == task' = [task EXCEPT ![c].pc = pc]
Fault == spent < FileFaults /\ spent' = spent + 1
=============================================================================
