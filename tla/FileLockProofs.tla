---------------------------- MODULE FileLockProofs ----------------------------
(***************************************************************************)
(* Proofs about the lock file.  For any number of commands, whatever is    *)
(* killed or suspended and whatever was left behind, mutual exclusion      *)
(* holds as long as no live lock is taken over; and two commands alone,    *)
(* none of them suspended, never take over a live lock.                    *)
(***************************************************************************)
EXTENDS FileLock, TLAPS

\* From openSync to the end of `finally'.
Owning == {"enter", "run", "close"}

\* The file at the path is that of the command that created one and has not
\* removed it yet.
Owned == \A p \in Proc : pc[p] \in Owning => lock # NoFile /\ lock.owner = p

-----------------------------------------------------------------------------
\* A new lock file is not the absence of one.
LEMMA FileIsFile ==
    ASSUME NEW o \in Proc \cup {Leftover}, NEW i \in Pid
    PROVE  [owner |-> o, pid |-> i] # NoFile /\ [owner |-> o, pid |-> i] \in File
BY LockAssumption DEF File, Pid

LEMMA InitType == Init => TypeOK
<1> SUFFICES ASSUME Init PROVE TypeOK
  OBVIOUS
<1>1. lock = NoFile \/ lock = [owner |-> Leftover, pid |-> Leftover]
  BY DEF Init
<1>2. lock \in File \cup {NoFile}
  BY <1>1, FileIsFile DEF Pid
<1> QED
  BY <1>2 DEF Init, TypeOK, Pid

\* Every step keeps the types.
LEMMA StepType ==
    ASSUME TypeOK, [Next]_vars
    PROVE  TypeOK'
<1> USE DEF TypeOK, Goto, clocks, Working, Gone, Ended
<1>1. ASSUME NEW p \in Proc, Start(p) \/ CreateFails(p) \/ Exists(p) \/ Judge(p) \/ Poll(p)
                             \/ Finish(p) \/ Die(p)
      PROVE  TypeOK'
  BY <1>1 DEF Start, CreateFails, Exists, Judge, Poll, Finish, Die
<1>2. ASSUME NEW p \in Proc, Create(p)
      PROVE  TypeOK'
  BY <1>2, FileIsFile DEF Create, Pid
<1>3. ASSUME NEW p \in Proc, Stat(p)
      PROVE  TypeOK'
  <2>1. pc' \in [Proc -> {"idle"} \cup Working \cup Gone]
    BY <1>3 DEF Stat
  <2>2. seen' \in [Proc -> [pid : Pid, aged : BOOLEAN]]
    <3>1. seen' = seen \/ seen' = [seen EXCEPT ![p].aged = aged]
      BY <1>3 DEF Stat
    <3>2. [seen[p] EXCEPT !.aged = aged] \in [pid : Pid, aged : BOOLEAN]
      OBVIOUS
    <3> QED
      BY <3>1, <3>2
  <2>3. UNCHANGED <<lock, aged, clocks>>
    BY <1>3 DEF Stat
  <2> QED
    BY <2>1, <2>2, <2>3
<1>4. ASSUME NEW p \in Proc, Read(p)
      PROVE  TypeOK'
  <2>1. pc' \in [Proc -> {"idle"} \cup Working \cup Gone]
    BY <1>4 DEF Read
  <2>2. seen' \in [Proc -> [pid : Pid, aged : BOOLEAN]]
    <3>1. seen' = seen \/ (lock # NoFile /\ seen' = [seen EXCEPT ![p].pid = lock.pid])
      BY <1>4 DEF Read
    <3>2. lock # NoFile => lock.pid \in Pid
      BY DEF File
    <3>3. lock # NoFile => [seen[p] EXCEPT !.pid = lock.pid] \in [pid : Pid, aged : BOOLEAN]
      BY <3>2
    <3> QED
      BY <3>1, <3>3
  <2>3. UNCHANGED <<lock, aged, clocks>>
    BY <1>4 DEF Read
  <2> QED
    BY <2>1, <2>2, <2>3
<1>5. ASSUME NEW p \in Proc, TakeOver(p) \/ Refuse(p) \/ Release(p)
      PROVE  TypeOK'
  BY <1>5 DEF TakeOver, Refuse, Release
<1>6. ASSUME NEW p \in Proc, Enter(p)
      PROVE  TypeOK'
  BY <1>6, FileIsFile DEF Enter, File, Pid
<1>7. ASSUME NEW p \in Proc, WaitPasses(p) \/ DeadlinePasses(p)
      PROVE  TypeOK'
  BY <1>7 DEF WaitPasses, DeadlinePasses
<1>8. CASE Age
  BY <1>8 DEF Age
<1>9. CASE UNCHANGED vars
  BY <1>9 DEF vars
<1> QED
  BY <1>1, <1>2, <1>3, <1>4, <1>5, <1>6, <1>7, <1>8, <1>9 DEF Next, Step

\* The lock file and the progress of every command keep their types, for any
\* number of commands (AtomicFileStore.withLock).
THEOREM TypeCorrect == Spec => []TypeOK
BY InitType, StepType, PTL DEF Spec

-----------------------------------------------------------------------------
\* A command keeps the file it created until `finally', unless another command
\* takes a live lock over.
LEMMA StepOwned ==
    ASSUME TypeOK, Owned, [Next]_vars, TakesFromDead
    PROVE  Owned'
<1> USE DEF TypeOK, Owned, Owning, Goto, clocks
<1>1. ASSUME NEW p \in Proc, Start(p) \/ CreateFails(p) \/ Exists(p) \/ Stat(p) \/ Read(p)
                             \/ Judge(p) \/ Poll(p) \/ Finish(p) \/ Die(p)
      PROVE  Owned'
  BY <1>1 DEF Start, CreateFails, Exists, Stat, Read, Judge, Poll, Finish, Die
<1>2. ASSUME NEW p \in Proc, Create(p)
      PROVE  Owned'
  BY <1>2, FileIsFile DEF Create, Pid
<1>3. ASSUME NEW p \in Proc, TakeOver(p)
      PROVE  Owned'
  BY <1>3 DEF TakeOver, TakesFromDead, Running, Working
<1>4. ASSUME NEW p \in Proc, Refuse(p) \/ Release(p)
      PROVE  Owned'
  BY <1>4 DEF Refuse, Release
<1>5. ASSUME NEW p \in Proc, Enter(p)
      PROVE  Owned'
  <2>1. lock' = [lock EXCEPT !.pid = p] /\ lock \in File /\ lock.owner = p
    BY <1>5 DEF Enter
  <2>2. lock' = [owner |-> p, pid |-> p]
    BY <2>1 DEF File
  <2>3. \A q \in Proc : pc[q] \in Owning => q = p
    BY <1>5 DEF Enter
  <2> QED
    BY <1>5, <2>2, <2>3, FileIsFile DEF Enter, Pid
<1>6. ASSUME NEW p \in Proc, WaitPasses(p) \/ DeadlinePasses(p)
      PROVE  Owned'
  BY <1>6 DEF WaitPasses, DeadlinePasses
<1>7. CASE Age \/ UNCHANGED vars
  BY <1>7 DEF Age, vars
<1> QED
  BY <1>1, <1>2, <1>3, <1>4, <1>5, <1>6, <1>7 DEF Next, Step

\* Two commands never run their locked functions at the same time, and `finally'
\* removes nobody else's file, in every run in which no live lock is taken over:
\* for any number of commands, killed or suspended at any step, and with any
\* leftover.  The race of isStaleLock is the only way in.
THEOREM ExclusionUnlessTakenOver == Spec /\ TakeOverOnlyFromDead => []MutualExclusion
<1>1. Init => Owned
  BY DEF Init, Owned, Owning
<1>2. TypeOK /\ Owned /\ [Next]_vars /\ [TakesFromDead]_vars => Owned'
  <2> SUFFICES ASSUME TypeOK, Owned, [Next]_vars, [TakesFromDead]_vars
               PROVE  Owned'
    OBVIOUS
  <2>1. CASE UNCHANGED vars
    BY <2>1 DEF vars, Owned
  <2> QED
    BY <2>1, StepOwned
<1>3. Owned => MutualExclusion
  BY DEF Owned, Owning, MutualExclusion, Inside
<1> QED
  BY <1>1, <1>2, <1>3, TypeCorrect, PTL DEF Spec, TakeOverOnlyFromDead

-----------------------------------------------------------------------------
(* Two commands. *)

\* There are two commands at most, nothing was left behind, and none of them is
\* suspended for staleMs.
Pair ==
    /\ \A p, q, r \in Proc : p = q \/ q = r \/ p = r
    /\ ~StaleStart
    /\ ~MayAge

OthersGone(p) == \A q \in Proc : q # p => pc[q] \in Gone

\* What a waiter has read, and what it concludes, is of a command that is over:
\* a pid never runs again, and only a dead command's file grows old.
Judgement ==
    /\ lock # NoFile =>
          /\ lock.owner \in Proc
          /\ pc[lock.owner] \in Owning \cup Gone
          /\ lock.pid \in {NoPid, lock.owner}
          /\ aged => pc[lock.owner] \in Gone
    /\ \A p \in Proc :
          /\ pc[p] \in {"read", "judge"} /\ seen[p].aged => OthersGone(p)
          /\ pc[p] = "judge" /\ seen[p].pid # NoPid =>
                /\ seen[p].pid \in Proc \ {p}
                /\ pc[seen[p].pid] \in Owning \cup Gone
          /\ pc[p] = "takeover" => OthersGone(p)

\* A command that is over stays over.
LEMMA GoneStays ==
    ASSUME TypeOK, [Next]_vars, NEW q \in Proc
    PROVE  /\ pc[q] \in Gone => pc'[q] \in Gone
           /\ pc[q] \in Owning => pc'[q] \in Owning \cup Gone
<1> USE DEF TypeOK, Goto, clocks, Working, Gone, Ended, Owning
<1>1. ASSUME NEW p \in Proc, Start(p) \/ Step(p) \/ Die(p)
      PROVE  /\ pc[q] \in Gone => pc'[q] \in Gone
             /\ pc[q] \in Owning => pc'[q] \in Owning \cup Gone
  <2>1. CASE p # q
    <3>1. pc'[q] = pc[q]
      BY <1>1, <2>1 DEF Start, Step, Die, Create, CreateFails, Exists, Stat, Read, Judge, TakeOver,
                        Poll, Refuse, Enter, Finish, Release
    <3> QED
      BY <3>1
  <2>2. CASE p = q
    BY <1>1, <2>2 DEF Start, Step, Die, Create, CreateFails, Exists, Stat, Read, Judge, TakeOver,
                      Poll, Refuse, Enter, Finish, Release
  <2> QED
    BY <2>1, <2>2
<1>2. CASE UNCHANGED pc
  BY <1>2
<1> QED
  BY <1>1, <1>2 DEF Next, WaitPasses, DeadlinePasses, Age, vars

\* Each step of a waiter keeps what it reads true of the commands that are over.
LEMMA StepJudgement ==
    ASSUME TypeOK, Owned, Judgement, Pair, [Next]_vars
    PROVE  Judgement'
<1>1. \A q \in Proc : /\ pc[q] \in Gone => pc'[q] \in Gone
                      /\ pc[q] \in Owning => pc'[q] \in Owning \cup Gone
  BY GoneStays
<1>2. \A p \in Proc : OthersGone(p) => OthersGone(p)'
  BY <1>1 DEF OthersGone
<1> USE DEF TypeOK, Judgement, Goto, clocks
<1>3. ASSUME NEW p \in Proc, Start(p) \/ CreateFails(p) \/ Exists(p) \/ Poll(p) \/ Finish(p) \/ Die(p)
      PROVE  Judgement'
  BY <1>1, <1>2, <1>3 DEF Start, CreateFails, Exists, Poll, Finish, Die, Gone, Ended, Owning
<1>4. ASSUME NEW p \in Proc, Create(p)
      PROVE  Judgement'
  BY <1>1, <1>2, <1>4, FileIsFile DEF Create, Pid, Owning
<1>5. ASSUME NEW p \in Proc, Stat(p)
      PROVE  Judgement'
  <2>1. CASE lock = NoFile
    BY <1>1, <1>2, <1>5, <2>1 DEF Stat
  <2>2. CASE lock # NoFile
    <3>1. /\ UNCHANGED <<lock, aged>> /\ pc[p] = "stat"
          /\ pc' = [pc EXCEPT ![p] = "read"]
          /\ seen' = [seen EXCEPT ![p].aged = aged]
      BY <1>5, <2>2 DEF Stat
    <3>2. lock.owner # p
      BY <2>2, <3>1 DEF Owning, Gone, Ended
    <3>3. aged => OthersGone(p)
      BY <2>2, <3>2 DEF Pair, OthersGone
    <3>4. aged => OthersGone(p)'
      BY <1>2, <3>3
    <3>5. seen'[p].aged = aged /\ \A q \in Proc : q # p => seen'[q] = seen[q] /\ pc'[q] = pc[q]
      BY <3>1
    <3>6. pc'[p] = "read"
      BY <3>1
    <3> QED
      BY <1>1, <1>2, <3>1, <3>4, <3>5, <3>6
  <2> QED
    BY <2>1, <2>2
<1>6. ASSUME NEW p \in Proc, Read(p)
      PROVE  Judgement'
  <2>1. CASE lock = NoFile
    BY <1>1, <1>2, <1>6, <2>1 DEF Read
  <2>2. CASE lock # NoFile
    <3>1. /\ UNCHANGED <<lock, aged>> /\ pc[p] = "read"
          /\ pc' = [pc EXCEPT ![p] = "judge"]
          /\ seen' = [seen EXCEPT ![p].pid = lock.pid]
      BY <1>6, <2>2 DEF Read
    <3>2. lock.owner # p
      BY <2>2, <3>1 DEF Owning, Gone, Ended
    <3>3. /\ seen'[p].pid = lock.pid /\ seen'[p].aged = seen[p].aged
          /\ \A q \in Proc : q # p => seen'[q] = seen[q] /\ pc'[q] = pc[q]
      BY <3>1
    <3>4. pc'[p] = "judge"
      BY <3>1
    <3> QED
      BY <1>1, <1>2, <2>2, <3>1, <3>2, <3>3, <3>4
  <2> QED
    BY <2>1, <2>2
<1>7. ASSUME NEW p \in Proc, Judge(p)
      PROVE  Judgement'
  <2>1. ASSUME Stale(p) PROVE OthersGone(p)
    <3>1. CASE seen[p].pid = NoPid
      BY <1>7, <2>1, <3>1 DEF Judge, Stale
    <3>2. CASE seen[p].pid # NoPid
      <4>1. /\ seen[p].pid \in Proc \ {p} /\ pc[seen[p].pid] \in Owning \cup Gone
            /\ ~Running(seen[p].pid)
        BY <1>7, <2>1, <3>2 DEF Judge, Stale
      <4>2. pc[seen[p].pid] \in Gone
        BY <4>1 DEF Running, Working, Owning
      <4> QED
        BY <4>1, <4>2 DEF OthersGone, Pair
    <3> QED
      BY <3>1, <3>2
  <2>2. /\ UNCHANGED <<lock, aged, seen>>
        /\ \A q \in Proc : q # p => pc'[q] = pc[q]
        /\ pc'[p] \in {"takeover", "poll"}
        /\ pc'[p] = "takeover" => Stale(p)
    BY <1>7 DEF Judge
  <2> QED
    BY <1>1, <1>2, <2>1, <2>2
<1>8. ASSUME NEW p \in Proc, TakeOver(p) \/ Refuse(p) \/ Release(p)
      PROVE  Judgement'
  BY <1>1, <1>2, <1>8 DEF TakeOver, Refuse, Release
<1>9. ASSUME NEW p \in Proc, Enter(p)
      PROVE  Judgement'
  <2>1. lock # NoFile /\ lock.owner = p /\ lock' = [lock EXCEPT !.pid = p] /\ lock \in File
    BY <1>9 DEF Enter, Owned, Owning
  <2>2. lock' = [owner |-> p, pid |-> p]
    BY <2>1 DEF File
  <2>3. pc'[p] = "run" /\ ~aged /\ ~aged'
    BY <1>9, <2>1 DEF Enter, Gone, Ended
  <2> QED
    BY <1>1, <1>2, <1>9, <2>2, <2>3 DEF Enter, Owning
<1>10. CASE \/ \E p \in Proc : WaitPasses(p) \/ DeadlinePasses(p)
            \/ UNCHANGED vars
  BY <1>1, <1>2, <1>10 DEF WaitPasses, DeadlinePasses, vars
<1>11. CASE Age
  <2>1. lock # NoFile /\ ~Running(lock.owner) /\ UNCHANGED <<lock, pc, seen>>
    BY <1>11 DEF Age, Pair
  <2>2. pc[lock.owner] \in Gone
    BY <2>1 DEF Running, Working, Owning
  <2> QED
    BY <1>1, <1>2, <2>1, <2>2
<1> QED
  BY <1>3, <1>4, <1>5, <1>6, <1>7, <1>8, <1>9, <1>10, <1>11 DEF Next, Step

\* Two commands, with nothing left behind and none of them suspended, never
\* take a live lock over: what isStaleLock concludes is still true at unlinkSync,
\* since there is no third command to create a file in between.
THEOREM PairTakesFromDead == Pair => (Spec => TakeOverOnlyFromDead)
<1> SUFFICES ASSUME Pair PROVE Spec => TakeOverOnlyFromDead
  OBVIOUS
<1>1. Init => Owned /\ Judgement
  BY DEF Init, Owned, Owning, Judgement, Pair
<1>2. Judgement => TakesFromDead
  BY DEF Judgement, TakesFromDead, OthersGone, Gone, Ended, Running, Working
<1>3. TypeOK /\ Owned /\ Judgement /\ [Next]_vars => (Owned /\ Judgement)'
  BY <1>2, StepOwned, StepJudgement
<1> QED
  BY <1>1, <1>2, <1>3, TypeCorrect, PTL DEF Spec, TakeOverOnlyFromDead

\* Two commands never run their locked functions at the same time.
THEOREM PairExclusion == Pair => (Spec => []MutualExclusion)
BY PairTakesFromDead, ExclusionUnlessTakenOver, PTL
=============================================================================
