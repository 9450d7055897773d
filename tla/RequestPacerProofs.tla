------------------------- MODULE RequestPacerProofs -------------------------
(***************************************************************************)
(* Proofs about the request pacer: for any number of requests and any      *)
(* limits, the permits out are counted exactly and stay within the cap,    *)
(* none is lost, and no two requests share a start slot.                   *)
(***************************************************************************)
EXTENDS RequestPacer, FiniteSetTheorems, SequenceTheorems, TLAPS

PermitTypes ==
    /\ st \in [Requests -> Stages]
    /\ queue \in Seq(Requests)
    /\ active \in Int

\* A request waits only while every permit is out.
WaitsForPermit == queue # <<>> => active = Cap

PermitInv == PermitTypes /\ WithinCap /\ WaitsForPermit /\ QueueIsWaiters

\* The next free slot lies an interval behind every slot claimed.
SlotsBehind == \A r \in Requests : start[r] # Unclaimed => start[r] + MinInterval <= nextStart

IInv == TypeOK /\ PermitInv /\ SlotsBehind /\ StartsSpaced

-----------------------------------------------------------------------------
\* The cap is at least one permit.
LEMMA CapType == Cap \in Nat \ {0}
BY PacerAssumption DEF Cap

\* The requests that hold a permit can be counted.
LEMMA HoldersFinite == IsFiniteSet(Holders) /\ Cardinality(Holders) \in Nat
<1>1. Holders \in SUBSET Requests
  BY DEF Holders
<1>2. IsFiniteSet(Holders)
  BY <1>1, PacerAssumption, FS_Subset
<1> QED
  BY <1>2, FS_CardinalityType

\* Requests that leave the queue or hold their permit through a step that
\* changes neither the queue nor the counter.
LEMMA HoldingKeeps ==
    ASSUME PermitInv, NEW r \in Requests, st[r] \in Holding, NEW s \in Holding,
           Goes(r, s), UNCHANGED <<queue, active>>
    PROVE  PermitInv'
<1>1. st' = [st EXCEPT ![r] = s] /\ s \in Stages
  BY DEF Goes, Holding, Stages
<1>2. PermitTypes'
  BY <1>1 DEF PermitInv, PermitTypes
<1>3. Holders' = Holders
  BY <1>1 DEF PermitInv, PermitTypes, Holders
<1>4. \A q \in Requests : st'[q] = "queued" <=> st[q] = "queued"
  BY <1>1 DEF PermitInv, PermitTypes, Holding
<1>5. QueueIsWaiters'
  BY <1>4 DEF PermitInv, QueueIsWaiters
<1> QED
  BY <1>2, <1>3, <1>5 DEF PermitInv, WithinCap, WaitsForPermit

\* A released permit is handed to the head of the queue or taken back.
LEMMA ReleaseKeeps ==
    ASSUME PermitInv, NEW r \in Requests, st[r] \in Holding,
           NEW s \in {"done", "stopped"}, Release(r, s)
    PROVE  PermitInv'
<1> USE DEF PermitInv, PermitTypes
<1>1. r \in Holders /\ s \in Stages /\ s \notin Holding /\ s # "queued"
  BY DEF Holders, Holding, Stages
<1>2. CASE queue = <<>>
  <2>1. st' = [st EXCEPT ![r] = s] /\ active' = active - 1 /\ queue' = queue
    BY <1>2 DEF Release, Goes
  <2>2. Holders' = Holders \ {r}
    BY <2>1, <1>1 DEF Holders
  <2>3. Cardinality(Holders') = Cardinality(Holders) - 1
    BY <2>2, <1>1, HoldersFinite, FS_RemoveElement
  <2>4. WithinCap'
    BY <2>1, <2>3, CapType DEF WithinCap
  <2>5. \A q \in Requests : st'[q] = "queued" <=> st[q] = "queued"
    BY <2>1, <1>1 DEF Holding
  <2>6. QueueIsWaiters'
    BY <2>1, <2>5 DEF QueueIsWaiters
  <2> QED
    BY <1>1, <1>2, <2>1, <2>4, <2>6 DEF WaitsForPermit
<1>3. CASE queue # <<>>
  <2> DEFINE h == Head(queue)
  <2>1. /\ h \in Requests /\ Tail(queue) \in Seq(Requests)
        /\ Len(queue) \in Nat \ {0} /\ h = queue[1]
        /\ Len(Tail(queue)) = Len(queue) - 1
        /\ \A i \in 1 .. Len(Tail(queue)) : Tail(queue)[i] = queue[i + 1]
    BY <1>3, HeadTailProperties, EmptySeq
  <2>2. st[h] = "queued" /\ h # r
    BY <2>1 DEF QueueIsWaiters, Holding
  <2>3. /\ st' = [st EXCEPT ![r] = s, ![h] = "granted"]
        /\ queue' = Tail(queue) /\ active' = active
    BY <1>3, <2>1, <2>2 DEF Release
  <2>4. h \notin Holders
    BY <2>2 DEF Holders, Holding
  <2>5. Holders' = (Holders \ {r}) \cup {h}
    <3>1. st'[h] = "granted" /\ st'[r] = s
      BY <2>1, <2>2, <2>3
    <3>2. \A q \in Requests \ {r, h} : st'[q] = st[q]
      BY <2>1, <2>3
    <3> QED
      BY <1>1, <2>1, <2>2, <3>1, <3>2 DEF Holders, Holding
  <2>6. /\ IsFiniteSet(Holders \ {r})
        /\ Cardinality(Holders \ {r}) = Cardinality(Holders) - 1
    BY <1>1, HoldersFinite, FS_RemoveElement
  <2>7. Cardinality(Holders') = Cardinality(Holders)
    <3>1. h \notin Holders \ {r}
      BY <2>4
    <3>2. Cardinality((Holders \ {r}) \cup {h}) = Cardinality(Holders \ {r}) + 1
      BY <2>6, <3>1, FS_AddElement
    <3> QED
      BY <2>5, <2>6, <3>2, HoldersFinite
  <2>8. WithinCap'
    BY <2>3, <2>7 DEF WithinCap
  <2>9. QueueIsWaiters'
    <3>1. ASSUME NEW q \in Requests
          PROVE  st'[q] = "queued" <=> \E i \in 1 .. Len(queue') : queue'[i] = q
      <4>1. st'[q] = "queued" <=> st[q] = "queued" /\ q # h
        BY <1>1, <2>1, <2>2, <2>3 DEF Holding
      <4>2. st[q] = "queued" <=> \E i \in 1 .. Len(queue) : queue[i] = q
        BY DEF QueueIsWaiters
      <4>3. \A i \in 1 .. Len(queue) : queue[i] = h <=> i = 1
        BY <2>1 DEF QueueIsWaiters
      <4>4. (\E i \in 1 .. Len(queue) : queue[i] = q) /\ q # h
                <=> \E i \in 1 .. Len(queue) - 1 : queue[i + 1] = q
        <5>1. ASSUME NEW i \in 1 .. Len(queue), queue[i] = q, q # h
              PROVE  \E j \in 1 .. Len(queue) - 1 : queue[j + 1] = q
          <6>1. i - 1 \in 1 .. Len(queue) - 1 /\ queue[(i - 1) + 1] = q
            BY <2>1, <4>3, <5>1
          <6> QED
            BY <6>1
        <5>2. ASSUME NEW i \in 1 .. Len(queue) - 1, queue[i + 1] = q
              PROVE  (\E j \in 1 .. Len(queue) : queue[j] = q) /\ q # h
          <6>1. i + 1 \in 1 .. Len(queue) /\ i + 1 # 1
            BY <2>1
          <6> QED
            BY <4>3, <5>2, <6>1
        <5> QED
          BY <5>1, <5>2
      <4> QED
        BY <2>1, <2>3, <4>1, <4>2, <4>4
    <3>2. \A i, j \in 1 .. Len(queue') : queue'[i] = queue'[j] => i = j
      BY <2>1, <2>3 DEF QueueIsWaiters
    <3> QED
      BY <3>1, <3>2 DEF QueueIsWaiters
  <2>10. PermitTypes'
    BY <1>1, <2>1, <2>3 DEF Stages
  <2>11. WaitsForPermit'
    BY <1>3, <2>3 DEF WaitsForPermit
  <2> QED
    BY <2>8, <2>9, <2>10, <2>11
<1> QED
  BY <1>2, <1>3

\* A call takes a free permit or joins the queue.
LEMMA CallKeeps ==
    ASSUME PermitInv, NEW r \in Requests, Call(r)
    PROVE  PermitInv'
<1> USE DEF PermitInv, PermitTypes
<1>1. st[r] = "idle" /\ r \notin Holders
  BY DEF Call, Holders, Holding
<1>2. CASE aborted[r] /\ Goes(r, "stopped") /\ UNCHANGED <<queue, active>>
  <2>1. Holders' = Holders
    BY <1>1, <1>2 DEF Goes, Holders, Holding
  <2>2. \A q \in Requests : st'[q] = "queued" <=> st[q] = "queued"
    BY <1>1, <1>2 DEF Goes
  <2>3. QueueIsWaiters'
    BY <1>2, <2>2 DEF QueueIsWaiters
  <2> QED
    BY <1>2, <2>1, <2>3 DEF Goes, Stages, WithinCap, WaitsForPermit
<1>3. CASE /\ active < Cap /\ active' = active + 1
           /\ Goes(r, "granted") /\ UNCHANGED queue
  <2>1. Holders' = Holders \cup {r}
    BY <1>1, <1>3 DEF Goes, Holders, Holding
  <2>2. Cardinality(Holders') = Cardinality(Holders) + 1
    BY <1>1, <2>1, HoldersFinite, FS_AddElement
  <2>3. WithinCap'
    BY <1>3, <2>2, CapType DEF WithinCap
  <2>4. \A q \in Requests : st'[q] = "queued" <=> st[q] = "queued"
    BY <1>1, <1>3 DEF Goes
  <2>5. QueueIsWaiters'
    BY <1>3, <2>4 DEF QueueIsWaiters
  <2>6. queue = <<>>
    BY <1>3, CapType DEF WaitsForPermit
  <2> QED
    BY <1>3, <2>3, <2>5, <2>6 DEF Goes, Stages, WaitsForPermit
<1>4. CASE /\ active >= Cap /\ queue' = Append(queue, r)
           /\ Goes(r, "queued") /\ UNCHANGED active
  <2>1. Holders' = Holders
    BY <1>1, <1>4 DEF Goes, Holders, Holding
  <2>2. /\ queue' \in Seq(Requests) /\ Len(queue) \in Nat
        /\ Len(queue') = Len(queue) + 1
        /\ \A i \in 1 .. Len(queue) : queue'[i] = queue[i]
        /\ queue'[Len(queue) + 1] = r
    BY <1>4, AppendProperties
  <2>3. \A i \in 1 .. Len(queue) : queue[i] # r
    BY <1>1 DEF QueueIsWaiters
  <2>4. st' = [st EXCEPT ![r] = "queued"]
    BY <1>4 DEF Goes
  <2>5. QueueIsWaiters'
    <3>1. ASSUME NEW q \in Requests
          PROVE  st'[q] = "queued" <=> \E i \in 1 .. Len(queue') : queue'[i] = q
      <4>1. st[q] = "queued" <=> \E i \in 1 .. Len(queue) : queue[i] = q
        BY DEF QueueIsWaiters
      <4>2. CASE q = r
        BY <2>2, <2>4, <4>2
      <4>3. CASE q # r
        <5>1. st'[q] = st[q]
          BY <2>4, <4>3
        <5>2. ASSUME NEW i \in 1 .. Len(queue'), queue'[i] = q
              PROVE  i \in 1 .. Len(queue) /\ queue[i] = q
          BY <2>2, <4>3, <5>2
        <5>3. ASSUME NEW i \in 1 .. Len(queue), queue[i] = q
              PROVE  i \in 1 .. Len(queue') /\ queue'[i] = q
          BY <2>2, <5>3
        <5> QED
          BY <4>1, <5>1, <5>2, <5>3
      <4> QED
        BY <4>2, <4>3
    <3>2. \A i, j \in 1 .. Len(queue') : queue'[i] = queue'[j] => i = j
      BY <2>2, <2>3 DEF QueueIsWaiters
    <3> QED
      BY <3>1, <3>2 DEF QueueIsWaiters
  <2>6. active' = Cap
    BY <1>4, CapType DEF WithinCap
  <2> QED
    BY <1>4, <2>1, <2>2, <2>4, <2>5, <2>6 DEF Stages, WithinCap, WaitsForPermit
<1> QED
  BY <1>2, <1>3, <1>4 DEF Call

\* A sequence without its i-th element.
LEMMA RemoveAtProperties ==
    ASSUME NEW S, NEW q \in Seq(S), NEW i \in 1 .. Len(q)
    PROVE  LET p == SubSeq(q, 1, i - 1) \o SubSeq(q, i + 1, Len(q))
           IN  /\ p \in Seq(S)
               /\ Len(p) = Len(q) - 1
               /\ \A j \in 1 .. Len(q) - 1 : p[j] = IF j < i THEN q[j] ELSE q[j + 1]
<1> DEFINE a == SubSeq(q, 1, i - 1)
           b == SubSeq(q, i + 1, Len(q))
<1>1. Len(q) \in Nat /\ i \in Nat \ {0} /\ i <= Len(q) /\ \A j \in 1 .. Len(q) : q[j] \in S
  OBVIOUS
<1>2. /\ a \in Seq(S) /\ Len(a) = i - 1
      /\ \A j \in 1 .. i - 1 : a[j] = q[j]
  <2>1. \A j \in 1 .. i - 1 : q[j] \in S
    BY <1>1
  <2>2. /\ a \in Seq(S)
        /\ Len(a) = IF 1 <= i - 1 THEN (i - 1) - 1 + 1 ELSE 0
        /\ \A j \in 1 .. (i - 1) - 1 + 1 : a[j] = q[1 + j - 1]
    BY <1>1, <2>1, SubSeqProperties
  <2> HIDE DEF a
  <2> QED
    BY <1>1, <2>2
<1>3. /\ b \in Seq(S) /\ Len(b) = Len(q) - i
      /\ \A j \in 1 .. Len(q) - i : b[j] = q[i + j]
  <2>1. \A j \in i + 1 .. Len(q) : q[j] \in S
    BY <1>1
  <2>2. /\ b \in Seq(S)
        /\ Len(b) = IF i + 1 <= Len(q) THEN Len(q) - (i + 1) + 1 ELSE 0
        /\ \A j \in 1 .. Len(q) - (i + 1) + 1 : b[j] = q[i + 1 + j - 1]
    BY <1>1, <2>1, SubSeqProperties
  <2> HIDE DEF b
  <2> QED
    BY <1>1, <2>2
<1> HIDE DEF a, b
<1>4. /\ a \o b \in Seq(S)
      /\ Len(a \o b) = Len(a) + Len(b)
      /\ \A j \in 1 .. Len(a) + Len(b) :
            (a \o b)[j] = IF j <= Len(a) THEN a[j] ELSE b[j - Len(a)]
  BY <1>2, <1>3, ConcatProperties
<1>5. ASSUME NEW j \in 1 .. Len(q) - 1
      PROVE  (a \o b)[j] = IF j < i THEN q[j] ELSE q[j + 1]
  <2>1. CASE j < i
    BY <1>1, <1>2, <1>3, <1>4, <2>1
  <2>2. CASE j >= i
    <3>1. j - (i - 1) \in 1 .. Len(q) - i /\ i + (j - (i - 1)) = j + 1
      BY <1>1, <2>2
    <3>3. b[j - (i - 1)] = q[j + 1]
      <4>1. \A k \in 1 .. Len(q) - i : b[k] = q[i + k]
        BY <1>3
      <4> QED
        BY <3>1, <4>1
    <3>4. ~(j < i)
      BY <1>1, <2>2
    <3>2. (a \o b)[j] = b[j - (i - 1)]
      <4>1. Len(a) = i - 1 /\ Len(b) = Len(q) - i /\ i \in Nat /\ Len(q) \in Nat
        BY <1>1, <1>2, <1>3
      <4>2. j \in 1 .. Len(a) + Len(b) /\ ~(j <= Len(a))
        BY <2>2, <4>1
      <4>3. (a \o b)[j] = b[j - Len(a)]
        BY <1>4, <4>2
      <4> QED
        BY <4>1, <4>3
    <3> QED
      BY <3>2, <3>3, <3>4
  <2>3. j < i \/ j >= i
    BY <1>1
  <2> QED
    BY <2>1, <2>2, <2>3
<1>6. Len(a \o b) = Len(q) - 1
  BY <1>1, <1>2, <1>3, <1>4
<1> QED
  BY <1>4, <1>5, <1>6 DEF a, b

\* An aborted waiter leaves the queue; nothing else changes hands.
LEMMA AbortKeeps ==
    ASSUME PermitInv, NEW r \in Requests, Abort(r)
    PROVE  PermitInv'
<1> USE DEF PermitInv, PermitTypes
<1>1. CASE st[r] # "queued"
  BY <1>1 DEF Abort, WithinCap, Holders, WaitsForPermit, QueueIsWaiters
<1>2. CASE st[r] = "queued"
  <2>1. st' = [st EXCEPT ![r] = "stopped"] /\ active' = active
    BY <1>2 DEF Abort, Goes
  <2>2. PICK i \in 1 .. Len(queue) :
            /\ queue[i] = r
            /\ queue' = SubSeq(queue, 1, i - 1) \o SubSeq(queue, i + 1, Len(queue))
    BY <1>2 DEF Abort
  <2>3. /\ queue' \in Seq(Requests) /\ Len(queue') = Len(queue) - 1
        /\ \A j \in 1 .. Len(queue) - 1 :
              queue'[j] = IF j < i THEN queue[j] ELSE queue[j + 1]
    BY <2>2, RemoveAtProperties
  <2>4. Len(queue) \in Nat /\ i \in Nat \ {0} /\ i <= Len(queue)
    OBVIOUS
  <2>5. Holders' = Holders
    BY <1>2, <2>1 DEF Holders, Holding
  <2>6. \A j \in 1 .. Len(queue) : queue[j] = r <=> j = i
    BY <2>2 DEF QueueIsWaiters
  <2>7. QueueIsWaiters'
    <3>1. ASSUME NEW q \in Requests
          PROVE  st'[q] = "queued" <=> \E j \in 1 .. Len(queue') : queue'[j] = q
      <4>1. st'[q] = "queued" <=> st[q] = "queued" /\ q # r
        BY <2>1
      <4>2. st[q] = "queued" <=> \E j \in 1 .. Len(queue) : queue[j] = q
        BY DEF QueueIsWaiters
      <4>3. ASSUME NEW j \in 1 .. Len(queue), queue[j] = q, q # r
            PROVE  \E k \in 1 .. Len(queue') : queue'[k] = q
        <5>1. j # i
          BY <2>6, <4>3
        <5>2. CASE j < i
          BY <2>3, <2>4, <4>3, <5>2
        <5>3. CASE j > i
          <6>1. j - 1 \in 1 .. Len(queue) - 1 /\ ~(j - 1 < i) /\ (j - 1) + 1 = j
            BY <2>4, <5>3
          <6>2. queue'[j - 1] = q
            BY <2>3, <4>3, <6>1
          <6> QED
            BY <2>3, <6>1, <6>2
        <5> QED
          BY <2>4, <5>1, <5>2, <5>3
      <4>4. ASSUME NEW k \in 1 .. Len(queue'), queue'[k] = q
            PROVE  (\E j \in 1 .. Len(queue) : queue[j] = q) /\ q # r
        <5>1. CASE k < i
          BY <2>3, <2>4, <2>6, <4>4, <5>1
        <5>2. CASE k >= i
          <6>1. k + 1 \in 1 .. Len(queue) /\ k + 1 # i /\ queue[k + 1] = q
            BY <2>3, <2>4, <4>4, <5>2
          <6> QED
            BY <2>6, <6>1
        <5> QED
          BY <2>3, <2>4, <5>1, <5>2
      <4> QED
        BY <4>1, <4>2, <4>3, <4>4
    <3>2. \A j, k \in 1 .. Len(queue') : queue'[j] = queue'[k] => j = k
      BY <2>3, <2>4 DEF QueueIsWaiters
    <3> QED
      BY <3>1, <3>2 DEF QueueIsWaiters
  <2>8. queue # <<>>
    BY <2>4
  <2> QED
    BY <2>1, <2>3, <2>5, <2>7, <2>8 DEF Stages, WithinCap, WaitsForPermit
<1> QED
  BY <1>1, <1>2

-----------------------------------------------------------------------------
\* Every step of the pacer keeps the permits accounted for.
LEMMA PermitStep ==
    ASSUME PermitInv, [Next]_vars
    PROVE  PermitInv'
<1>1. CASE UNCHANGED <<st, queue, active>>
  BY <1>1 DEF PermitInv, PermitTypes, WithinCap, Holders, WaitsForPermit, QueueIsWaiters
<1>2. CASE Tick
  BY <1>1, <1>2 DEF Tick
<1>3. ASSUME NEW r \in Requests, Call(r)
      PROVE  PermitInv'
  BY <1>3, CallKeeps
<1>4. ASSUME NEW r \in Requests, AwaitStart(r)
      PROVE  PermitInv'
  <2>1. st[r] \in Holding
    BY <1>4 DEF AwaitStart, Holding
  <2>2. CASE Claim(r)
    BY <2>1, <2>2, HoldingKeeps DEF Claim, Holding
  <2>3. CASE Refused(r)
    BY <2>1, <2>3, ReleaseKeeps DEF Refused
  <2>4. CASE Delay(r)
    BY <2>1, <2>4, HoldingKeeps DEF Delay, Holding
  <2>5. CASE DelayRefused(r)
    BY <2>1, <2>5, ReleaseKeeps DEF DelayRefused
  <2> QED
    BY <1>4, <2>2, <2>3, <2>4, <2>5 DEF AwaitStart
<1>5. ASSUME NEW r \in Requests, Send(r)
      PROVE  PermitInv'
  <2>1. st[r] \in Holding
    BY <1>5 DEF Send, Holding
  <2>2. CASE over[r]
    BY <1>5, <2>1, <2>2, ReleaseKeeps DEF Send
  <2>3. CASE ~over[r]
    BY <1>5, <2>1, <2>3, HoldingKeeps DEF Send, Holding
  <2> QED
    BY <2>2, <2>3
<1>6. ASSUME NEW r \in Requests, Finish(r) \/ DelayStopped(r)
      PROVE  PermitInv'
  BY <1>6, ReleaseKeeps DEF Finish, DelayStopped, Holding
<1>7. ASSUME NEW r \in Requests, Abort(r)
      PROVE  PermitInv'
  BY <1>7, AbortKeeps
<1>8. ASSUME NEW r \in Requests, Expire(r)
      PROVE  PermitInv'
  BY <1>1, <1>8 DEF Expire
<1> QED
  BY <1>1, <1>2, <1>3, <1>4, <1>5, <1>6, <1>7, <1>8 DEF Next, Step, vars

\* Only a claim changes the schedule, and it is made at a free slot.
LEMMA ScheduleStep ==
    ASSUME TypeOK, PermitInv, SlotsBehind, StartsSpaced, [Next]_vars
    PROVE  TypeOK' /\ SlotsBehind' /\ StartsSpaced'
<1> USE PacerAssumption
<1>1. PermitTypes'
  BY PermitStep DEF PermitInv
<1>2. ASSUME over' \in [Requests -> BOOLEAN], aborted' \in [Requests -> BOOLEAN],
             UNCHANGED <<nextStart, start>>, now' \in Nat, wake' \in [Requests -> Nat]
      PROVE  TypeOK' /\ SlotsBehind' /\ StartsSpaced'
  BY <1>1, <1>2 DEF TypeOK, PermitTypes, SlotsBehind, StartsSpaced
<1>3. CASE UNCHANGED vars
  BY <1>2, <1>3 DEF TypeOK, vars
<1>4. CASE Tick
  BY <1>2, <1>4 DEF TypeOK, Tick, checks
<1>5. ASSUME NEW r \in Requests, Call(r)
      PROVE  TypeOK' /\ SlotsBehind' /\ StartsSpaced'
  BY <1>2, <1>5 DEF TypeOK, Call, clock, checks
<1>6. ASSUME NEW r \in Requests, AwaitStart(r)
      PROVE  TypeOK' /\ SlotsBehind' /\ StartsSpaced'
  <2>1. CASE Claim(r)
    <3>1. /\ nextStart' = now + MinInterval /\ start' = [start EXCEPT ![r] = now]
          /\ now >= nextStart /\ now' = now /\ wake' = wake
          /\ over' = over /\ aborted' = aborted
      BY <1>6, <2>1 DEF AwaitStart, Claim, checks
    <3>2. TypeOK'
      BY <1>1, <3>1 DEF TypeOK, PermitTypes, Unclaimed
    <3>3. SlotsBehind'
      BY <3>1 DEF TypeOK, SlotsBehind, Unclaimed
    <3>4. ASSUME NEW a \in Requests, NEW b \in Requests, a # b,
                 start'[a] # Unclaimed, start'[b] # Unclaimed, start'[a] <= start'[b]
          PROVE  start'[b] - start'[a] >= MinInterval
      <4>1. CASE a # r /\ b # r
        BY <3>1, <3>4, <4>1 DEF TypeOK, StartsSpaced
      <4>2. CASE b = r
        BY <3>1, <3>4, <4>2 DEF TypeOK, SlotsBehind, Unclaimed
      <4>3. CASE a = r
        BY <3>1, <3>4, <4>3 DEF TypeOK, SlotsBehind, Unclaimed
      <4> QED
        BY <4>1, <4>2, <4>3
    <3> QED
      BY <3>2, <3>3, <3>4 DEF StartsSpaced
  <2>2. CASE Refused(r) \/ DelayRefused(r)
    BY <1>2, <1>6, <2>2 DEF TypeOK, AwaitStart, Refused, DelayRefused, clock, checks
  <2>3. CASE Delay(r)
    BY <1>2, <1>6, <2>3 DEF TypeOK, AwaitStart, Delay, checks
  <2> QED
    BY <1>6, <2>1, <2>2, <2>3 DEF AwaitStart
<1>7. ASSUME NEW r \in Requests, Send(r) \/ Finish(r) \/ DelayStopped(r)
      PROVE  TypeOK' /\ SlotsBehind' /\ StartsSpaced'
  BY <1>2, <1>7 DEF TypeOK, Send, Finish, DelayStopped, clock, checks
<1>8. ASSUME NEW r \in Requests, Abort(r)
      PROVE  TypeOK' /\ SlotsBehind' /\ StartsSpaced'
  BY <1>2, <1>8 DEF TypeOK, Abort, clock
<1>9. ASSUME NEW r \in Requests, Expire(r)
      PROVE  TypeOK' /\ SlotsBehind' /\ StartsSpaced'
  BY <1>2, <1>9 DEF TypeOK, Expire, clock
<1> QED
  BY <1>3, <1>4, <1>5, <1>6, <1>7, <1>8, <1>9 DEF Next, Step

\* The pacer starts with no permit out and no slot claimed.
LEMMA InitInv == Init => IInv
<1> SUFFICES ASSUME Init PROVE IInv
  OBVIOUS
<1>1. TypeOK
  BY DEF Init, TypeOK, Stages, Unclaimed
<1>2. Holders = {}
  BY DEF Init, Holders, Holding
<1>3. Cardinality(Holders) = 0
  BY <1>2, FS_EmptySet
<1>4. WithinCap
  BY <1>3, CapType DEF Init, WithinCap
<1>5. QueueIsWaiters
  BY DEF Init, QueueIsWaiters
<1>6. SlotsBehind /\ StartsSpaced
  BY DEF Init, SlotsBehind, StartsSpaced
<1> QED
  BY <1>1, <1>4, <1>5, <1>6
     DEF Init, IInv, PermitInv, PermitTypes, TypeOK, WaitsForPermit

\* IInv is an inductive invariant.
LEMMA Inductive == Spec => []IInv
<1>1. IInv /\ [Next]_vars => IInv'
  BY PermitStep, ScheduleStep DEF IInv
<1> QED
  BY InitInv, <1>1, PTL DEF Spec

\* Every reachable state of request-pacer.ts is well typed.
THEOREM TypeCorrect == Spec => []TypeOK
BY Inductive, PTL DEF IInv

\* The permits out are counted exactly and never exceed maxInFlight.
THEOREM WithinCapHolds == Spec => []WithinCap
BY Inductive, PTL DEF IInv, PermitInv

\* No permit is lost by a grant, an abort or a refused check.
THEOREM NoPermitIdleHolds == Spec => []NoPermitIdle
<1>1. IInv => NoPermitIdle
  BY DEF IInv, PermitInv, WithinCap, WaitsForPermit, NoPermitIdle
<1> QED
  BY Inductive, <1>1, PTL

\* The queue is exactly the requests that wait, without a leftover.
THEOREM QueueIsWaitersHolds == Spec => []QueueIsWaiters
BY Inductive, PTL DEF IInv, PermitInv

\* Two requests never share a start slot.
THEOREM StartsSpacedHolds == Spec => []StartsSpaced
BY Inductive, PTL DEF IInv
=============================================================================
