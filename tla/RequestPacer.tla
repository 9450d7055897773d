---------------------------- MODULE RequestPacer ----------------------------
(***************************************************************************)
(* RequestPacer.run: the requests of one command share a number of permits *)
(* and a schedule of start slots.  Every request has a dispatch check: it  *)
(* is over when its deadline has passed (or leaves too little time for a   *)
(* submission), and some time later its signal aborts.                     *)
(*                                                                         *)
(* A step is one turn of the event loop between two awaits.                *)
(***************************************************************************)
EXTENDS Integers, Sequences, FiniteSets

CONSTANTS
    Requests,
    MaxInFlight,    \* options.maxInFlight
    MinInterval,    \* options.minIntervalMs
    Slack           \* bound: how far the clock runs past the next free slot

ASSUME PacerAssumption ==
    /\ IsFiniteSet(Requests)
    /\ MaxInFlight \in Nat
    /\ MinInterval \in Nat
    /\ Slack \in Nat

VARIABLES
    st,         \* where each call of run stands
    queue,      \* #queue
    active,     \* #active
    nextStart,  \* #nextStartAt
    now,        \* Date.now()
    wake,       \* when the delay of a request ends
    over,       \* the dispatch check of a request throws
    aborted,    \* its signal has aborted
    start       \* the slots claimed so far: request -> time

vars == <<st, queue, active, nextStart, now, wake, over, aborted, start>>
checks == <<over, aborted>>
clock == <<nextStart, now, wake, start>>

Cap == IF MaxInFlight < 1 THEN 1 ELSE MaxInFlight
Stages == {"idle", "queued", "granted", "delayed", "started", "inflight", "done", "stopped"}
Holding == {"granted", "delayed", "started", "inflight"}
Holders == {r \in Requests : st[r] \in Holding}
Unclaimed == -1

TypeOK ==
    /\ st \in [Requests -> Stages]
    /\ queue \in Seq(Requests)
    /\ active \in Int
    /\ nextStart \in Nat
    /\ now \in Nat
    /\ wake \in [Requests -> Nat]
    /\ over \in [Requests -> BOOLEAN]
    /\ aborted \in [Requests -> BOOLEAN]
    /\ start \in [Requests -> Nat \cup {Unclaimed}]

Init ==
    /\ st = [r \in Requests |-> "idle"]
    /\ queue = <<>>
    /\ active = 0
    /\ nextStart = 0
    /\ now = 0
    /\ wake = [r \in Requests |-> 0]
    /\ over = [r \in Requests |-> FALSE]
    /\ aborted = [r \in Requests |-> FALSE]
    /\ start = [r \in Requests |-> Unclaimed]

-----------------------------------------------------------------------------
Goes(r, s) == st' = [st EXCEPT ![r] = s]

\* #release: the permit goes straight to the next waiter.  The grant of a
\* waiter that has left already does nothing.
Release(r, s) ==
    IF queue = <<>>
      THEN /\ active' = active - 1
           /\ Goes(r, s)
           /\ UNCHANGED queue
      ELSE /\ queue' = Tail(queue)
           /\ st' = [st EXCEPT ![r] = s,
                               ![Head(queue)] = IF @ = "queued" THEN "granted" ELSE @]
           /\ UNCHANGED active

\* #acquire
Call(r) ==
    /\ st[r] = "idle"
    /\ \/ aborted[r] /\ Goes(r, "stopped") /\ UNCHANGED <<queue, active>>
       \/ /\ ~aborted[r] /\ active < Cap
          /\ active' = active + 1
          /\ Goes(r, "granted")
          /\ UNCHANGED queue
       \/ /\ ~aborted[r] /\ active >= Cap
          /\ queue' = Append(queue, r)
          /\ Goes(r, "queued")
          /\ UNCHANGED active
    /\ UNCHANGED <<clock, checks>>

\* #awaitStart: the turn after a grant or a delay.  The slot is claimed in the
\* turn that finds it free.
Claim(r) ==
    /\ now >= nextStart
    /\ ~over[r]
    /\ nextStart' = now + MinInterval
    /\ start' = [start EXCEPT ![r] = now]
    /\ Goes(r, "started")
    /\ UNCHANGED <<queue, active, now, wake>>

\* Defect: a refused check does not give the permit back.
RefusedKeepsPermit(r) ==
    /\ now >= nextStart
    /\ over[r]
    /\ Goes(r, "stopped")
    /\ UNCHANGED <<queue, active, clock>>

Refused(r) ==
    /\ now >= nextStart
    /\ over[r]
    /\ Release(r, "stopped")
    /\ UNCHANGED clock

Delay(r) ==
    /\ now < nextStart
    /\ ~aborted[r]
    /\ wake' = [wake EXCEPT ![r] = nextStart]
    /\ Goes(r, "delayed")
    /\ UNCHANGED <<queue, active, nextStart, now, start>>

DelayRefused(r) ==
    /\ now < nextStart
    /\ aborted[r]
    /\ Release(r, "stopped")
    /\ UNCHANGED clock

\* Defect: a runner that wakes takes its slot without looking again.
AwaitStartOnce(r) ==
    /\ UNCHANGED checks
    /\ \/ st[r] = "granted" /\ (Claim(r) \/ Refused(r) \/ Delay(r) \/ DelayRefused(r))
       \/ /\ st[r] = "delayed" /\ now >= wake[r] /\ ~aborted[r]
          /\ nextStart' = now + MinInterval
          /\ start' = [start EXCEPT ![r] = now]
          /\ Goes(r, "started")
          /\ UNCHANGED <<queue, active, now, wake>>

AwaitStart(r) ==
    /\ st[r] = "granted" \/ (st[r] = "delayed" /\ now >= wake[r] /\ ~aborted[r])
    /\ Claim(r) \/ Refused(r) \/ Delay(r) \/ DelayRefused(r)
    /\ UNCHANGED checks

\* The check in the turn of the send; time has passed since the claim.
Send(r) ==
    /\ st[r] = "started"
    /\ IF over[r] THEN Release(r, "stopped")
                  ELSE Goes(r, "inflight") /\ UNCHANGED <<queue, active>>
    /\ UNCHANGED <<clock, checks>>

\* The answer, an error, or the abort of the request.
Finish(r) ==
    /\ st[r] = "inflight"
    /\ Release(r, "done")
    /\ UNCHANGED <<clock, checks>>

\* The abort listeners run in the turn of the abort: a waiter leaves the
\* queue at once, a delay ends in a turn of its own (DelayStopped).
Abort(r) ==
    /\ over[r]
    /\ ~aborted[r]
    /\ aborted' = [aborted EXCEPT ![r] = TRUE]
    /\ IF st[r] = "queued"
         THEN /\ Goes(r, "stopped")
              /\ \E i \in 1 .. Len(queue) :
                    /\ queue[i] = r
                    /\ queue' = SubSeq(queue, 1, i - 1) \o SubSeq(queue, i + 1, Len(queue))
         ELSE UNCHANGED <<st, queue>>
    /\ UNCHANGED <<active, clock, over>>

DelayStopped(r) ==
    /\ st[r] = "delayed"
    /\ aborted[r]
    /\ Release(r, "stopped")
    /\ UNCHANGED <<clock, checks>>

-----------------------------------------------------------------------------
\* The deadline passes, or what it leaves is too little for a submission.
Expire(r) ==
    /\ ~over[r]
    /\ over' = [over EXCEPT ![r] = TRUE]
    /\ UNCHANGED <<st, queue, active, clock, aborted>>

Tick ==
    /\ now < nextStart + Slack
    /\ now' = now + 1
    /\ UNCHANGED <<st, queue, active, nextStart, wake, start, checks>>

Step(r) == AwaitStart(r) \/ Send(r) \/ DelayStopped(r)

Next ==
    \/ Tick
    \/ \E r \in Requests : Call(r) \/ Step(r) \/ Finish(r) \/ Expire(r) \/ Abort(r)

Spec == Init /\ [][Next]_vars

\* The event loop runs what is due, the clock goes on, and every request on
\* the network ends.  A deadline need not pass.
FairSpec ==
    /\ Spec
    /\ WF_vars(Tick)
    /\ \A r \in Requests : WF_vars(Step(r)) /\ WF_vars(Finish(r))

-----------------------------------------------------------------------------
\* No more permits are out than the cap allows, whatever is handed over,
\* aborted or refused: the counter is the number of permits that are out.
WithinCap == active = Cardinality(Holders) /\ active <= Cap

\* No permit is lost: a request waits only while all permits are out.
NoPermitIdle == queue # <<>> => Cardinality(Holders) = Cap

\* The queue holds exactly the requests that wait for a permit, each once.
QueueIsWaiters ==
    /\ \A r \in Requests : st[r] = "queued" <=> \E i \in 1 .. Len(queue) : queue[i] = r
    /\ \A i, j \in 1 .. Len(queue) : queue[i] = queue[j] => i = j

\* Two requests never share a start slot, however many wake at the same time.
StartsSpaced ==
    \A r, s \in Requests :
        r # s /\ start[r] # Unclaimed /\ start[s] # Unclaimed /\ start[r] <= start[s]
            => start[s] - start[r] >= MinInterval

\* A request that waits for its permit is served or stopped: no abort of
\* another request and no refused check keeps its permit.
WaitersServed == \A r \in Requests : st[r] = "queued" ~> st[r] \in {"done", "stopped"}
=============================================================================
