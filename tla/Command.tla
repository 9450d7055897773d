------------------------------- MODULE Command -------------------------------
(***************************************************************************)
(* The run of one command of the CLI under its deadline: what it was asked *)
(* to do, the time it has left, where it is, what it remembers of the      *)
(* answers it got, the world outside it, and what it finally says.         *)
(*                                                                         *)
(* The use cases (GasFree, SunTrade, ...) extend this module: each gives   *)
(* the requests of one family of commands and the steps of its code.  A    *)
(* request is dispatched in the turn that checked the clock; what is sent  *)
(* may be acted on although the answer is late or never comes.  A command  *)
(* without a time limit is one whose clock does not tick.                  *)
(***************************************************************************)
EXTENDS Integers

CONSTANTS
    TimeLimit,      \* the time limit of the command
    SubmitReserve   \* SUBMIT_ADMISSION_RESERVE_MS

ASSUME TimeAssumption ==
    /\ TimeLimit \in Nat
    /\ SubmitReserve \in Nat \ {0}

VARIABLES
    cmd,    \* the request
    left,   \* time left until the deadline
    pc,     \* what the command waits for
    mem,    \* what it has learnt
    net,    \* the outside world; net.main: the one effect the command is for
    said    \* its answer

vars == <<cmd, left, pc, mem, net, said>>

\* asked: on its way; taken: the other side holds it; refused: it will never act.
Effects == {"none", "asked", "taken", "refused", "ok", "failed"}

Silent == [claim |-> "silent"]

TimeOK == left \in 0 .. TimeLimit

Start(at) == left = TimeLimit /\ pc = at /\ said = Silent

\* CommandDeadline.expired and assertSubmitAdmitted
Expired == left = 0
Admitted == left >= SubmitReserve

Done == pc = "done"

Goto(at) == pc' = at /\ UNCHANGED said
Say(answer) == pc' = "done" /\ said' = answer
Claim(c) == Say([claim |-> c])

\* CommandDeadline.pause: time stands while a person is asked.
Paused == "pauses" \in DOMAIN mem /\ mem.pauses > 0

Tick ==
    /\ left > 0
    /\ ~Done
    /\ ~Paused
    /\ left' = left - 1
    /\ UNCHANGED <<cmd, pc, mem, net, said>>

\* The other side acts on what it was sent, or never gets it.
EffectDecided ==
    /\ net.main = "asked"
    /\ \E e \in {"taken", "refused"} : net' = [net EXCEPT !.main = e]
    /\ UNCHANGED <<cmd, left, pc, mem, said>>

EffectExecuted ==
    /\ net.main = "taken"
    /\ \E e \in {"ok", "failed"} : net' = [net EXCEPT !.main = e]
    /\ UNCHANGED <<cmd, left, pc, mem, said>>

World == Tick \/ EffectDecided \/ EffectExecuted

\* An answer that claims there was no effect is given only when there is none,
\* and none can come of what was sent.
NoEffectClaimed == said.claim = "none" => net.main \in {"none", "refused"}

\* What an answer says of the effect is what happened or still may.
ClaimIsTrue ==
    /\ NoEffectClaimed
    /\ said.claim = "submitted" => net.main \in {"taken", "ok", "failed"}
    /\ said.claim = "confirmed" => net.main = "ok"
    /\ said.claim = "failed" => net.main = "failed"

\* Once the confirmation was seen, nothing that fails afterwards - a check, a figure to
\* be read from the chain - lets the answer suggest a second try.
ConfirmationStands ==
    Done /\ "confirmed" \in DOMAIN mem /\ mem.confirmed => said.claim = "confirmed"
=============================================================================
