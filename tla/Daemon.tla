------------------------------- MODULE Daemon -------------------------------
(***************************************************************************)
(* `x402 serve --daemon': the command starts itself again as a detached    *)
(* process, waits for the news that the server listens, announces it and   *)
(* ends.  The child has no one to stop it but the command, or later a      *)
(* person who was told of it.                                              *)
(*                                                                         *)
(* Left out: a command that is itself killed while it waits, and a log     *)
(* whose descriptor cannot be closed.                                      *)
(***************************************************************************)
EXTENDS Command

InDaemon == cmd.family = "daemon"

\* net.child: the process; ready, exit: its news for the parent, on the way
\* ("due"), heard, or come when nobody listened ("lost"); term: SIGTERM was sent.
DaemonInit ==
    /\ cmd = [family |-> "daemon"]
    /\ mem = [pauses |-> 0]
    /\ net = [main |-> "none", child |-> "none", ready |-> "no", exit |-> "no", term |-> FALSE]
    /\ Start("daemon.log")

\* Defect: the parent gives up and leaves the child to itself.
LeftAlone(n) == n

Stopped(n) == [n EXCEPT !.term = TRUE]

GiveUpChild(claim) == Claim(claim) /\ net' = Stopped(net)

DaemonLog ==
    /\ pc = "daemon.log"
    /\ \/ Expired /\ Claim("timeout")
       \/ ~Expired /\ (Goto("daemon.launch") \/ Claim("not_started"))
    /\ UNCHANGED <<cmd, left, mem, net>>

DaemonLaunch ==
    /\ pc = "daemon.launch"
    /\ \/ net' = [net EXCEPT !.child = "starting"] /\ Goto("daemon.close")
       \/ Claim("not_started") /\ UNCHANGED net
    /\ UNCHANGED <<cmd, left, mem>>

\* The log is closed before anybody listens: what the child does until then goes unheard.
DaemonUnheard ==
    /\ pc = "daemon.close"
    /\ \E news \in {"ready", "exit"} :
        net[news] = "due" /\ net' = [net EXCEPT ![news] = "lost"]
    /\ UNCHANGED <<cmd, left, pc, mem, said>>

DaemonListens ==
    /\ pc = "daemon.close"
    /\ IF Expired THEN GiveUpChild("timeout") ELSE Goto("daemon.wait") /\ UNCHANGED net
    /\ UNCHANGED <<cmd, left, mem>>

\* The timer may not have fired yet: a late ready still fails.
DaemonReady ==
    /\ pc = "daemon.wait"
    /\ net.ready = "due"
    /\ IF Expired THEN GiveUpChild("timeout")
       ELSE Claim("announced") /\ net' = [net EXCEPT !.ready = "heard"]
    /\ UNCHANGED <<cmd, left, mem>>

DaemonFails ==
    /\ pc = "daemon.wait"
    /\ net.exit = "due"
    /\ GiveUpChild("not_started")
    /\ UNCHANGED <<cmd, left, mem>>

DaemonLate ==
    /\ pc = "daemon.wait"
    /\ Expired
    /\ GiveUpChild("timeout")
    /\ UNCHANGED <<cmd, left, mem>>

DaemonCommand ==
    DaemonLog \/ DaemonLaunch \/ DaemonListens \/ DaemonReady \/ DaemonFails \/ DaemonLate

-----------------------------------------------------------------------------
(* The child. *)

Child(from, to, news) ==
    /\ InDaemon
    /\ net.child = from
    /\ net' = [net EXCEPT !.child = to,
                          !.ready = IF news = "ready" THEN "due" ELSE @,
                          !.exit = IF news = "exit" THEN "due" ELSE @]
    /\ UNCHANGED <<cmd, left, pc, mem, said>>

\* The facilitator does not answer, the port is taken, or its own deadline passes.
ChildFails == Child("starting", "gone", "exit")

\* It listens, its deadline is released, it handles the signals, and it says so.
ChildListens == Child("starting", "listening", "ready")

\* The signal of the parent, or of a person who found the process.  Without a
\* handler it ends the process; with it the listener and its connections are closed.
ChildSignalled == Child("listening", "closing", "none")
ChildKilled == net.term /\ Child("starting", "gone", "exit")
ChildClosed == Child("closing", "gone", "exit")

ChildLives == InDaemon /\ net.child \notin {"none", "gone"}
ChildStops == InDaemon /\ ((net.term /\ (ChildSignalled \/ ChildKilled)) \/ ChildClosed)

DaemonStep ==
    InDaemon /\ (DaemonCommand \/ DaemonUnheard \/ ChildFails \/ ChildListens \/ ChildSignalled
                 \/ ChildKilled \/ ChildClosed)

-----------------------------------------------------------------------------
\* A server that the command did not announce does not run on: whatever the child
\* was doing, and whichever of its news went unheard, it ends.
AnnouncedOrStopped ==
    [](Done /\ said.claim # "announced" => <>~ChildLives)
=============================================================================
