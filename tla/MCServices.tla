----------------------------- MODULE MCServices -----------------------------
(***************************************************************************)
(* Model checking of one command of the CLI, of any family: its shell, or  *)
(* what it does with a chain, a service, a contract or a detached server,  *)
(* from its start to its answer.                                           *)
(***************************************************************************)
EXTENDS GasFree, SunTrade, Multisig, Shell, ChainUse, Daemon

\* Shared, mine to give, and no longer mine.
MCPermissions ==
    {[weight |-> [k \in Cosigners |-> 1], threshold |-> 2],
     [weight |-> [k \in Cosigners |-> IF k = "me" THEN 2 ELSE 1], threshold |-> 2],
     [weight |-> [k \in Cosigners |-> IF k = "me" THEN 0 ELSE 1], threshold |-> 1]}

ServiceInit ==
    \/ GasFreeInit \/ TradeInit \/ LaunchInit \/ MultisigInit \/ ShellInit \/ ChainInit \/ StatusInit
    \/ DaemonInit
ServiceNext ==
    GasFreeStep \/ TradeStep \/ MultisigStep \/ ShellStep \/ ChainStep \/ DaemonStep \/ World
ServiceSpec == ServiceInit /\ [][ServiceNext]_vars

Prompt == GasFreePrompt \/ TradePrompt \/ MultisigPrompt \/ ShellPrompt \/ ChainPrompt
          \/ (InDaemon /\ DaemonCommand)

FairServiceSpec == ServiceSpec /\ WF_vars(Tick) /\ WF_vars(Expired /\ Prompt) /\ WF_vars(ChildStops)

\* What an answer says of the effect of the command; one that is of something
\* else says as much as "unknown".
Claimed == IF said.claim \in {"silent", "none", "submitted", "confirmed", "failed"} THEN said.claim ELSE "unknown"

Promise == INSTANCE Effect WITH effect <- net.main, answer <- Claimed

\* A command of any family sends its transaction, its order or its signature at
\* most once and before it answers; what it answers is true when it is given,
\* and nothing the other side does later contradicts it.
OneEffect == Promise!Spec

\* A command with a time limit answers, whatever the services, the nodes and
\* the device do, unless a person keeps it waiting for an answer.
CommandAnswers == <>Done \/ []<>Asking
=============================================================================
