----------------------------- MODULE TxPipeline -----------------------------
(***************************************************************************)
(* One command that builds, signs and submits a transaction: TxPipeline,   *)
(* SigningService, submitAndStage, the dispatch check and the request      *)
(* pacer on its way to the network, and the confirmation poll.             *)
(*                                                                         *)
(* The command deadline runs down at every await.  The node may accept,    *)
(* reject or never see the request, and its answer may be lost or unclear. *)
(***************************************************************************)
EXTENDS Naturals

CONSTANTS
    Limited,    \* FALSE: --timeout 0
    Limit,      \* the time limit of the command
    Reserve     \* SUBMIT_ADMISSION_RESERVE_MS

ASSUME DeadlineAssumption ==
    /\ Limited \in BOOLEAN
    /\ Limit \in Nat
    /\ Reserve \in Nat \ {0}

VARIABLES
    asked,    \* the request: [mode, barred, device, wait, paced, required]
    left,     \* time left until the deadline
    aborted,  \* the deadline signal has aborted
    pc,       \* what the command waits for
    outcome,  \* how it ended
    stale,    \* the transaction has passed its own expiration
    sent,     \* the signed transaction was handed to the network
    marked,   \* context.dispatched
    node,     \* what the node did with it
    chain     \* its execution

vars == <<asked, left, aborted, pc, outcome, stale, sent, marked, node, chain>>
remote == <<node, chain>>

\* mode is the mode the use case runs in; barred, whether the command line
\* had --dry-run; approved, whether the permission threshold is met.
Request ==
    [mode : {"dry-run", "build-only", "sign-only", "broadcast"}, barred : BOOLEAN,
     device : BOOLEAN, wait : BOOLEAN, paced : BOOLEAN, required : BOOLEAN,
     approved : BOOLEAN, held : BOOLEAN]

Stages == {"build", "estimate", "prepare", "preflight", "sign", "device", "check",
           "verify", "admit", "queue", "start", "send", "wire", "poll", "ask", "sleep", "done"}
Outcomes == {"none", "plan", "built", "signed", "submitted", "confirmed", "failed",
             "deadline", "error", "rejected", "unknown", "barred"}

TypeOK ==
    /\ asked \in Request
    /\ left \in 0 .. Limit
    /\ aborted \in BOOLEAN
    /\ pc \in Stages
    /\ outcome \in Outcomes
    /\ stale \in BOOLEAN
    /\ sent \in BOOLEAN
    /\ marked \in BOOLEAN
    /\ node \in {"idle", "received", "accepted", "rejected", "lost"}
    /\ chain \in {"none", "ok", "failed"}

\* A use case that ignores --dry-run is any request with barred and another
\* mode; held says that the transaction already waits in the node's pool.  A
\* command that broadcasts a transaction signed before starts at "check".
Init ==
    /\ asked \in Request
    /\ asked.mode = "dry-run" => asked.barred
    /\ left = Limit
    /\ aborted = FALSE
    /\ pc \in IF asked.mode \in {"dry-run", "broadcast"} THEN {"build", "check"} ELSE {"build"}
    /\ outcome = "none"
    /\ stale = FALSE
    /\ sent = FALSE
    /\ marked = FALSE
    /\ node = "idle"
    /\ chain = "none"

Expired == Limited /\ left = 0
\* assertSubmitAdmitted
Admitted == ~Limited \/ left >= Reserve

End(o) == pc' = "done" /\ outcome' = o
Go(s) == pc' = s /\ UNCHANGED outcome
\* expired() aborts the signal itself when the timer is late.
Check == aborted' = (aborted \/ Expired)

-----------------------------------------------------------------------------
(* Building and signing: nothing reaches the network but reads. *)

BuildReturns ==
    /\ pc = "build"
    /\ IF Expired THEN End("deadline") ELSE Go("estimate")
    /\ Check
    /\ UNCHANGED <<asked, left, stale, sent, marked, remote>>

\* Dry runs and built transactions end here, before a signer is touched.
EstimateReturns ==
    /\ pc = "estimate"
    /\ Check
    /\ \/ Expired /\ End("deadline")
       \/ ~Expired /\ asked.mode = "dry-run" /\ End("plan")
       \/ ~Expired /\ asked.mode = "build-only" /\ End("built")
       \/ /\ ~Expired
          /\ asked.mode \in {"sign-only", "broadcast"}
          /\ Go(IF asked.device THEN "prepare" ELSE "preflight")
    /\ UNCHANGED <<asked, left, stale, sent, marked, remote>>

\* prepareForSigning extends the expiration of a transaction for a device.
PrepareReturns ==
    /\ pc = "prepare"
    /\ Go("preflight")
    /\ stale' = FALSE
    /\ UNCHANGED <<asked, left, aborted, sent, marked, remote>>

\* assertNotExpired, then the permission check.
PreflightReturns ==
    /\ pc = "preflight"
    /\ IF stale THEN End("error") ELSE Go("sign")
    /\ UNCHANGED <<asked, left, aborted, stale, sent, marked, remote>>

\* A node read throws, by itself or because the deadline stopped it.
ReadFails ==
    /\ pc \in {"build", "estimate", "prepare", "preflight", "verify"}
    /\ End(IF Expired THEN "deadline" ELSE "error")
    /\ Check
    /\ UNCHANGED <<asked, left, stale, sent, marked, remote>>

\* assertNotExpired of the signed transaction and the threshold gate.
Signed ==
    \/ stale /\ End("error")
    \/ ~stale /\ asked.mode = "sign-only" /\ End("signed")
    \/ ~stale /\ asked.mode = "broadcast" /\ ~asked.approved /\ End("error")
    \/ ~stale /\ asked.mode = "broadcast" /\ asked.approved /\ Go("admit")

SoftwareSigns ==
    /\ pc = "sign"
    /\ ~asked.device
    /\ IF Expired THEN End("deadline") ELSE Signed
    /\ Check
    /\ UNCHANGED <<asked, left, stale, sent, marked, remote>>

DeviceAsked ==
    /\ pc = "sign"
    /\ asked.device
    /\ IF Expired THEN End("deadline") ELSE Go("device")
    /\ Check
    /\ UNCHANGED <<asked, left, stale, sent, marked, remote>>

DeviceSigns ==
    /\ pc = "device"
    /\ ~aborted
    /\ Signed
    /\ UNCHANGED <<asked, left, aborted, stale, sent, marked, remote>>

\* The user refuses, or the reply does not recover to the account.
DeviceRefuses ==
    /\ pc = "device"
    /\ End(IF Expired THEN "deadline" ELSE "error")
    /\ Check
    /\ UNCHANGED <<asked, left, stale, sent, marked, remote>>

\* untilDeadline: the late reply of the device is dropped.
DeviceStopped ==
    /\ pc = "device"
    /\ aborted
    /\ End("deadline")
    /\ UNCHANGED <<asked, left, aborted, stale, sent, marked, remote>>

\* assertNotExpired of a transaction signed before.
CheckImported ==
    /\ pc = "check"
    /\ IF stale THEN End("error") ELSE Go("verify")
    /\ UNCHANGED <<asked, left, aborted, stale, sent, marked, remote>>

\* Its approvals, which the node may have to be asked for.
VerifyReturns ==
    /\ pc = "verify"
    /\ \/ ~asked.approved /\ End("error")
       \/ asked.approved /\ asked.mode = "dry-run" /\ End("plan")
       \/ asked.approved /\ asked.mode = "broadcast" /\ Go("admit")
    /\ UNCHANGED <<asked, left, aborted, stale, sent, marked, remote>>

-----------------------------------------------------------------------------
(* Submitting. *)

\* Defect: the adapter does not consult the broadcast guard.
AdmitUnguarded ==
    /\ pc = "admit"
    /\ IF Admitted THEN Go(IF asked.paced THEN "queue" ELSE "send") ELSE End("deadline")
    /\ Check
    /\ UNCHANGED <<asked, left, stale, sent, marked, remote>>

\* assertSubmitAdmitted, then the guard of the adapter.
Admit ==
    /\ pc = "admit"
    /\ \/ ~Admitted /\ End("deadline")
       \/ Admitted /\ asked.barred /\ End("barred")
       \/ Admitted /\ ~asked.barred /\ Go(IF asked.paced THEN "queue" ELSE "send")
    /\ Check
    /\ UNCHANGED <<asked, left, stale, sent, marked, remote>>

\* A permit of the pacer: it may be granted when the signal has just aborted.
Granted ==
    /\ pc = "queue"
    /\ Go("start")
    /\ UNCHANGED <<asked, left, aborted, stale, sent, marked, remote>>

\* The wait for a permit or for a start slot is aborted.
QueueStopped ==
    /\ pc \in {"queue", "start"}
    /\ aborted
    /\ End("deadline")
    /\ UNCHANGED <<asked, left, aborted, stale, sent, marked, remote>>

\* #awaitStart: the check, then the start slot.
StartSlot ==
    /\ pc = "start"
    /\ IF Admitted THEN Go("send") /\ marked' = TRUE
                   ELSE End("deadline") /\ UNCHANGED marked
    /\ Check
    /\ UNCHANGED <<asked, left, stale, sent, remote>>

\* The check and the send happen in one turn of the event loop.  When the
\* check fails after the pacer marked the call as dispatched, an expired
\* deadline is reported as an unknown outcome (stoppedBySignal).
Send ==
    /\ pc = "send"
    /\ IF Admitted
         THEN /\ Go("wire")
              /\ sent' = TRUE
              /\ marked' = TRUE
              /\ node' = "received"
         ELSE /\ End(IF marked /\ (Expired \/ aborted) THEN "unknown" ELSE "deadline")
              /\ UNCHANGED <<sent, marked, node>>
    /\ Check
    /\ UNCHANGED <<asked, left, stale, chain>>

\* The abort between the two checks.
SendStopped ==
    /\ pc = "send"
    /\ asked.paced
    /\ aborted
    /\ End("unknown")
    /\ UNCHANGED <<asked, left, aborted, stale, sent, marked, remote>>

\* The node's answer.  A transaction it accepted, or already holds, is either
\* confirmed as such or answered unclearly (OTHER_ERROR, -32000, a malformed
\* body); a definite rejection comes only from a node that did not take it.
Submitted == IF asked.wait THEN Go("poll") ELSE End("submitted")

\* Defect: every unclear answer counts as a rejection.
AnswerDecisive ==
    /\ pc = "wire"
    /\ ~aborted
    /\ \/ node = "accepted" /\ Submitted
       \/ node \in {"accepted", "rejected"} /\ End("rejected")
    /\ UNCHANGED <<asked, left, aborted, stale, sent, marked, remote>>

Answer ==
    /\ pc = "wire"
    /\ ~aborted
    /\ \/ node = "accepted" /\ Submitted
       \/ node = "rejected" /\ End("rejected")
       \/ node \in {"accepted", "rejected"} /\ End("unknown")
    /\ UNCHANGED <<asked, left, aborted, stale, sent, marked, remote>>

\* Defect: a failed connection is an ordinary network error.
ConnectionFailsPlainly ==
    /\ pc = "wire"
    /\ End("error")
    /\ UNCHANGED <<asked, left, aborted, stale, sent, marked, remote>>

\* The connection fails before an answer.
ConnectionFails ==
    /\ pc = "wire"
    /\ End("unknown")
    /\ UNCHANGED <<asked, left, aborted, stale, sent, marked, remote>>

\* The signal aborts the request: it may have acted.
WireStopped ==
    /\ pc = "wire"
    /\ aborted
    /\ End("unknown")
    /\ UNCHANGED <<asked, left, aborted, stale, sent, marked, remote>>

-----------------------------------------------------------------------------
(* pollUntilDeadline *)

Poll ==
    /\ pc = "poll"
    /\ IF Expired THEN End("submitted") ELSE Go("ask")
    /\ Check
    /\ UNCHANGED <<asked, left, stale, sent, marked, remote>>

\* The receipt, or nothing yet; an answer without an execution result does
\* not count.
AskReturns ==
    /\ pc = "ask"
    /\ ~aborted
    /\ \/ Go("sleep")
       \/ chain = "ok" /\ End("confirmed")
       \/ chain = "failed" /\ End("failed")
    /\ UNCHANGED <<asked, left, aborted, stale, sent, marked, remote>>

\* An error that cannot be retried unchanged stops the wait.
AskFails ==
    /\ pc = "ask"
    /\ ~Expired
    /\ End(IF asked.required THEN "unknown" ELSE "submitted")
    /\ UNCHANGED <<asked, left, aborted, stale, sent, marked, remote>>

\* Defect: the deadline counts as "not yet", and the poll sleeps on.
PollOn ==
    /\ pc \in {"ask", "sleep"}
    /\ Expired
    /\ Go("sleep")
    /\ Check
    /\ UNCHANGED <<asked, left, stale, sent, marked, remote>>

PollStopped ==
    /\ pc \in {"ask", "sleep"}
    /\ Expired
    /\ End("submitted")
    /\ Check
    /\ UNCHANGED <<asked, left, stale, sent, marked, remote>>

SleepEnds ==
    /\ pc = "sleep"
    /\ ~Expired
    /\ Go("poll")
    /\ UNCHANGED <<asked, left, aborted, stale, sent, marked, remote>>

-----------------------------------------------------------------------------
(* The node, the chain and the clocks. *)

NodeTakes ==
    /\ node = "received"
    /\ node' \in IF asked.held THEN {"accepted", "lost"} ELSE {"accepted", "rejected", "lost"}
    /\ UNCHANGED <<asked, left, aborted, pc, outcome, stale, sent, marked, chain>>

Included ==
    /\ node = "accepted"
    /\ chain = "none"
    /\ chain' \in {"ok", "failed"}
    /\ UNCHANGED <<asked, left, aborted, pc, outcome, stale, sent, marked, node>>

Tick ==
    /\ Limited
    /\ left > 0
    /\ left' = left - 1
    /\ UNCHANGED <<asked, aborted, pc, outcome, stale, sent, marked, remote>>

\* The deadline timer: it may be late.
Abort ==
    /\ Expired
    /\ ~aborted
    /\ aborted' = TRUE
    /\ UNCHANGED <<asked, left, pc, outcome, stale, sent, marked, remote>>

TxExpires ==
    /\ ~stale
    /\ stale' = TRUE
    /\ UNCHANGED <<asked, left, aborted, pc, outcome, sent, marked, remote>>

Build == BuildReturns \/ EstimateReturns \/ PrepareReturns \/ PreflightReturns \/ ReadFails
Sign ==
    \/ SoftwareSigns \/ DeviceAsked \/ DeviceSigns \/ DeviceRefuses \/ DeviceStopped
    \/ CheckImported \/ VerifyReturns
Submit ==
    \/ Admit \/ Granted \/ QueueStopped \/ StartSlot \/ Send \/ SendStopped
    \/ Answer \/ ConnectionFails \/ WireStopped
Confirm == Poll \/ AskReturns \/ AskFails \/ PollStopped \/ SleepEnds
World == NodeTakes \/ Included \/ Tick \/ Abort \/ TxExpires

Next == Build \/ Sign \/ Submit \/ Confirm \/ World

Spec == Init /\ [][Next]_vars

\* What the code does itself when its signal aborts or its timer fires; a
\* node, a user or a slot that never answers is not assumed to answer.
Prompt ==
    \/ BuildReturns \/ EstimateReturns \/ PrepareReturns \/ PreflightReturns
    \/ SoftwareSigns \/ DeviceAsked \/ DeviceStopped \/ CheckImported \/ VerifyReturns
    \/ Admit \/ QueueStopped \/ StartSlot \/ Send \/ SendStopped \/ WireStopped
    \/ Poll \/ PollStopped \/ SleepEnds

FairSpec == Spec /\ WF_vars(Prompt) /\ WF_vars(Tick) /\ WF_vars(Abort)

-----------------------------------------------------------------------------
Done == pc = "done"

\* A "timeout" without an unknown outcome means that nothing was sent: the
\* caller may run the command again without paying twice.
TimeoutSentNothing == outcome = "deadline" => ~sent

\* A transaction the node took is never reported as a plain failure, although
\* the answer may be lost, late or unclear.
AcceptedIsReported ==
    Done /\ node = "accepted" => outcome \in {"submitted", "confirmed", "failed", "unknown"}

\* A command ends with an error that names no unknown outcome only when the
\* transaction cannot reach the chain any more.
PlainFailureIsFinal ==
    outcome \in {"deadline", "error", "rejected", "barred", "plan", "built", "signed"}
        => node \in {"idle", "rejected"}

\* --dry-run never sends, even when the use case ignores the flag; neither do
\* the other modes, nor a transaction below its permission threshold.
SendsOnlyAsAsked == sent => asked.mode = "broadcast" /\ ~asked.barred /\ asked.approved

\* A submit is not handed to the network with less than the reserve left,
\* however long it waited for its permit and its start slot.
SendIsAdmitted == [][~sent /\ sent' => Admitted]_vars

\* The final stage reported is the one on chain.
ReceiptIsTrue ==
    /\ outcome = "confirmed" => chain = "ok"
    /\ outcome = "failed" => chain = "failed"

\* The transaction as the one effect of the command: a node that lost the
\* request never says so, and "plan", "error", "deadline" ... say there is none.
OnChain ==
    CASE node = "idle" -> "none"
      [] node \in {"received", "lost"} -> "asked"
      [] node = "rejected" -> "refused"
      [] node = "accepted" -> IF chain = "none" THEN "taken" ELSE chain
Told ==
    CASE outcome = "none" -> "silent"
      [] outcome \in {"submitted", "confirmed", "failed", "unknown"} -> outcome
      [] OTHER -> "none"

Promise == INSTANCE Effect WITH effect <- OnChain, answer <- Told

\* Whatever is lost, late or unclear on the way, the transaction is sent at
\* most once and before the command answers, and what it answers - submitted,
\* confirmed, failed, or no transaction at all - is true and stays true.
OneTransaction == Promise!Spec

\* A command with a time limit ends, whatever the node, the device and the
\* pacer do.
CommandEnds == Limited => <>Done
=============================================================================
