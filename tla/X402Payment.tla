---------------------------- MODULE X402Payment ----------------------------
(***************************************************************************)
(* `x402 pay' and `x402 roundtrip': X402Service.#pay, the payment client   *)
(* around the x402 SDK, the Permit2 approval a TRON payment may need, and  *)
(* the paywall at the other end (X402Paywall), or a foreign endpoint.      *)
(*                                                                         *)
(* The SDK's work is a process of its own: when the deadline ends the      *)
(* command it keeps running, and only the dispatch checks hold it back.    *)
(* A command without a time limit is one whose clock does not tick.        *)
(***************************************************************************)
EXTENDS X402Paywall

VARIABLES
    req,        \* [method, dry, shared, foreign]
    left,       \* time left for the command
    ppc,        \* the command
    sdk,        \* what the SDK waits for
    auth,       \* PaymentAuthorization
    approvalTx, \* the approval transaction on the network
    result      \* what the command reports

pvars == <<req, left, ppc, sdk, auth, approvalTx, result>>
vars == <<pvars, svars>>

\* direct: no allowance is needed; permit2: TRON, the allowance is read and
\* approved; export: the approval travels signed in the payment package.
\* shared: roundtrip, foreign: an endpoint that is not our paywall.
Request == {r \in [method : {"direct", "permit2", "export"}, dry : BOOLEAN,
                   shared : BOOLEAN, foreign : BOOLEAN] : ~(r.shared /\ r.foreign)}

Authorization ==
    [sent : BOOLEAN, approval : {"none", "confirmed", "exported"}, submitted : BOOLEAN,
     failure : {"none", "plain", "named", "reverted"}]

Result ==
    [kind : {"none", "served", "inspection", "paid", "error"},
     payment : {"none", "not_sent", "unknown", "settled"},
     approval : {"none", "unknown", "failed", "confirmed", "exported"}]

TypeOK ==
    /\ PaywallTypeOK
    /\ req \in Request
    /\ left \in 0 .. Limit
    /\ ppc \in {"request", "limits", "paying", "done"}
    /\ sdk \in {"idle", "allowance", "build", "submit", "confirm", "reread", "export",
                "sign", "wait", "end"}
    /\ auth \in Authorization
    /\ approvalTx \in {"none", "asked", "refused", "mined", "reverted"}
    /\ result \in Result

Init ==
    /\ PaywallInit
    /\ req \in Request
    /\ left = Limit
    /\ ppc = "request"
    /\ sdk = "idle"
    /\ auth = [sent |-> FALSE, approval |-> "none", submitted |-> FALSE, failure |-> "none"]
    /\ approvalTx = "none"
    /\ result = [kind |-> "none", payment |-> "none", approval |-> "none"]

Active == left > 0
Admitted == Active /\ left >= Reserve

-----------------------------------------------------------------------------
(* What a failure says: withApproval, sentPaymentError, unsentPaymentError. *)

\* Defect: an approval is only reported once the approver has answered.
ApprovalEvidenceLate(a) ==
    CASE a.approval # "none" -> a.approval
      [] a.approval = "none" /\ a.failure \in {"none", "plain"} -> "none"
      [] a.approval = "none" /\ a.failure = "reverted" -> "failed"
      [] a.approval = "none" /\ a.failure = "named" -> "unknown"

ApprovalEvidence(a) ==
    CASE a.approval # "none" -> a.approval
      [] a.approval = "none" /\ (~a.submitted \/ a.failure = "plain") -> "none"
      [] a.approval = "none" /\ a.submitted /\ a.failure = "reverted" -> "failed"
      [] a.approval = "none" /\ a.submitted /\ a.failure \in {"none", "named"} -> "unknown"

Error(p, a) == [kind |-> "error", payment |-> p, approval |-> ApprovalEvidence(a)]
Classified(a) == Error(IF a.sent THEN "unknown" ELSE "not_sent", a)

End(r) == ppc' = "done" /\ result' = r
\* A late result of the SDK is dropped.
Report(r) == IF ppc = "paying" THEN End(r) ELSE UNCHANGED <<ppc, result>>
SdkThrows(a) == sdk' = "end" /\ auth' = a /\ Report(Classified(a))

-----------------------------------------------------------------------------
(* X402Service.#pay up to the payment. *)

\* An error before the challenge.  Those of checkedLimits carry no payment
\* details, except that roundtrip adds them (unpaid).
RequestFails ==
    /\ ppc = "request"
    /\ \E p \in {"none", "not_sent"} : (req.shared => p = "not_sent") /\ End(Error(p, auth))
    /\ UNCHANGED <<req, left, sdk, auth, approvalTx, svars>>

\* The resource is free (our paywall never is), or HTTP 402 offers a route.
ResourceAnswers ==
    /\ ppc = "request"
    /\ Active
    /\ \/ /\ req.foreign
          /\ End([kind |-> "served", payment |-> "none", approval |-> "none"])
       \/ ppc' = "limits" /\ UNCHANGED result
    /\ UNCHANGED <<req, left, sdk, auth, approvalTx, svars>>

\* The ceiling, --dry-run, the payer's signer and the admission check.
LimitsRefuse ==
    /\ ppc = "limits"
    /\ \/ End(Error("not_sent", auth))
       \/ ~req.dry /\ ~req.shared /\ End(Error("none", auth))
    /\ UNCHANGED <<req, left, sdk, auth, approvalTx, svars>>

Inspect ==
    /\ ppc = "limits"
    /\ req.dry
    /\ End([kind |-> "inspection", payment |-> "none", approval |-> "none"])
    /\ UNCHANGED <<req, left, sdk, auth, approvalTx, svars>>

StartPayment ==
    /\ ppc = "limits"
    /\ ~req.dry
    /\ Admitted
    /\ ppc' = "paying"
    /\ sdk' = CASE req.method = "permit2" -> "allowance"
                [] req.method = "export" -> "export"
                [] req.method = "direct" -> "sign"
    /\ UNCHANGED <<req, left, auth, approvalTx, result, svars>>

-----------------------------------------------------------------------------
(* The SDK creates the payment. *)

\* A read, a signature or the SDK itself fails, or the check refuses it.
CreationFails ==
    /\ sdk \in {"allowance", "reread", "export", "sign"}
    /\ SdkThrows(auth)
    /\ UNCHANGED <<req, left, approvalTx, svars>>

\* ensureAllowance
AllowanceRead ==
    /\ sdk = "allowance"
    /\ Active
    /\ sdk' \in {"sign", "build"}
    /\ UNCHANGED <<req, left, ppc, auth, approvalTx, result, svars>>

\* The transaction pipeline up to the broadcast, whose check records the id.
ApprovalSubmit ==
    /\ sdk = "build"
    /\ Admitted
    /\ sdk' = "submit"
    /\ auth' = [auth EXCEPT !.submitted = TRUE]
    /\ approvalTx' = "asked"
    /\ UNCHANGED <<req, left, ppc, result, svars>>

ApprovalFails ==
    /\ sdk = "build"
    /\ SdkThrows([auth EXCEPT !.failure = "plain"])
    /\ UNCHANGED <<req, left, approvalTx, svars>>

\* A rejection is definite and carries no transaction id.
ApprovalAnswered ==
    /\ sdk = "submit"
    /\ \/ sdk' = "confirm" /\ UNCHANGED <<ppc, auth, approvalTx, result>>
       \/ /\ approvalTx = "asked"
          /\ approvalTx' = "refused"
          /\ SdkThrows([auth EXCEPT !.failure = "plain"])
    /\ UNCHANGED <<req, left, svars>>

\* The answer is lost, or the wait for the confirmation stops.
ApprovalUnknown ==
    /\ sdk \in {"submit", "confirm"}
    /\ SdkThrows([auth EXCEPT !.failure = "named"])
    /\ UNCHANGED <<req, left, approvalTx, svars>>

ApprovalReceipt ==
    /\ sdk = "confirm"
    /\ \/ /\ approvalTx = "mined"
          /\ sdk' = "reread"
          /\ auth' = [auth EXCEPT !.approval = "confirmed"]
          /\ UNCHANGED <<ppc, result>>
       \/ /\ approvalTx = "reverted"
          /\ SdkThrows([auth EXCEPT !.failure = "reverted"])
    /\ UNCHANGED <<req, left, approvalTx, svars>>

AllowanceLanded ==
    /\ sdk = "reread"
    /\ Active
    /\ sdk' = "sign"
    /\ UNCHANGED <<req, left, ppc, auth, approvalTx, result, svars>>

\* The approval is signed only to be exported in the payment package.
ExportApproval ==
    /\ sdk = "export"
    /\ Active
    /\ auth' = [auth EXCEPT !.approval = "exported"]
    /\ sdk' = "sign"
    /\ UNCHANGED <<req, left, ppc, approvalTx, result, svars>>

\* Defect: the paid request does not run the check at its dispatch.
SendPaymentUnchecked ==
    /\ sdk = "sign"
    /\ auth' = [auth EXCEPT !.sent = TRUE]
    /\ sdk' = "wait"
    /\ UNCHANGED <<req, left, ppc, approvalTx, result, svars>>

\* The authorization is signed and the paid request passes its check.
SendPayment ==
    /\ sdk = "sign"
    /\ Admitted
    /\ auth' = [auth EXCEPT !.sent = TRUE]
    /\ sdk' = "wait"
    /\ UNCHANGED <<req, left, ppc, approvalTx, result, svars>>

\* Defect: the deadline waits for an approval that was submitted.
AbortUnlessSubmitted ==
    /\ ppc = "paying"
    /\ left = 0
    /\ sdk # "wait"
    /\ ~auth.submitted
    /\ End(Classified(auth))
    /\ UNCHANGED <<req, left, sdk, auth, approvalTx, svars>>

\* untilPaymentSent: the deadline ends the creation, not the paid request.
Abort ==
    /\ ppc = "paying"
    /\ left = 0
    /\ sdk # "wait"
    /\ End(Classified(auth))
    /\ UNCHANGED <<req, left, sdk, auth, approvalTx, svars>>

-----------------------------------------------------------------------------
(* The reply to the paid request: readResponse and settlementError. *)

Receive(r) == sdk' = "end" /\ End(r)

Delivered ==
    /\ sdk = "wait"
    /\ reply \in {"receipt", "bare"}
    /\ Receive([kind |-> "paid",
                payment |-> IF reply = "receipt" THEN "settled" ELSE "none",
                approval |-> auth.approval])
    /\ UNCHANGED <<req, left, auth, approvalTx, svars>>

\* The headers arrive but the body cannot be read, decoded or saved.
NotDelivered ==
    /\ sdk = "wait"
    /\ reply \in {"receipt", "bare"}
    /\ Receive(Error(IF reply = "receipt" THEN "settled" ELSE "unknown", auth))
    /\ UNCHANGED <<req, left, auth, approvalTx, svars>>

PaymentRefused ==
    /\ sdk = "wait"
    /\ reply = "refused"
    /\ Receive(Classified(auth))
    /\ UNCHANGED <<req, left, auth, approvalTx, svars>>

\* No headers: the connection fails or the deadline aborts the request.
ReplyLost ==
    /\ sdk = "wait"
    /\ Receive(Classified(auth))
    /\ UNCHANGED <<req, left, auth, approvalTx, svars>>

-----------------------------------------------------------------------------
(* The clock, the network and the other end. *)

Tick ==
    /\ left > 0
    /\ left' = left - 1
    /\ sleft' = IF req.shared /\ spc # "idle" THEN left - 1 ELSE sleft
    /\ UNCHANGED <<req, ppc, sdk, auth, approvalTx, result, spc, gone, call, settled, reply>>

ApprovalExecuted ==
    /\ approvalTx = "asked"
    /\ approvalTx' \in {"mined", "reverted"}
    /\ UNCHANGED <<req, left, ppc, sdk, auth, result, svars>>

\* The request reaches the paywall, perhaps after the payer gave up on it.
PaymentArrives ==
    /\ auth.sent
    /\ ~req.foreign
    /\ HandlePaymentRequest(IF req.shared THEN left ELSE Limit)
    /\ UNCHANGED pvars

\* A foreign endpoint may settle now, later or never; a receipt is honest.
ForeignAnswers ==
    /\ auth.sent
    /\ req.foreign
    /\ spc = "idle"
    /\ settled' \in {settled, TRUE}
    /\ reply' \in {"bare", "refused"} \cup (IF settled' THEN {"receipt"} ELSE {})
    /\ spc' = "done"
    /\ call' = "asked"
    /\ UNCHANGED <<pvars, sleft, gone>>

PayerGone == sdk = "end" /\ ClientGone /\ UNCHANGED pvars
ServerTick == ~req.shared /\ RequestTick /\ UNCHANGED pvars

\* roundtrip closes its server, and the process ends, with the payment.
RoundtripCloses ==
    /\ req.shared
    /\ ppc = "done"
    /\ spc \in {"verify", "settle"}
    /\ spc' = "done"
    /\ UNCHANGED <<pvars, sleft, gone, call, settled, reply>>

Server == Handle /\ UNCHANGED pvars
Facilitator == FacilitatorSettles /\ UNCHANGED pvars

Creation ==
    \/ CreationFails \/ AllowanceRead \/ ApprovalSubmit \/ ApprovalFails \/ ApprovalAnswered
    \/ ApprovalUnknown \/ ApprovalReceipt \/ AllowanceLanded \/ ExportApproval \/ SendPayment

Reply == Delivered \/ NotDelivered \/ PaymentRefused \/ ReplyLost

Next ==
    \/ RequestFails \/ ResourceAnswers \/ LimitsRefuse \/ Inspect \/ StartPayment
    \/ Creation \/ Abort \/ Reply
    \/ Tick \/ ApprovalExecuted \/ PaymentArrives \/ ForeignAnswers
    \/ PayerGone \/ ServerTick \/ RoundtripCloses \/ Server \/ Facilitator

Spec == Init /\ [][Next]_vars

-----------------------------------------------------------------------------
\* docs/machine-interface.md:348: a payment whose request was never sent
\* reports not_sent (or an error from before there was a payment); once the
\* paid request left, an error says unknown, or settled with a receipt.
\* What the SDK still does after the answer must not falsify it.
StatusMatchesWire ==
    result.kind = "error" => (auth.sent <=> result.payment \in {"unknown", "settled"})

\* A payment reported as settled was settled by the facilitator, through every
\* hand the receipt passes on its way to the payer.
ReceiptIsTrue == result.payment = "settled" => settled

\* An approval that can be on the chain, or still get there, is never left out
\* of the report, and one called confirmed or failed is just that
\* (withApproval; docs/machine-interface.md:345).
ApprovalNeverSilent ==
    result.kind \in {"paid", "error"} =>
        /\ approvalTx \in {"asked", "mined"} => result.approval \in {"unknown", "confirmed"}
        /\ result.approval = "confirmed" => approvalTx = "mined"
        /\ result.approval = "failed" => approvalTx = "reverted"

\* The payment and the approval as the two effects of the command.  A delivery
\* without a receipt says of the payment what an unknown outcome says.
PaymentEffect == IF ~auth.sent THEN "none" ELSE IF settled THEN "ok" ELSE "asked"
PaymentTold ==
    IF result.kind = "none" THEN "silent"
    ELSE IF result.payment = "settled" THEN "confirmed"
    ELSE IF result.payment = "unknown" \/ result.kind = "paid" THEN "unknown"
    ELSE "none"

ApprovalEffect ==
    CASE approvalTx = "mined" -> "ok"
      [] approvalTx = "reverted" -> "failed"
      [] OTHER -> approvalTx
ApprovalTold ==
    IF result.kind = "none" THEN "silent"
    ELSE IF result.approval \in {"unknown", "failed", "confirmed"} THEN result.approval
    ELSE "none"

PaymentPromise == INSTANCE Effect WITH effect <- PaymentEffect, answer <- PaymentTold
ApprovalPromise == INSTANCE Effect WITH effect <- ApprovalEffect, answer <- ApprovalTold

\* A payment leaves at most once and only while the command still owes its
\* answer - the SDK outlives it - and what is answered of it stays true,
\* whatever the paywall and the facilitator still do.
OnePayment == PaymentPromise!Spec

\* So does the approval transaction, which may be mined after the answer.
OneApproval == ApprovalPromise!Spec

\* "The payment is signed only after the approval is confirmed and the
\* allowance has landed" (x402-permit2-approval.ts:33).
PaysAfterApproval == auth.sent /\ auth.submitted => approvalTx = "mined"

\* The paywall never starts a settlement after it learnt, while /verify was
\* out, that the client left or that too little time is left.
SettleStartsServed ==
    [][call = "none" /\ call' = "asked" /\ ~req.foreign => ~gone /\ sleft >= Reserve]_vars
=============================================================================
