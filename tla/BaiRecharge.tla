----------------------------- MODULE BaiRecharge -----------------------------
(***************************************************************************)
(* `bai recharge': BaiService.recharge and BaiRechargeFlow.  The command   *)
(* creates an order at B.AI, pays it as an x402 roundtrip with its own     *)
(* paywall (X402Payment), and reports the hash of the payment to B.AI for  *)
(* the credit.                                                             *)
(*                                                                         *)
(* Every step of it is a step of a payment or leaves the payment alone; a  *)
(* plain x402 command is a behaviour in which there is no recharge.        *)
(***************************************************************************)
EXTENDS X402Payment

VARIABLES
    bpc,        \* what the recharge waits for; off: a plain x402 command
    order,      \* the order at B.AI
    credit,     \* what B.AI did with the reported hash
    report      \* what the command says

bvars == <<bpc, order, credit, report>>
allvars == <<vars, bvars>>

\* order: the error names an order (by its id, when B.AI gave one) or leaves it
\* open; hash: the transaction hash of the payment is in the output.
RechargeReport ==
    [payment : {"none", "not_sent", "unknown", "settled"}, order : {"none", "unknown", "named"},
     hash : BOOLEAN, credit : {"none", "unconfirmed", "credited"}]

RechargeTypeOK ==
    /\ bpc \in {"off", "bind", "order", "pay", "index", "report", "done"}
    /\ order \in {"none", "asked", "refused", "created"}
    /\ credit \in {"none", "asked", "refused", "credited"}
    /\ report \in RechargeReport

BaiTypeOK == TypeOK /\ RechargeTypeOK

Nothing == [payment |-> "none", order |-> "none", hash |-> FALSE, credit |-> "none"]

BaiInit ==
    /\ Init
    /\ bpc \in IF req.shared /\ ~req.dry THEN {"off", "bind"} ELSE {"off"}
    /\ order = "none"
    /\ credit = "none"
    /\ report = Nothing

Finish(r) == bpc' = "done" /\ report' = r

-----------------------------------------------------------------------------
(* The order. *)

\* The wallet is bound and the recipient known; createOrder is admitted.
CreateOrder ==
    /\ bpc = "bind"
    /\ Admitted
    /\ bpc' = "order"
    /\ order' = "asked"
    /\ UNCHANGED <<vars, credit, report>>

BindFails ==
    /\ bpc = "bind"
    /\ Finish(Nothing)
    /\ UNCHANGED <<vars, order, credit>>

\* B.AI acts on the order whether or not its reply arrives.
OrderTaken ==
    /\ order = "asked"
    /\ order' \in {"created", "refused"}
    /\ UNCHANGED <<vars, bpc, credit, report>>

OrderCreated ==
    /\ bpc = "order"
    /\ order = "created"
    /\ bpc' = "pay"
    /\ UNCHANGED <<vars, order, credit, report>>

\* Defect: a lost reply is taken for a refusal (no uncertainPreorder).
OrderFailsPlainly ==
    /\ bpc = "order"
    /\ Finish(Nothing)
    /\ UNCHANGED <<vars, order, credit>>

\* A definite refusal, or a reply that leaves the order open.
OrderFails ==
    /\ bpc = "order"
    /\ \/ order = "refused" /\ Finish(Nothing)
       \/ Finish([Nothing EXCEPT !.order = "unknown"])
    /\ UNCHANGED <<vars, order, credit>>

-----------------------------------------------------------------------------
(* The payment and its report. *)

\* Defect: a payment that timed out unsent is tried again.
PaymentReturnsRetry ==
    /\ bpc = "pay"
    /\ ppc = "done"
    /\ \/ /\ result.payment = "not_sent"
          /\ ppc' = "limits"
          /\ UNCHANGED <<bpc, report>>
       \/ /\ result.payment = "settled"
          /\ bpc' = "index"
          /\ UNCHANGED <<ppc, report>>
    /\ UNCHANGED <<req, left, sdk, auth, approvalTx, result, svars, order, credit>>

\* A failed payment keeps its own evidence and names the order; of a paid one
\* baiPaymentResult may still refuse the receipt, whose hash it keeps.
PaymentReturns ==
    /\ bpc = "pay"
    /\ ppc = "done"
    /\ \/ /\ result.kind # "paid"
          /\ Finish([payment |-> result.payment, order |-> "named",
                     hash |-> result.payment = "settled", credit |-> "none"])
       \/ /\ result.kind = "paid"
          /\ Finish([payment |-> "unknown", order |-> "named",
                     hash |-> result.payment = "settled", credit |-> "none"])
       \/ /\ result.kind = "paid"
          /\ result.payment = "settled"
          /\ bpc' = "index"
          /\ UNCHANGED report
    /\ UNCHANGED <<vars, order, credit>>

Unconfirmed(c) == [payment |-> "settled", order |-> "none", hash |-> TRUE, credit |-> c]

\* Defect: a recharge out of time after its payment fails like any command.
ReportHashOrFail ==
    /\ bpc = "index"
    /\ \/ Admitted /\ bpc' = "report" /\ credit' = "asked" /\ UNCHANGED report
       \/ ~Admitted /\ Finish([Nothing EXCEPT !.payment = "unknown"]) /\ UNCHANGED credit
    /\ UNCHANGED <<vars, order>>

\* The wait for B.AI's indexer ends.  The report is not sent when there is no
\* time for it, or when the payer is not the one of the order.
ReportHash ==
    /\ bpc = "index"
    /\ \/ Admitted /\ bpc' = "report" /\ credit' = "asked" /\ UNCHANGED report
       \/ Finish(Unconfirmed("unconfirmed")) /\ UNCHANGED credit
    /\ UNCHANGED <<vars, order>>

BaiCredits ==
    /\ credit = "asked"
    /\ credit' \in {"credited", "refused"}
    /\ UNCHANGED <<vars, bpc, order, report>>

ReportAnswers ==
    /\ bpc = "report"
    /\ credit = "credited"
    /\ Finish(Unconfirmed("credited"))
    /\ UNCHANGED <<vars, order, credit>>

\* B.AI has not indexed the payment, or its answer is lost.
ReportFails ==
    /\ bpc = "report"
    /\ Finish(Unconfirmed("unconfirmed"))
    /\ UNCHANGED <<vars, order, credit>>

Recharge ==
    \/ CreateOrder \/ BindFails \/ OrderCreated \/ OrderFails
    \/ PaymentReturns \/ ReportHash \/ ReportAnswers \/ ReportFails

\* The payment begins when the order is created; what is left of it may
\* outlast its part of the command.
Begun == bpc \in {"off", "pay"} \/ ppc = "done"

Payment == Begun /\ Next /\ UNCHANGED bvars
Waiting == ~Begun /\ Tick /\ UNCHANGED bvars

BaiNext == Payment \/ Waiting \/ Recharge \/ OrderTaken \/ BaiCredits

BaiSpec == BaiInit /\ [][BaiNext]_allvars

-----------------------------------------------------------------------------
\* A recharge is one payment: its order, its report and what goes wrong with
\* them never touch the payment, begin a second one or undo its outcome.
RechargeIsAPayment == Spec

\* "No payment retries; retain the paid hash for report-only recovery"
\* (bai-recharge-flow.ts:26): once the payer holds a receipt, the output of
\* the recharge has the hash, whatever fails afterwards.
HashRetained == bpc = "done" /\ result.payment = "settled" => report.hash

\* A recharge that says not_sent, or nothing of a payment, moved no money.
RechargeAdmitsPayment == bpc = "done" /\ settled => report.payment \in {"unknown", "settled"}

\* Credit is reported only for a payment that settled and that B.AI credited.
CreditIsTrue == report.credit = "credited" => credit = "credited" /\ settled

\* An order that B.AI may hold is named in the error or left open there; a
\* recharge that is paid needs no order any more.
OrderAccounted ==
    bpc = "done" /\ order \in {"asked", "created"} =>
        report.order # "none" \/ report.payment = "settled"

\* No money moves without an order.
OrderBeforePayment == bpc # "off" /\ auth.sent => order = "created"
=============================================================================
