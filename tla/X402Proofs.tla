----------------------------- MODULE X402Proofs -----------------------------
(***************************************************************************)
(* Proofs about an x402 payment: for every time limit and every reserve,   *)
(* what the payer is told agrees with what left its process and with what  *)
(* the other side did.  A recharge at B.AI implements the payment, and so  *)
(* has its invariants, and keeps the evidence of it.                       *)
(***************************************************************************)
EXTENDS BaiRecharge, TLAPS

Creating == {"allowance", "build", "submit", "confirm", "reread", "export", "sign"}

\* The command waits exactly while the SDK works for it; an SDK that outlives
\* it does so with no time left, and is still creating the payment.
Stages ==
    /\ ppc \in {"request", "limits"} => sdk = "idle"
    /\ ppc = "paying" => sdk \in Creating \cup {"wait"}
    /\ ppc = "done" => sdk \in Creating \cup {"idle", "end"}
    /\ ppc = "done" /\ sdk \in Creating => left = 0
    /\ auth.sent => sdk \in {"wait", "end"}
    /\ sdk = "wait" => auth.sent
    /\ result.kind # "none" <=> ppc = "done"

\* Where an approval stands at each stage of the SDK.
Approval ==
    /\ auth.submitted <=> approvalTx # "none"
    /\ sdk \in {"idle", "allowance", "build", "export"} =>
           ~auth.submitted /\ auth.approval = "none" /\ auth.failure = "none"
    /\ sdk \in {"submit", "confirm"} =>
           auth.submitted /\ auth.approval = "none" /\ auth.failure = "none"
    /\ sdk \in {"reread", "sign", "wait"} =>
           /\ auth.submitted => auth.approval = "confirmed"
           /\ auth.failure = "none"
    /\ auth.approval = "confirmed" => approvalTx = "mined"
    /\ auth.approval = "exported" => ~auth.submitted
    /\ approvalTx = "refused" => auth.failure = "plain"
    /\ auth.failure = "plain" => approvalTx \in {"none", "refused"}
    /\ auth.failure = "reverted" => approvalTx = "reverted"
    /\ auth.sent /\ auth.submitted => auth.approval = "confirmed"

\* A receipt on its way is the facilitator's.
Receipts ==
    /\ reply = "receipt" => settled
    /\ result.kind = "none" => result.payment = "none" /\ result.approval = "none"

IInv ==
    /\ TypeOK
    /\ Stages
    /\ Approval
    /\ Receipts
    /\ StatusMatchesWire
    /\ ReceiptIsTrue
    /\ ApprovalNeverSilent

-----------------------------------------------------------------------------
\* Nothing is paid, approved or reported at the start.
LEMMA InitInv == Init => IInv
<1> SUFFICES ASSUME Init PROVE IInv
  OBVIOUS
<1> USE LimitAssumption DEF Init, PaywallInit
<1>1. PaywallTypeOK
  <2>1. sleft \in 0 .. Limit
    OBVIOUS
  <2> QED
    BY <2>1 DEF PaywallTypeOK
<1>2. req \in Request /\ left \in 0 .. Limit
  OBVIOUS
<1>3. auth \in Authorization /\ result \in Result
  BY DEF Authorization, Result
<1>4. TypeOK
  BY <1>1, <1>2, <1>3 DEF TypeOK
<1>5. Stages /\ Approval /\ Receipts
  BY DEF Stages, Approval, Receipts, Creating
<1>6. StatusMatchesWire /\ ReceiptIsTrue /\ ApprovalNeverSilent
  BY DEF StatusMatchesWire, ReceiptIsTrue, ApprovalNeverSilent
<1> QED
  BY <1>4, <1>5, <1>6 DEF IInv

\* The command up to the payment: nothing was sent or submitted.
LEMMA BeforePayment ==
    ASSUME IInv,
           RequestFails \/ ResourceAnswers \/ LimitsRefuse \/ Inspect \/ StartPayment
    PROVE  IInv'
<1> USE DEF IInv, TypeOK, PaywallTypeOK, Stages, Approval, Receipts, StatusMatchesWire,
            ReceiptIsTrue, ApprovalNeverSilent, Creating, svars, End, Authorization
<1>0. /\ ~auth.sent /\ ~auth.submitted /\ auth.approval = "none"
      /\ approvalTx = "none" /\ sdk = "idle" /\ ppc \in {"request", "limits"}
  BY DEF RequestFails, ResourceAnswers, LimitsRefuse, Inspect, StartPayment
<1>1. ASSUME NEW p \in {"none", "not_sent"}
      PROVE  Error(p, auth) = [kind |-> "error", payment |-> p, approval |-> "none"]
  BY <1>0 DEF Error, ApprovalEvidence
<1>2. CASE RequestFails
  BY <1>0, <1>1, <1>2 DEF RequestFails, Result
<1>3. CASE ResourceAnswers
  BY <1>0, <1>3 DEF ResourceAnswers, Result
<1>4. CASE LimitsRefuse
  BY <1>0, <1>1, <1>4 DEF LimitsRefuse, Result
<1>5. CASE Inspect
  BY <1>0, <1>5 DEF Inspect, Result
<1>6. CASE StartPayment
  BY <1>0, <1>6 DEF StartPayment, Request
<1> QED
  BY <1>2, <1>3, <1>4, <1>5, <1>6

\* Creating the payment, in the command or behind its back.
LEMMA CreationStep == ASSUME IInv, Creation PROVE IInv'
<1> USE DEF IInv, TypeOK, PaywallTypeOK, Stages, Approval, Receipts, StatusMatchesWire,
            ReceiptIsTrue, ApprovalNeverSilent, Creating, svars, End, Report, Active, Admitted
<1>0. auth.sent \in BOOLEAN /\ auth.submitted \in BOOLEAN
  BY DEF Authorization
<1>1. CASE CreationFails
  BY <1>1 DEF CreationFails, SdkThrows, Classified, Error, ApprovalEvidence, Result, Authorization
<1>2. CASE AllowanceRead
  BY <1>2 DEF AllowanceRead
<1>3. CASE ApprovalSubmit
  <2>1. /\ auth' \in Authorization
        /\ auth'.submitted /\ ~auth'.sent /\ auth'.approval = "none" /\ auth'.failure = "none"
    BY <1>3 DEF ApprovalSubmit, Authorization
  <2>2. ppc = "paying" /\ result.kind = "none"
    BY <1>3 DEF ApprovalSubmit
  <2> QED
    BY <1>3, <2>1, <2>2 DEF ApprovalSubmit
<1>4. CASE ApprovalFails
  BY <1>4 DEF ApprovalFails, SdkThrows, Classified, Error, ApprovalEvidence, Result, Authorization
<1>5. CASE ApprovalAnswered
  BY <1>5
     DEF ApprovalAnswered, SdkThrows, Classified, Error, ApprovalEvidence, Result, Authorization
<1>6. CASE ApprovalUnknown
  BY <1>6
     DEF ApprovalUnknown, SdkThrows, Classified, Error, ApprovalEvidence, Result, Authorization
<1>7. CASE ApprovalReceipt
  BY <1>7
     DEF ApprovalReceipt, SdkThrows, Classified, Error, ApprovalEvidence, Result, Authorization
<1>8. CASE AllowanceLanded
  BY <1>8 DEF AllowanceLanded
<1>9. CASE ExportApproval
  BY <1>9 DEF ExportApproval, Authorization
<1>10. CASE SendPayment
  <2>1. /\ auth' \in Authorization /\ auth'.sent
        /\ auth'.submitted = auth.submitted
        /\ auth'.approval = auth.approval /\ auth'.failure = "none"
    BY <1>10 DEF SendPayment, Authorization
  <2>2. ppc = "paying" /\ result.kind = "none"
    BY <1>10 DEF SendPayment
  <2> QED
    BY <1>10, <2>1, <2>2 DEF SendPayment
<1> QED
  BY <1>1, <1>2, <1>3, <1>4, <1>5, <1>6, <1>7, <1>8, <1>9, <1>10 DEF Creation

\* The command's end: the deadline, or what came of the paid request.
LEMMA EndStep == ASSUME IInv, Abort \/ Reply PROVE IInv'
<1> USE DEF IInv, TypeOK, PaywallTypeOK, Stages, Approval, Receipts, StatusMatchesWire,
            ReceiptIsTrue, ApprovalNeverSilent, Creating, svars, End, Receive
<1>1. CASE Abort
  BY <1>1 DEF Abort, Classified, Error, ApprovalEvidence, Result, Authorization
<1>2. CASE Delivered
  BY <1>2 DEF Delivered, Result, Authorization
<1>3. CASE NotDelivered
  BY <1>3 DEF NotDelivered, Error, ApprovalEvidence, Result, Authorization
<1>4. CASE PaymentRefused
  BY <1>4 DEF PaymentRefused, Classified, Error, ApprovalEvidence, Result, Authorization
<1>5. CASE ReplyLost
  BY <1>5 DEF ReplyLost, Classified, Error, ApprovalEvidence, Result, Authorization
<1> QED
  BY <1>1, <1>2, <1>3, <1>4, <1>5 DEF Reply

\* The clock, the chain and the seller's side.
LEMMA WorldStep ==
    ASSUME IInv,
           \/ Tick \/ ApprovalExecuted \/ PaymentArrives \/ ForeignAnswers
           \/ PayerGone \/ ServerTick \/ RoundtripCloses \/ Server \/ Facilitator
    PROVE  IInv'
<1> USE LimitAssumption
        DEF IInv, TypeOK, PaywallTypeOK, Stages, Approval, Receipts, StatusMatchesWire,
            ReceiptIsTrue, ApprovalNeverSilent, Creating, svars, pvars
<1>1. CASE Tick
  BY <1>1 DEF Tick
<1>2. CASE ApprovalExecuted
  BY <1>2 DEF ApprovalExecuted
<1>3. CASE PaymentArrives
  BY <1>3 DEF PaymentArrives, HandlePaymentRequest
<1>4. CASE ForeignAnswers
  <2>1. settled' \in BOOLEAN /\ (settled => settled')
    <3>1. settled' = settled \/ settled' = TRUE
      BY <1>4 DEF ForeignAnswers
    <3> QED
      BY <3>1
  <2>2. reply' \in {"receipt", "bare", "refused"}
    BY <1>4 DEF ForeignAnswers
  <2>3. CASE settled'
    BY <1>4, <2>1, <2>2, <2>3 DEF ForeignAnswers
  <2>4. CASE ~settled'
    <3>1. reply' \in {"bare", "refused"}
      BY <1>4, <2>4 DEF ForeignAnswers
    <3> QED
      BY <1>4, <2>1, <2>4, <3>1 DEF ForeignAnswers
  <2> QED
    BY <2>1, <2>3, <2>4
<1>5. CASE PayerGone
  BY <1>5 DEF PayerGone, ClientGone
<1>6. CASE ServerTick
  BY <1>6 DEF ServerTick, RequestTick
<1>7. CASE RoundtripCloses
  BY <1>7 DEF RoundtripCloses
<1>8. CASE Server
  BY <1>8 DEF Server, Handle, VerifyRefuses, VerifyAccepts, SettleAnswers, SettleFails, Respond
<1>9. CASE Facilitator
  BY <1>9 DEF Facilitator, FacilitatorSettles
<1> QED
  BY <1>1, <1>2, <1>3, <1>4, <1>5, <1>6, <1>7, <1>8, <1>9

LEMMA NextInv == IInv /\ [Next]_vars => IInv'
<1> SUFFICES ASSUME IInv, [Next]_vars PROVE IInv'
  OBVIOUS
<1>1. CASE UNCHANGED vars
  BY <1>1 DEF IInv, TypeOK, PaywallTypeOK, Stages, Approval, Receipts, StatusMatchesWire,
              ReceiptIsTrue, ApprovalNeverSilent, vars, pvars, svars
<1>2. CASE Next
  BY <1>2, BeforePayment, CreationStep, EndStep, WorldStep DEF Next
<1> QED
  BY <1>1, <1>2

LEMMA Invariance == Spec => []IInv
BY InitInv, NextInv, PTL DEF Spec

-----------------------------------------------------------------------------
\* Every variable of the payer and of the paywall keeps its type.
THEOREM TypeCorrect == Spec => []TypeOK
<1>1. IInv => TypeOK
  BY DEF IInv
<1> QED
  BY <1>1, Invariance, PTL

\* An error says not_sent exactly when the paid request never leaves.
THEOREM StatusMatchesWireHolds == Spec => []StatusMatchesWire
<1>1. IInv => StatusMatchesWire
  BY DEF IInv
<1> QED
  BY <1>1, Invariance, PTL

\* What is reported as settled was settled.
THEOREM ReceiptIsTrueHolds == Spec => []ReceiptIsTrue
<1>1. IInv => ReceiptIsTrue
  BY DEF IInv
<1> QED
  BY <1>1, Invariance, PTL

\* No approval that is or may get on the chain is left out of the report.
THEOREM ApprovalNeverSilentHolds == Spec => []ApprovalNeverSilent
<1>1. IInv => ApprovalNeverSilent
  BY DEF IInv
<1> QED
  BY <1>1, Invariance, PTL

\* The payment follows its approval.
THEOREM PaysAfterApprovalHolds == Spec => []PaysAfterApproval
<1>1. IInv => PaysAfterApproval
  BY DEF IInv, TypeOK, Authorization, Approval, PaysAfterApproval
<1> QED
  BY <1>1, Invariance, PTL

\* The paywall asks for a settlement only for a client that is still there, and with time
\* for the answer: what it learnt while /verify was out decides (settlementRefusal).
THEOREM SettleStartsServedHolds == Spec => SettleStartsServed
<1> DEFINE Starts == call = "none" /\ call' = "asked" /\ ~req.foreign
<1>1. ASSUME [Next]_vars, Starts PROVE ~gone /\ sleft >= Reserve
  <2>1. CASE Server
    BY <1>1, <2>1 DEF Server, Handle, VerifyRefuses, VerifyAccepts, MaySettle, SettleAnswers, SettleFails
  <2>2. CASE ForeignAnswers \/ PaymentArrives \/ PayerGone \/ ServerTick \/ RoundtripCloses \/ Facilitator
    BY <1>1, <2>2 DEF ForeignAnswers, PaymentArrives, HandlePaymentRequest, PayerGone, ClientGone, ServerTick,
       RequestTick, RoundtripCloses, Facilitator, FacilitatorSettles
  <2>3. CASE RequestFails \/ ResourceAnswers \/ LimitsRefuse \/ Inspect \/ StartPayment \/ Abort
             \/ Tick \/ ApprovalExecuted
    BY <1>1, <2>3 DEF RequestFails, ResourceAnswers, LimitsRefuse, Inspect, StartPayment, Abort, Tick,
       ApprovalExecuted, svars
  <2>4. CASE Creation
    BY <1>1, <2>4 DEF Creation, CreationFails, AllowanceRead, ApprovalSubmit, ApprovalFails, ApprovalAnswered,
       ApprovalUnknown, ApprovalReceipt, AllowanceLanded, ExportApproval, SendPayment, svars
  <2>5. CASE Reply
    BY <1>1, <2>5 DEF Reply, Delivered, NotDelivered, PaymentRefused, ReplyLost, svars
  <2>6. CASE UNCHANGED vars
    BY <1>1, <2>6 DEF vars, svars
  <2> QED
    BY <1>1, <2>1, <2>2, <2>3, <2>4, <2>5, <2>6 DEF Next
<1>2. [Next]_vars => [Starts => ~gone /\ sleft >= Reserve]_vars
  BY <1>1
<1> QED
  BY <1>2, PTL DEF Spec, SettleStartsServed

-----------------------------------------------------------------------------
(* A recharge at B.AI. *)

\* A recharge begins as a command that has not paid, and each of its steps is
\* a step of the payment or leaves the payment alone: it is one payment.
THEOREM RechargeIsAPaymentHolds == BaiSpec => RechargeIsAPayment
<1>1. BaiInit => Init
  BY DEF BaiInit
<1>2. [BaiNext]_allvars => [Next]_vars
  <2> SUFFICES ASSUME [BaiNext]_allvars PROVE [Next]_vars
    OBVIOUS
  <2>1. CASE UNCHANGED allvars
    BY <2>1 DEF allvars
  <2>2. CASE Payment
    BY <2>2 DEF Payment
  <2>3. CASE Waiting
    BY <2>3 DEF Waiting, Next
  <2>4. CASE Recharge
    BY <2>4 DEF Recharge, CreateOrder, BindFails, OrderCreated, OrderFails, PaymentReturns,
                ReportHash, ReportAnswers, ReportFails
  <2>5. CASE OrderTaken \/ BaiCredits
    BY <2>5 DEF OrderTaken, BaiCredits
  <2> QED
    BY <2>1, <2>2, <2>3, <2>4, <2>5 DEF BaiNext
<1> QED
  BY <1>1, <1>2, PTL DEF BaiSpec, RechargeIsAPayment, Spec

-----------------------------------------------------------------------------
\* Nothing reaches the paywall, and no money moves, before the paid request.
Money == spc # "idle" \/ call # "none" \/ settled => auth.sent

\* Where order, payment and credit stand at each stage; the payment is over
\* once the recharge looks at it.
RechargeStages ==
    /\ bpc # "off" => req.shared /\ ~req.dry /\ result.kind \notin {"served", "inspection"}
    /\ bpc = "bind" => order = "none"
    /\ bpc \in {"bind", "order"} => ppc = "request"
    /\ bpc \in {"pay", "index", "report"} => order = "created"
    /\ bpc \in {"index", "report"} => ppc = "done" /\ result.payment = "settled"
    /\ credit # "none" => ppc = "done" /\ result.payment = "settled"

\* What a recharge that has ended says of order, payment and credit.
RechargeEvidence ==
    /\ bpc # "done" => report = Nothing
    /\ bpc = "done" =>
           /\ ppc \in {"request", "done"}
           /\ result.payment = "settled" => report.hash
           /\ auth.sent => order = "created" /\ report.payment \in {"unknown", "settled"}
           /\ report.credit = "credited" => credit = "credited"

BaiInv ==
    /\ IInv
    /\ RechargeTypeOK
    /\ Money
    /\ RechargeStages
    /\ RechargeEvidence
    /\ OrderAccounted

\* A recharge begins with no order and nothing to say.
LEMMA BaiInitInv == BaiInit => BaiInv
<1> SUFFICES ASSUME BaiInit PROVE BaiInv
  OBVIOUS
<1>1. IInv
  BY InitInv DEF BaiInit
<1>2. RechargeTypeOK
  BY DEF BaiInit, RechargeTypeOK, Nothing, RechargeReport
<1>3. /\ ppc = "request" /\ spc = "idle" /\ call = "none" /\ ~settled
      /\ result.kind = "none" /\ result.payment = "none"
  BY DEF BaiInit, Init, PaywallInit
<1>4. bpc = "off" \/ (bpc = "bind" /\ req.shared /\ ~req.dry)
  BY DEF BaiInit
<1>5. order = "none" /\ credit = "none" /\ report = Nothing
  BY DEF BaiInit
<1>6. Money /\ RechargeStages /\ RechargeEvidence /\ OrderAccounted
  BY <1>3, <1>4, <1>5 DEF Money, RechargeStages, RechargeEvidence, OrderAccounted, Nothing
<1> QED
  BY <1>1, <1>2, <1>6 DEF BaiInv

\* A payment keeps its request; once it is done, its outcome and what was sent
\* stay; a roundtrip that is not a dry run is neither served free nor inspected.
LEMMA PaymentKeeps ==
    ASSUME IInv, Money, Next
    PROVE  /\ req' = req
           /\ ppc = "done" => ppc' = "done" /\ result' = result /\ auth'.sent = auth.sent
           /\ req.shared /\ ~req.dry /\ result.kind \notin {"served", "inspection"} =>
                  result'.kind \notin {"served", "inspection"}
           /\ Money'
<1> USE DEF IInv, TypeOK, PaywallTypeOK, Stages, Money, Creating, svars, pvars, End
<1>1. CASE RequestFails \/ ResourceAnswers \/ LimitsRefuse \/ Inspect \/ StartPayment
  BY <1>1 DEF RequestFails, ResourceAnswers, LimitsRefuse, Inspect, StartPayment, Error, Request
<1>2. CASE CreationFails \/ AllowanceRead \/ AllowanceLanded \/ ApprovalUnknown
  BY <1>2 DEF CreationFails, AllowanceRead, AllowanceLanded, ApprovalUnknown, SdkThrows, Report,
              Classified, Error, Authorization
<1>3. CASE ApprovalSubmit \/ ApprovalFails \/ ApprovalAnswered
  BY <1>3 DEF ApprovalSubmit, ApprovalFails, ApprovalAnswered, SdkThrows, Report, Classified,
              Error, Authorization
<1>4. CASE ApprovalReceipt \/ ExportApproval
  BY <1>4 DEF ApprovalReceipt, ExportApproval, SdkThrows, Report, Classified, Error,
              Authorization
<1>5. CASE SendPayment
  <2>1. auth'.sent
    BY <1>5 DEF SendPayment, Authorization
  <2>2. ppc # "done"
    BY <1>5 DEF SendPayment, Admitted, Active
  <2> QED
    BY <1>5, <2>1, <2>2 DEF SendPayment
<1>6. CASE Abort \/ Reply
  BY <1>6 DEF Abort, Reply, Delivered, NotDelivered, PaymentRefused, ReplyLost, Receive,
              Classified, Error
<1>7. CASE Tick \/ ApprovalExecuted \/ PaymentArrives \/ ForeignAnswers
  <2>1. CASE Tick \/ ApprovalExecuted
    BY <1>7, <2>1 DEF Tick, ApprovalExecuted
  <2>2. CASE PaymentArrives
    BY <2>2 DEF PaymentArrives, HandlePaymentRequest
  <2>3. CASE ForeignAnswers
    BY <2>3 DEF ForeignAnswers
  <2> QED
    BY <1>7, <2>1, <2>2, <2>3
<1>8. CASE PayerGone \/ ServerTick \/ RoundtripCloses
  BY <1>8 DEF PayerGone, ClientGone, ServerTick, RequestTick, RoundtripCloses
<1>9. CASE Server \/ Facilitator
  BY <1>9 DEF Server, Handle, VerifyRefuses, VerifyAccepts, SettleAnswers, SettleFails, Respond,
              Facilitator, FacilitatorSettles
<1> QED
  BY <1>1, <1>2, <1>3, <1>4, <1>5, <1>6, <1>7, <1>8, <1>9 DEF Next, Creation

\* The steps of the payment leave what the recharge knows in place.
LEMMA PaymentStep == ASSUME BaiInv, Payment PROVE BaiInv'
<1>1. Next /\ UNCHANGED bvars /\ Begun
  BY DEF Payment
<1>2. IInv'
  BY <1>1, NextInv DEF BaiInv
<1>3. /\ req' = req
      /\ ppc = "done" => ppc' = "done" /\ result' = result /\ auth'.sent = auth.sent
      /\ req.shared /\ ~req.dry /\ result.kind \notin {"served", "inspection"} =>
             result'.kind \notin {"served", "inspection"}
      /\ Money'
  BY <1>1, PaymentKeeps DEF BaiInv
<1> QED
  BY <1>1, <1>2, <1>3
     DEF BaiInv, bvars, Begun, RechargeTypeOK, RechargeStages, RechargeEvidence, OrderAccounted

\* The deadline of a recharge runs before and after its payment.
LEMMA WaitingStep == ASSUME BaiInv, Waiting PROVE BaiInv'
<1>1. Tick /\ UNCHANGED bvars
  BY DEF Waiting
<1>2. IInv'
  BY <1>1, NextInv DEF BaiInv, Next
<1> QED
  BY <1>1, <1>2
     DEF Tick, BaiInv, bvars, RechargeTypeOK, Money, RechargeStages, RechargeEvidence, OrderAccounted

\* The orders, the report and the end of a recharge.
LEMMA RechargeStep == ASSUME BaiInv, Recharge \/ OrderTaken \/ BaiCredits PROVE BaiInv'
<1>1. UNCHANGED vars
  BY DEF Recharge, OrderTaken, BaiCredits, CreateOrder, BindFails, OrderCreated, OrderFails,
         PaymentReturns, ReportHash, ReportAnswers, ReportFails
<1>2. IInv'
  BY <1>1, NextInv DEF BaiInv
<1>3. /\ UNCHANGED <<req, ppc, auth, result, spc, call, settled>>
      /\ Money'
  BY <1>1 DEF vars, pvars, svars, Money, BaiInv
<1>4. RechargeTypeOK /\ RechargeStages /\ RechargeEvidence /\ OrderAccounted
  BY DEF BaiInv
<1> SUFFICES RechargeTypeOK' /\ RechargeStages' /\ RechargeEvidence' /\ OrderAccounted'
  BY <1>2, <1>3 DEF BaiInv
<1> USE <1>3, <1>4 DEF RechargeStages, RechargeEvidence, OrderAccounted
<1>5. CASE CreateOrder \/ OrderCreated \/ OrderTaken \/ BaiCredits
  BY <1>5 DEF CreateOrder, OrderCreated, OrderTaken, BaiCredits, RechargeTypeOK
<1>6. CASE BindFails \/ OrderFails
  <2>1. /\ Nothing \in RechargeReport
        /\ [Nothing EXCEPT !.order = "unknown"] \in RechargeReport
        /\ [Nothing EXCEPT !.order = "unknown"].order = "unknown"
        /\ [Nothing EXCEPT !.order = "unknown"].credit = "none" /\ Nothing.credit = "none"
    BY DEF Nothing, RechargeReport
  <2>2. ~auth.sent /\ result.payment # "settled"
    BY <1>6 DEF BindFails, OrderFails, BaiInv, IInv, Stages, Receipts, Creating
  <2>3. CASE BindFails
    BY <2>1, <2>2, <2>3 DEF BindFails, Finish, RechargeTypeOK
  <2>4. CASE OrderFails
    <3> DEFINE r == [Nothing EXCEPT !.order = "unknown"]
    <3>1. CASE order = "refused" /\ Finish(Nothing)
      BY <2>1, <2>2, <2>4, <3>1 DEF OrderFails, Finish, RechargeTypeOK
    <3>2. CASE Finish(r)
      <4>1. report' \in RechargeReport /\ report'.order = "unknown" /\ report'.credit = "none"
        BY <2>1, <3>2 DEF Finish
      <4> QED
        BY <2>2, <2>4, <3>2, <4>1 DEF OrderFails, Finish, RechargeTypeOK
    <3> QED
      BY <2>4, <3>1, <3>2 DEF OrderFails
  <2> QED
    BY <1>6, <2>3, <2>4
<1>7. CASE PaymentReturns
  <2>1. /\ result.kind \in {"paid", "error"}
        /\ result.payment \in {"none", "not_sent", "unknown", "settled"}
        /\ result.kind = "error" =>
               (auth.sent <=> result.payment \in {"unknown", "settled"})
        /\ result.payment = "settled" => auth.sent
        /\ auth.sent \in BOOLEAN
    BY <1>7 DEF PaymentReturns, BaiInv, IInv, TypeOK, Result, Authorization, Stages,
                StatusMatchesWire, ReceiptIsTrue, Money
  <2>2. CASE bpc' = "index"
    BY <1>7, <2>1, <2>2 DEF PaymentReturns, Finish, RechargeTypeOK
  <2>3. CASE bpc' = "done"
    <3> DEFINE h == result.payment = "settled"
    <3> DEFINE r(p) == [payment |-> p, order |-> "named", hash |-> h, credit |-> "none"]
    <3>1. PICK p \in {"none", "not_sent", "unknown", "settled"} :
              report' = r(p) /\ (auth.sent => p \in {"unknown", "settled"})
      <4>1. CASE result.kind # "paid" /\ report' = r(result.payment)
        BY <2>1, <4>1
      <4>2. CASE report' = r("unknown")
        BY <4>2
      <4> QED
        BY <1>7, <2>1, <2>3, <4>1, <4>2 DEF PaymentReturns, Finish
    <3>2. /\ report' \in RechargeReport
          /\ report'.order = "named" /\ report'.credit = "none" /\ report'.payment = p
          /\ result.payment = "settled" => report'.hash
      <4>1. h \in BOOLEAN
        OBVIOUS
      <4> HIDE DEF h
      <4>2. r(p) \in RechargeReport /\ r(p).hash = h
        BY <4>1 DEF RechargeReport
      <4>3. /\ report' \in RechargeReport /\ report'.hash = h
            /\ report'.order = "named" /\ report'.credit = "none" /\ report'.payment = p
        BY <3>1, <4>2
      <4> USE DEF h
      <4> QED
        BY <4>3
    <3> QED
      BY <1>7, <2>1, <2>3, <3>1, <3>2 DEF PaymentReturns, Finish, RechargeTypeOK
  <2> QED
    BY <1>7, <2>2, <2>3 DEF PaymentReturns, Finish
<1>8. ASSUME NEW c \in {"unconfirmed", "credited"}
      PROVE  /\ Unconfirmed(c) \in RechargeReport
             /\ Unconfirmed(c).hash /\ Unconfirmed(c).payment = "settled"
             /\ Unconfirmed(c).credit = c
  BY DEF Unconfirmed, RechargeReport
<1>9. CASE ReportHash
  BY <1>8, <1>9 DEF ReportHash, Finish, RechargeTypeOK
<1>10. CASE ReportAnswers \/ ReportFails
  BY <1>8, <1>10 DEF ReportAnswers, ReportFails, Finish, RechargeTypeOK
<1> QED
  BY <1>5, <1>6, <1>7, <1>9, <1>10 DEF Recharge

LEMMA BaiNextInv == BaiInv /\ [BaiNext]_allvars => BaiInv'
<1> SUFFICES ASSUME BaiInv, [BaiNext]_allvars PROVE BaiInv'
  OBVIOUS
<1>1. CASE UNCHANGED allvars
  <2>1. IInv'
    BY <1>1, NextInv DEF allvars, BaiInv
  <2> QED
    BY <1>1, <2>1 DEF allvars, vars, pvars, svars, bvars, BaiInv, RechargeTypeOK, Money,
                      RechargeStages, RechargeEvidence, OrderAccounted
<1>2. CASE BaiNext
  BY <1>2, PaymentStep, WaitingStep, RechargeStep DEF BaiNext
<1> QED
  BY <1>1, <1>2

LEMMA BaiInvariance == BaiSpec => []BaiInv
BY BaiInitInv, BaiNextInv, PTL DEF BaiSpec

\* The payment, and what the recharge keeps of order, credit and report, have
\* their types.
THEOREM BaiTypeCorrect == BaiSpec => []BaiTypeOK
<1>1. BaiInv => BaiTypeOK
  BY DEF BaiInv, IInv, BaiTypeOK
<1> QED
  BY <1>1, BaiInvariance, PTL

\* A payer that holds a receipt finds its hash in the output.
THEOREM HashRetainedHolds == BaiSpec => []HashRetained
<1>1. BaiInv => HashRetained
  BY DEF BaiInv, RechargeEvidence, HashRetained
<1> QED
  BY <1>1, BaiInvariance, PTL

\* A recharge that denies a payment moved no money.
THEOREM RechargeAdmitsPaymentHolds == BaiSpec => []RechargeAdmitsPayment
<1>1. BaiInv => RechargeAdmitsPayment
  BY DEF BaiInv, Money, RechargeEvidence, RechargeAdmitsPayment
<1> QED
  BY <1>1, BaiInvariance, PTL

\* Reported credit was given, for money that moved.
THEOREM CreditIsTrueHolds == BaiSpec => []CreditIsTrue
<1>1. BaiInv => CreditIsTrue
  <2> SUFFICES ASSUME BaiInv, report.credit = "credited"
               PROVE  credit = "credited" /\ settled
    BY DEF CreditIsTrue
  <2>1. bpc = "done"
    BY DEF BaiInv, RechargeEvidence, Nothing
  <2>2. credit = "credited"
    BY <2>1 DEF BaiInv, RechargeEvidence
  <2> QED
    BY <2>2 DEF BaiInv, RechargeStages, IInv, ReceiptIsTrue
<1> QED
  BY <1>1, BaiInvariance, PTL

\* No order that B.AI may hold goes unmentioned.
THEOREM OrderAccountedHolds == BaiSpec => []OrderAccounted
<1>1. BaiInv => OrderAccounted
  BY DEF BaiInv
<1> QED
  BY <1>1, BaiInvariance, PTL

\* The order comes first.
THEOREM OrderBeforePaymentHolds == BaiSpec => []OrderBeforePayment
<1>1. BaiInv => OrderBeforePayment
  <2> SUFFICES ASSUME BaiInv, bpc # "off", auth.sent
               PROVE  order = "created"
    BY DEF OrderBeforePayment
  <2>1. bpc \notin {"bind", "order"}
    BY DEF BaiInv, RechargeStages, IInv, Stages
  <2> QED
    BY <2>1 DEF BaiInv, RechargeTypeOK, RechargeStages, RechargeEvidence
<1> QED
  BY <1>1, BaiInvariance, PTL
-----------------------------------------------------------------------------
(* The payment and the approval, each the one effect it is (Effect). *)

\* A command that did not try to pay has sent and approved nothing, and never
\* will; a delivery has a receipt or says nothing of the payment.
Untried ==
    /\ result.kind \in {"served", "inspection"} =>
           /\ sdk = "idle" /\ ~auth.sent /\ approvalTx = "none"
           /\ result.payment = "none" /\ result.approval = "none"
    /\ result.kind = "paid" => result.payment \in {"none", "settled"}

\* An approval that is left out of the answer is not and will not be on the chain.
ApprovalDenied ==
    result.kind \in {"paid", "error"} /\ result.approval \in {"none", "exported"} =>
        approvalTx \in {"none", "refused"}

EffectInv == IInv /\ Money /\ Untried /\ ApprovalDenied

LEMMA UntriedKeeps == ASSUME EffectInv, Next PROVE Untried'
<1> USE DEF EffectInv, IInv, TypeOK, Stages, Approval, Untried, Creating, svars, pvars, End
<1>1. CASE RequestFails \/ ResourceAnswers \/ LimitsRefuse \/ Inspect \/ StartPayment
  BY <1>1 DEF RequestFails, ResourceAnswers, LimitsRefuse, Inspect, StartPayment, Error, Receipts
<1>2. CASE Creation
  <2>1. sdk # "idle"
    BY <1>2 DEF Creation, CreationFails, AllowanceRead, ApprovalSubmit, ApprovalFails, ApprovalAnswered,
       ApprovalUnknown, ApprovalReceipt, AllowanceLanded, ExportApproval, SendPayment
  <2>2. UNCHANGED result \/ result'.kind = "error"
    BY <1>2 DEF Creation, CreationFails, AllowanceRead, ApprovalSubmit, ApprovalFails, ApprovalAnswered,
       ApprovalUnknown, ApprovalReceipt, AllowanceLanded, ExportApproval, SendPayment, SdkThrows, Report,
       Classified, Error
  <2> QED
    BY <2>1, <2>2
<1>3. CASE Abort \/ Reply
  BY <1>3 DEF Abort, Reply, Delivered, NotDelivered, PaymentRefused, ReplyLost, Receive, Classified, Error
<1>4. CASE \/ Tick \/ ApprovalExecuted \/ PaymentArrives \/ ForeignAnswers
           \/ PayerGone \/ ServerTick \/ RoundtripCloses \/ Server \/ Facilitator
  <2>1. UNCHANGED <<sdk, auth, result>>
    BY <1>4 DEF Tick, ApprovalExecuted, PaymentArrives, ForeignAnswers, PayerGone, ServerTick, RoundtripCloses,
       Server, Facilitator
  <2>2. approvalTx = "none" => approvalTx' = "none"
    BY <1>4 DEF Tick, ApprovalExecuted, PaymentArrives, ForeignAnswers, PayerGone, ServerTick, RoundtripCloses,
       Server, Facilitator
  <2> QED
    BY <2>1, <2>2
<1> QED
  BY <1>1, <1>2, <1>3, <1>4 DEF Next

LEMMA ApprovalDeniedKeeps == ASSUME EffectInv, Next PROVE ApprovalDenied'
<1> USE DEF EffectInv, IInv, TypeOK, Stages, Approval, ApprovalDenied, Creating, svars, pvars
<1>0. auth \in Authorization /\ auth.sent \in BOOLEAN /\ auth.submitted \in BOOLEAN
  BY DEF Authorization
<1>1. CASE ApprovalSubmit
  <2>1. ppc = "paying" /\ UNCHANGED result
    BY <1>1 DEF ApprovalSubmit, Admitted, Active
  <2> QED
    BY <2>1
<1>2. CASE ApprovalAnswered \/ ApprovalFails \/ ApprovalReceipt
  <2>1. UNCHANGED <<approvalTx, result>> \/ approvalTx' = "refused"
        \/ (~auth.submitted /\ approvalTx' = approvalTx) \/ result'.approval = "failed"
    BY <1>0, <1>2 DEF ApprovalAnswered, ApprovalFails, ApprovalReceipt, SdkThrows, Report, End, Classified, Error,
       ApprovalEvidence, Authorization
  <2> QED
    BY <1>0, <2>1
<1>3. CASE CreationFails \/ ApprovalUnknown \/ Abort
  <2>1. UNCHANGED approvalTx /\ (UNCHANGED result \/ ppc = "paying")
    BY <1>3 DEF CreationFails, ApprovalUnknown, Abort, SdkThrows, Report
  <2>2. CASE ~auth.submitted
    BY <1>0, <2>1, <2>2
  <2>3. CASE auth.submitted
    <3>1. UNCHANGED result \/ result'.approval \in {"unknown", "failed", "confirmed"} \/ auth.failure = "plain"
      BY <1>0, <1>3, <2>3 DEF CreationFails, ApprovalUnknown, Abort, SdkThrows, Report, End, Classified, Error,
         ApprovalEvidence, Authorization
    <3> QED
      BY <2>1, <3>1
  <2> QED
    BY <1>0, <2>2, <2>3
<1>4. CASE Reply
  <2>1. UNCHANGED approvalTx /\ sdk = "wait"
    BY <1>4 DEF Reply, Delivered, NotDelivered, PaymentRefused, ReplyLost
  <2>2. CASE ~auth.submitted
    BY <1>0, <2>1, <2>2
  <2>3. CASE auth.submitted
    <3>1. result'.approval = "confirmed"
      BY <1>0, <1>4, <2>1, <2>3 DEF Reply, Delivered, NotDelivered, PaymentRefused, ReplyLost, Receive, End,
         Classified, Error, ApprovalEvidence
    <3> QED
      BY <3>1
  <2> QED
    BY <1>0, <2>2, <2>3
<1>5. CASE RequestFails \/ ResourceAnswers \/ LimitsRefuse \/ Inspect \/ StartPayment
  <2>1. UNCHANGED approvalTx /\ sdk = "idle"
    BY <1>5 DEF RequestFails, ResourceAnswers, LimitsRefuse, Inspect, StartPayment
  <2> QED
    BY <1>0, <2>1
<1>6. CASE \/ AllowanceRead \/ AllowanceLanded \/ ExportApproval \/ SendPayment
           \/ Tick \/ ApprovalExecuted \/ PaymentArrives \/ ForeignAnswers
           \/ PayerGone \/ ServerTick \/ RoundtripCloses \/ Server \/ Facilitator
  <2>1. UNCHANGED result /\ (UNCHANGED approvalTx \/ approvalTx = "asked")
    BY <1>6 DEF AllowanceRead, AllowanceLanded, ExportApproval, SendPayment, Tick, ApprovalExecuted, PaymentArrives,
       ForeignAnswers, PayerGone, ServerTick, RoundtripCloses, Server, Facilitator
  <2> QED
    BY <2>1
<1> QED
  BY <1>1, <1>2, <1>3, <1>4, <1>5, <1>6 DEF Next, Creation

LEMMA EffectInvariance == Spec => []EffectInv
<1>1. Init => EffectInv
  <2>1. Init => Money /\ Untried /\ ApprovalDenied
    BY DEF Init, PaywallInit, Money, Untried, ApprovalDenied
  <2> QED
    BY <2>1, InitInv DEF EffectInv
<1>2. EffectInv /\ [Next]_vars => EffectInv'
  <2> SUFFICES ASSUME EffectInv, [Next]_vars PROVE EffectInv'
    OBVIOUS
  <2>1. IInv'
    BY NextInv DEF EffectInv
  <2>2. CASE Next
    BY <2>1, <2>2, PaymentKeeps, UntriedKeeps, ApprovalDeniedKeeps DEF EffectInv
  <2>3. CASE UNCHANGED vars
    BY <2>1, <2>3 DEF EffectInv, Money, Untried, ApprovalDenied, vars, pvars, svars
  <2> QED
    BY <2>2, <2>3
<1> QED
  BY <1>1, <1>2, PTL DEF Spec

\* What is answered of the payment and of the approval is true of them.
ToldTruly ==
    /\ PaymentEffect \in PaymentPromise!Allows(PaymentTold)
    /\ PaymentTold \in PaymentPromise!Answers \cup {"silent"}
    /\ ApprovalEffect \in ApprovalPromise!Allows(ApprovalTold)
    /\ ApprovalTold \in ApprovalPromise!Answers \cup {"silent"}

LEMMA AnswersTrue == EffectInv => ToldTruly
<1> SUFFICES ASSUME EffectInv PROVE ToldTruly
  OBVIOUS
<1>1. /\ auth.sent \in BOOLEAN /\ settled \in BOOLEAN
      /\ approvalTx \in {"none", "asked", "refused", "mined", "reverted"}
      /\ result.kind \in {"none", "served", "inspection", "paid", "error"}
      /\ result.payment \in {"none", "not_sent", "unknown", "settled"}
      /\ result.approval \in {"none", "unknown", "failed", "confirmed", "exported"}
  BY DEF EffectInv, IInv, TypeOK, PaywallTypeOK, Result, Authorization
<1>2. PaymentEffect \in PaymentPromise!Allows(PaymentTold) /\ PaymentTold \in PaymentPromise!Answers \cup {"silent"}
  <2> USE DEF PaymentPromise!Allows, PaymentPromise!Answers, PaymentPromise!Effects, PaymentEffect
  <2>1. CASE result.kind = "none"
    BY <2>1 DEF PaymentTold
  <2>2. CASE result.kind # "none" /\ result.payment = "settled"
    <3>1. settled /\ auth.sent
      BY <2>2 DEF EffectInv, IInv, ReceiptIsTrue, Money
    <3> QED
      BY <2>2, <3>1 DEF PaymentTold
  <2>3. CASE result.kind # "none" /\ result.payment # "settled" /\ (result.payment = "unknown" \/ result.kind = "paid")
    BY <2>3 DEF PaymentTold
  <2>4. CASE result.kind # "none" /\ result.payment \in {"none", "not_sent"} /\ result.kind # "paid"
    <3>1. ~auth.sent
      BY <1>1, <2>4 DEF EffectInv, IInv, StatusMatchesWire, Untried
    <3>2. PaymentTold = "none"
      BY <2>4 DEF PaymentTold
    <3> QED
      BY <3>1, <3>2
  <2>5. result.kind = "paid" => result.payment \in {"none", "settled"}
    BY DEF EffectInv, Untried
  <2> QED
    BY <1>1, <2>1, <2>2, <2>3, <2>4, <2>5
<1>3. ApprovalEffect \in ApprovalPromise!Allows(ApprovalTold) /\ ApprovalTold \in ApprovalPromise!Answers \cup {"silent"}
  <2> USE DEF ApprovalPromise!Allows, ApprovalPromise!Answers, ApprovalPromise!Effects
  <2>1. ApprovalEffect \in ApprovalPromise!Effects
    BY <1>1 DEF ApprovalEffect
  <2>2. CASE result.kind = "none"
    BY <2>1, <2>2 DEF ApprovalTold
  <2>3. CASE result.kind \in {"served", "inspection"}
    <3>1. approvalTx = "none" /\ result.approval = "none"
      BY <2>3 DEF EffectInv, Untried
    <3> QED
      BY <2>3, <3>1 DEF ApprovalTold, ApprovalEffect
  <2>4. CASE result.kind \in {"paid", "error"}
    <3>1. /\ approvalTx \in {"asked", "mined"} => result.approval \in {"unknown", "confirmed"}
          /\ result.approval = "confirmed" => approvalTx = "mined"
          /\ result.approval = "failed" => approvalTx = "reverted"
          /\ result.approval \in {"none", "exported"} => approvalTx \in {"none", "refused"}
      BY <2>4 DEF EffectInv, IInv, ApprovalNeverSilent, ApprovalDenied
    <3> QED
      BY <1>1, <2>1, <2>4, <3>1 DEF ApprovalTold, ApprovalEffect
  <2> QED
    BY <1>1, <2>2, <2>3, <2>4
<1> QED
  BY <1>2, <1>3 DEF ToldTruly

\* Only SendPayment sends, and only for a command that waits for it.
LEMMA PaymentMoves ==
    ASSUME EffectInv, Next
    PROVE  PaymentPromise!Ask \/ PaymentPromise!Decide \/ UNCHANGED PaymentEffect
<1>1. CASE SendPayment
  <2>1. sdk = "sign" /\ Admitted /\ auth'.sent /\ UNCHANGED <<result, settled>>
    BY <1>1 DEF SendPayment, svars, EffectInv, IInv, TypeOK, Authorization
  <2>2. ~auth.sent /\ ppc = "paying"
    BY <2>1 DEF EffectInv, IInv, TypeOK, Stages, Creating, Admitted, Active
  <2>3. result.kind = "none" /\ ~settled
    BY <2>2 DEF EffectInv, IInv, Stages, Money
  <2> QED
    BY <2>1, <2>2, <2>3 DEF PaymentPromise!Ask, PaymentEffect, PaymentTold
<1>2. CASE ~SendPayment
  <2>1. auth'.sent = auth.sent
    <3>1. CASE Creation
      BY <1>2, <3>1 DEF Creation, CreationFails, AllowanceRead, ApprovalSubmit, ApprovalFails, ApprovalAnswered,
         ApprovalUnknown, ApprovalReceipt, AllowanceLanded, ExportApproval, SdkThrows, EffectInv, IInv, TypeOK,
         Authorization
    <3>2. CASE ~Creation
      BY <3>2 DEF Next, RequestFails, ResourceAnswers, LimitsRefuse, Inspect, StartPayment, Abort, Reply,
         Delivered, NotDelivered, PaymentRefused, ReplyLost, Tick, ApprovalExecuted, PaymentArrives, ForeignAnswers,
         PayerGone, ServerTick, RoundtripCloses, Server, Facilitator, pvars
    <3> QED
      BY <3>1, <3>2
  <2>2. settled' = settled \/ settled' = TRUE
    <3>1. CASE Creation
      BY <3>1 DEF Creation, CreationFails, AllowanceRead, ApprovalSubmit, ApprovalFails, ApprovalAnswered,
         ApprovalUnknown, ApprovalReceipt, AllowanceLanded, ExportApproval, SendPayment, svars
    <3>2. CASE ~Creation
      BY <3>2 DEF Next, RequestFails, ResourceAnswers, LimitsRefuse, Inspect, StartPayment, Abort, Reply,
         Delivered, NotDelivered, PaymentRefused, ReplyLost, Tick, ApprovalExecuted, PaymentArrives,
         HandlePaymentRequest, ForeignAnswers, PayerGone, ClientGone, ServerTick, RequestTick, RoundtripCloses,
         Server, Handle, VerifyRefuses, VerifyAccepts, SettleAnswers, SettleFails, Respond, Facilitator,
         FacilitatorSettles, svars
    <3> QED
      BY <3>1, <3>2
  <2>3. settled \in BOOLEAN
    BY DEF EffectInv, IInv, TypeOK, PaywallTypeOK
  <2> QED
    BY <2>1, <2>2, <2>3 DEF PaymentPromise!Decide, PaymentPromise!Effects, PaymentEffect
<1> QED
  BY <1>1, <1>2

\* Only ApprovalSubmit submits; a rejection and the chain decide.
LEMMA ApprovalMoves ==
    ASSUME EffectInv, Next
    PROVE  ApprovalPromise!Ask \/ ApprovalPromise!Decide \/ UNCHANGED ApprovalEffect
<1>1. CASE ApprovalSubmit
  <2>1. sdk = "build" /\ Admitted /\ approvalTx' = "asked" /\ UNCHANGED result
    BY <1>1 DEF ApprovalSubmit
  <2>2. approvalTx = "none" /\ ppc = "paying"
    BY <2>1 DEF EffectInv, IInv, TypeOK, Stages, Approval, Creating, Admitted, Active
  <2>3. result.kind = "none"
    BY <2>2 DEF EffectInv, IInv, Stages
  <2> QED
    BY <2>1, <2>2, <2>3 DEF ApprovalPromise!Ask, ApprovalEffect, ApprovalTold
<1>2. CASE ApprovalAnswered \/ ApprovalExecuted
  <2>1. \/ approvalTx' = approvalTx
        \/ approvalTx = "asked" /\ approvalTx' \in {"refused", "mined", "reverted"}
    BY <1>2 DEF ApprovalAnswered, ApprovalExecuted
  <2> QED
    BY <2>1 DEF ApprovalPromise!Decide, ApprovalPromise!Effects, ApprovalEffect
<1>3. CASE ~ApprovalSubmit /\ ~ApprovalAnswered /\ ~ApprovalExecuted
  <2>1. approvalTx' = approvalTx
    BY <1>3 DEF Next, Creation, CreationFails, AllowanceRead, ApprovalFails, ApprovalUnknown, ApprovalReceipt,
       AllowanceLanded, ExportApproval, SendPayment, RequestFails, ResourceAnswers, LimitsRefuse, Inspect,
       StartPayment, Abort, Reply, Delivered, NotDelivered, PaymentRefused, ReplyLost, Tick, PaymentArrives,
       ForeignAnswers, PayerGone, ServerTick, RoundtripCloses, Server, Facilitator, pvars
  <2> QED
    BY <2>1 DEF ApprovalEffect
<1> QED
  BY <1>1, <1>2, <1>3

\* A step of the payer, of its SDK or of the world is a step of both promises.
LEMMA PromiseSteps ==
    ASSUME EffectInv, ToldTruly', [Next]_vars
    PROVE  /\ [PaymentPromise!Next]_(PaymentPromise!vars)
           /\ [ApprovalPromise!Next]_(ApprovalPromise!vars)
<1>1. CASE UNCHANGED vars
  BY <1>1 DEF vars, pvars, svars, PaymentPromise!vars, ApprovalPromise!vars, PaymentEffect, PaymentTold,
     ApprovalEffect, ApprovalTold
<1>2. CASE Next
  <2>1. CASE result.kind = "none"
    <3>1. PaymentTold = "silent" /\ ApprovalTold = "silent"
      BY <2>1 DEF PaymentTold, ApprovalTold
    <3>2. /\ PaymentPromise!Say \/ UNCHANGED PaymentTold
          /\ ApprovalPromise!Say \/ UNCHANGED ApprovalTold
      BY <3>1 DEF ToldTruly, PaymentPromise!Say, ApprovalPromise!Say
    <3> QED
      BY <1>2, <3>2, PaymentMoves, ApprovalMoves DEF PaymentPromise!Next, ApprovalPromise!Next
  <2>2. CASE result.kind # "none"
    <3>1. result' = result
      BY <1>2, <2>2, PaymentKeeps DEF EffectInv, IInv, Stages
    <3>2. UNCHANGED <<PaymentTold, ApprovalTold>>
      BY <3>1 DEF PaymentTold, ApprovalTold
    <3> QED
      BY <1>2, <3>2, PaymentMoves, ApprovalMoves DEF PaymentPromise!Next, ApprovalPromise!Next
  <2> QED
    BY <2>1, <2>2
<1> QED
  BY <1>1, <1>2

\* The payment leaves at most once, and before the answer; the answer is true
\* of it and stays true, whatever the SDK, the paywall and the facilitator do.
THEOREM OnePaymentHolds == Spec => OnePayment
<1>1. Init => PaymentPromise!Init
  BY DEF Init, PaymentPromise!Init, PaymentPromise!Effects, PaymentEffect, PaymentTold
<1>2. EffectInv /\ EffectInv' /\ [Next]_vars => [PaymentPromise!Next]_(PaymentPromise!vars)
  <2>1. EffectInv' => ToldTruly'
    BY AnswersTrue, PTL
  <2> QED
    BY <2>1, PromiseSteps
<1> QED
  BY <1>1, <1>2, EffectInvariance, PTL DEF Spec, OnePayment, PaymentPromise!Spec

\* The approval is submitted at most once, and before the answer; what is
\* answered of it is true and stays true, though it be mined afterwards.
THEOREM OneApprovalHolds == Spec => OneApproval
<1>1. Init => ApprovalPromise!Init
  BY DEF Init, ApprovalPromise!Init, ApprovalPromise!Effects, ApprovalEffect, ApprovalTold
<1>2. EffectInv /\ EffectInv' /\ [Next]_vars => [ApprovalPromise!Next]_(ApprovalPromise!vars)
  <2>1. EffectInv' => ToldTruly'
    BY AnswersTrue, PTL
  <2> QED
    BY <2>1, PromiseSteps
<1> QED
  BY <1>1, <1>2, EffectInvariance, PTL DEF Spec, OneApproval, ApprovalPromise!Spec

\* A recharge keeps both promises: it is one payment.
THEOREM RechargePromises == BaiSpec => OnePayment /\ OneApproval
BY RechargeIsAPaymentHolds, OnePaymentHolds, OneApprovalHolds DEF RechargeIsAPayment
=============================================================================
