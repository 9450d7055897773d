------------------------------- MODULE MCX402 -------------------------------
(***************************************************************************)
(* Model checking of X402Payment with X402Paywall, inside BaiRecharge.     *)
(***************************************************************************)
EXTENDS BaiRecharge

\* The command answers within its time limit, whatever node, device, relay
\* or endpoint do.
CommandEnds == <>(IF bpc = "off" THEN ppc = "done" ELSE bpc = "done")

\* Time passes; an expired deadline aborts what is being awaited; code between
\* two awaits runs; roundtrip closes its server.
Fairness ==
    /\ WF_allvars(Tick /\ UNCHANGED bvars)
    /\ WF_allvars(ServerTick /\ UNCHANGED bvars)
    /\ WF_allvars(Payment /\ left = 0 /\ (Abort \/ RequestFails \/ ReplyLost))
    /\ WF_allvars(Payment /\ (LimitsRefuse \/ Inspect \/ StartPayment \/ RoundtripCloses))
    /\ WF_allvars(Payment /\ sleft = 0 /\ (VerifyRefuses \/ SettleFails))
    /\ WF_allvars(left = 0 /\ (BindFails \/ OrderFails \/ ReportHash \/ ReportFails))
    /\ WF_allvars(PaymentReturns)

FairSpec == BaiSpec /\ Fairness
=============================================================================
