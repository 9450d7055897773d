-------------------------- MODULE TxPipelineProofs --------------------------
(***************************************************************************)
(* Proofs about the transaction pipeline: for every time limit and every   *)
(* reserve, what a command reports agrees with what it sent.               *)
(***************************************************************************)
EXTENDS TxPipeline, TLAPS

Reading == {"build", "estimate", "prepare", "preflight", "sign", "device", "check", "verify"}
Submitting == {"admit", "queue", "start", "send"}
Confirming == {"poll", "ask", "sleep"}
Harmless == {"plan", "built", "signed", "deadline", "error", "barred"}

\* Until the send nothing has left the process, and a command that ends there
\* says so.
BeforeSend ==
    /\ pc \in Reading \cup Submitting => ~sent
    /\ outcome \in Harmless => ~sent
    /\ ~sent => node = "idle"

\* Only a broadcast that the guard and the permissions allow gets to the send.
Allowed ==
    /\ pc \in Submitting => asked.mode = "broadcast" /\ asked.approved
    /\ pc \in Submitting \ {"admit"} => ~asked.barred

\* A command that goes on has reported nothing; one that polls has an answer.
AfterSend ==
    /\ Done <=> outcome # "none"
    /\ pc \in Confirming \/ outcome = "submitted" => node = "accepted"
    /\ outcome = "rejected" => node = "rejected"
    /\ chain # "none" => node = "accepted"
    /\ outcome \in {"confirmed", "failed"} => node = "accepted"

IInv == TypeOK /\ BeforeSend /\ Allowed /\ AfterSend /\ SendsOnlyAsAsked /\ ReceiptIsTrue

-----------------------------------------------------------------------------
\* A command starts with nothing sent.
LEMMA InitInv == Init => IInv
<1> SUFFICES ASSUME Init PROVE IInv
  OBVIOUS
<1>1. pc \in {"build", "check"} /\ outcome = "none" /\ ~sent /\ node = "idle" /\ chain = "none"
  <2> pc \in {"build", "check"}
    BY DEF Init
  <2> QED
    BY DEF Init
<1>2. /\ asked \in Request /\ left = Limit
      /\ aborted = FALSE /\ stale = FALSE /\ sent = FALSE /\ marked = FALSE
  BY DEF Init
<1>3. left \in 0 .. Limit
  BY <1>2, DeadlineAssumption
<1>4. TypeOK
  BY <1>1, <1>2, <1>3 DEF TypeOK, Stages, Outcomes
<1>5. BeforeSend /\ Allowed /\ AfterSend
  BY <1>1 DEF BeforeSend, Allowed, AfterSend, Done, Reading, Submitting, Confirming, Harmless
<1> QED
  BY <1>1, <1>4, <1>5 DEF IInv, SendsOnlyAsAsked, ReceiptIsTrue

\* A step that sends nothing and leaves the node alone: what it has to show.
LEMMA LocalStep ==
    ASSUME IInv, UNCHANGED <<asked, sent, remote>>,
           left' \in 0 .. Limit, aborted' \in BOOLEAN, stale' \in BOOLEAN, marked' \in BOOLEAN,
           pc' \in Stages, outcome' \in Outcomes,
           pc' = "done" <=> outcome' # "none",
           pc' \in Reading \cup Submitting => ~sent,
           outcome' \in Harmless => ~sent,
           pc' \in Submitting => asked.mode = "broadcast" /\ asked.approved,
           pc' \in Submitting \ {"admit"} => ~asked.barred,
           pc' \in Confirming \/ outcome' \in {"submitted", "confirmed", "failed"}
                => node = "accepted",
           outcome' = "rejected" => node = "rejected",
           outcome' = "confirmed" => chain = "ok",
           outcome' = "failed" => chain = "failed"
    PROVE  IInv'
BY DEF IInv, TypeOK, BeforeSend, Allowed, AfterSend, Done, SendsOnlyAsAsked, ReceiptIsTrue,
       remote

\* Building and signing reach the submission only for an approved broadcast.
LEMMA BuildStep ==
    ASSUME IInv, Build \/ Sign
    PROVE  IInv'
<1> USE DEF IInv, TypeOK, BeforeSend, AfterSend, Done, Reading, Submitting, Confirming, Harmless,
            Stages, Outcomes, End, Go, Check, Expired, Request
<1>1. CASE BuildReturns
  BY <1>1, LocalStep DEF BuildReturns
<1>2. CASE EstimateReturns
  BY <1>2, LocalStep DEF EstimateReturns
<1>3. CASE PrepareReturns
  BY <1>3, LocalStep DEF PrepareReturns
<1>4. CASE PreflightReturns
  BY <1>4, LocalStep DEF PreflightReturns
<1>5. CASE ReadFails
  BY <1>5, LocalStep DEF ReadFails
<1>6. CASE SoftwareSigns
  BY <1>6, LocalStep DEF SoftwareSigns, Signed
<1>7. CASE DeviceAsked
  BY <1>7, LocalStep DEF DeviceAsked
<1>8. CASE DeviceSigns
  BY <1>8, LocalStep DEF DeviceSigns, Signed
<1>9. CASE DeviceRefuses
  BY <1>9, LocalStep DEF DeviceRefuses
<1>10. CASE DeviceStopped
  BY <1>10, LocalStep DEF DeviceStopped
<1>11. CASE CheckImported
  BY <1>11, LocalStep DEF CheckImported
<1>12. CASE VerifyReturns
  BY <1>12, LocalStep DEF VerifyReturns
<1> QED
  BY <1>1, <1>2, <1>3, <1>4, <1>5, <1>6, <1>7, <1>8, <1>9, <1>10, <1>11, <1>12 DEF Build, Sign

\* The submission: the one step that sends, and what is concluded from its end.
LEMMA SubmitStep ==
    ASSUME IInv, Submit
    PROVE  IInv'
<1> USE DEF IInv, TypeOK, BeforeSend, Allowed, AfterSend, Done, Reading, Submitting, Confirming,
            Harmless, Stages, Outcomes, End, Go, Check, Expired
<1>1. CASE Admit
  BY <1>1, LocalStep DEF Admit
<1>2. CASE Granted
  BY <1>2, LocalStep DEF Granted
<1>3. CASE QueueStopped
  BY <1>3, LocalStep DEF QueueStopped
<1>4. CASE StartSlot
  BY <1>4, LocalStep DEF StartSlot
<1>5. CASE Send
  <2>1. CASE Admitted
    <3>1. /\ pc' = "wire" /\ outcome' = outcome /\ sent' = TRUE /\ marked' = TRUE
          /\ node' = "received" /\ UNCHANGED <<asked, left, stale, chain>>
          /\ aborted' \in BOOLEAN
      BY <1>5, <2>1 DEF Send
    <3>2. node = "idle" /\ asked.mode = "broadcast" /\ asked.approved /\ ~asked.barred
      BY <1>5 DEF Send
    <3> QED
      BY <1>5, <3>1, <3>2 DEF Send, SendsOnlyAsAsked, ReceiptIsTrue
  <2>2. CASE ~Admitted
    BY <1>5, <2>2, LocalStep DEF Send, remote
  <2> QED
    BY <2>1, <2>2
<1>6. CASE SendStopped
  BY <1>6, LocalStep DEF SendStopped
<1>7. CASE Answer
  BY <1>7, LocalStep DEF Answer, Submitted
<1>8. CASE ConnectionFails
  BY <1>8, LocalStep DEF ConnectionFails
<1>9. CASE WireStopped
  BY <1>9, LocalStep DEF WireStopped
<1> QED
  BY <1>1, <1>2, <1>3, <1>4, <1>5, <1>6, <1>7, <1>8, <1>9 DEF Submit

\* The wait for a confirmation never turns into a failure of its own.
LEMMA ConfirmStep ==
    ASSUME IInv, Confirm
    PROVE  IInv'
<1> USE DEF IInv, TypeOK, BeforeSend, Allowed, AfterSend, Done, Reading, Submitting, Confirming,
            Harmless, Stages, Outcomes, End, Go, Check, Expired
<1>1. CASE Poll
  BY <1>1, LocalStep DEF Poll
<1>2. CASE AskReturns
  BY <1>2, LocalStep DEF AskReturns
<1>3. CASE AskFails
  BY <1>3, LocalStep DEF AskFails
<1>4. CASE PollStopped
  BY <1>4, LocalStep DEF PollStopped
<1>5. CASE SleepEnds
  BY <1>5, LocalStep DEF SleepEnds
<1> QED
  BY <1>1, <1>2, <1>3, <1>4, <1>5 DEF Confirm

\* The node and the clocks.
LEMMA WorldStep ==
    ASSUME IInv, World
    PROVE  IInv'
<1> USE DEF IInv, TypeOK, BeforeSend, Allowed, AfterSend, Done, SendsOnlyAsAsked, ReceiptIsTrue
<1>1. CASE NodeTakes
  BY <1>1 DEF NodeTakes
<1>2. CASE Included
  BY <1>2 DEF Included
<1>3. CASE Tick
  BY <1>3, DeadlineAssumption DEF Tick, remote
<1>4. CASE Abort
  BY <1>4 DEF Abort, remote
<1>5. CASE TxExpires
  BY <1>5 DEF TxExpires, remote
<1> QED
  BY <1>1, <1>2, <1>3, <1>4, <1>5 DEF World

\* IInv is an inductive invariant.
LEMMA Inductive == Spec => []IInv
<1>1. IInv /\ UNCHANGED vars => IInv'
  BY DEF vars, IInv, TypeOK, BeforeSend, Allowed, AfterSend, Done, SendsOnlyAsAsked,
         ReceiptIsTrue
<1>2. IInv /\ [Next]_vars => IInv'
  BY <1>1, BuildStep, SubmitStep, ConfirmStep, WorldStep DEF Next
<1> QED
  BY InitInv, <1>2, PTL DEF Spec

-----------------------------------------------------------------------------
\* Every reachable state of the pipeline is well typed.
THEOREM TypeCorrect == Spec => []TypeOK
BY Inductive, PTL DEF IInv

\* A "timeout" without an unknown outcome means that nothing was sent.
THEOREM TimeoutSentNothingHolds == Spec => []TimeoutSentNothing
<1>1. IInv => TimeoutSentNothing
  BY DEF IInv, BeforeSend, Harmless, TimeoutSentNothing
<1> QED
  BY Inductive, <1>1, PTL

\* A transaction the node took is never reported as a plain failure.
THEOREM AcceptedIsReportedHolds == Spec => []AcceptedIsReported
<1>1. IInv => AcceptedIsReported
  BY DEF IInv, TypeOK, Outcomes, BeforeSend, AfterSend, Done, Harmless, AcceptedIsReported
<1> QED
  BY Inductive, <1>1, PTL

\* A plain failure means that the transaction cannot reach the chain any more.
THEOREM PlainFailureIsFinalHolds == Spec => []PlainFailureIsFinal
<1>1. IInv => PlainFailureIsFinal
  BY DEF IInv, BeforeSend, AfterSend, Harmless, PlainFailureIsFinal
<1> QED
  BY Inductive, <1>1, PTL

\* Nothing is sent by another mode, a dry run, or below the threshold.
THEOREM SendsOnlyAsAskedHolds == Spec => []SendsOnlyAsAsked
BY Inductive, PTL DEF IInv

\* A confirmed transaction succeeded on chain, a failed one failed there.
THEOREM ReceiptIsTrueHolds == Spec => []ReceiptIsTrue
BY Inductive, PTL DEF IInv

\* No submission is handed to the network with less than the reserve left.
THEOREM SendIsAdmittedHolds == Spec => SendIsAdmitted
<1>1. Send => (~sent /\ sent' => Admitted)
  BY DEF Send
<1>2. Build \/ Sign \/ Confirm \/ World \/ UNCHANGED vars => UNCHANGED sent
  BY DEF Build, Sign, Confirm, World, vars, BuildReturns, EstimateReturns, PrepareReturns,
         PreflightReturns, ReadFails, SoftwareSigns, DeviceAsked, DeviceSigns, DeviceRefuses,
         DeviceStopped, CheckImported, VerifyReturns, Poll, AskReturns, AskFails, PollStopped,
         SleepEnds, NodeTakes, Included, Tick, Abort, TxExpires
<1>3. Submit => Send \/ UNCHANGED sent
  BY DEF Submit, Admit, Granted, QueueStopped, StartSlot, SendStopped, Answer, ConnectionFails,
         WireStopped
<1>4. [Next]_vars => (~sent /\ sent' => Admitted)
  BY <1>1, <1>2, <1>3 DEF Next
<1> QED
  BY <1>4, PTL DEF Spec, SendIsAdmitted
-----------------------------------------------------------------------------
(* The one transaction of the command (Effect). *)

\* What is answered is true of what the node did: the invariant of the
\* pipeline read through the mapping.
ToldTruly == OnChain \in Promise!Allows(Told) /\ Told \in Promise!Answers \cup {"silent"}

LEMMA AnswerTrue == IInv => ToldTruly
<1> SUFFICES ASSUME IInv PROVE /\ OnChain \in Promise!Allows(Told)
                               /\ OnChain \in Promise!Effects
                               /\ Told \in Promise!Answers \cup {"silent"}
  BY DEF ToldTruly
<1>1. /\ node \in {"idle", "received", "accepted", "rejected", "lost"}
      /\ chain \in {"none", "ok", "failed"} /\ outcome \in Outcomes
  BY DEF IInv, TypeOK
<1>2. OnChain \in Promise!Effects
  BY <1>1 DEF OnChain, Promise!Effects
<1>3. CASE outcome = "none" \/ outcome = "unknown"
  BY <1>2, <1>3 DEF Told, Promise!Allows, Promise!Answers
<1>4. CASE outcome \in Harmless
  <2>1. OnChain = "none"
    BY <1>4 DEF IInv, BeforeSend, OnChain
  <2>2. Told = "none"
    BY <1>4 DEF Told, Harmless
  <2> QED
    BY <1>2, <2>1, <2>2 DEF Promise!Allows, Promise!Answers
<1>5. CASE outcome = "rejected"
  <2>1. OnChain = "refused" /\ Told = "none"
    BY <1>5 DEF IInv, AfterSend, OnChain, Told
  <2> QED
    BY <1>2, <2>1 DEF Promise!Allows, Promise!Answers
<1>6. CASE outcome \in {"submitted", "confirmed", "failed"}
  <2>1. node = "accepted"
    BY <1>6 DEF IInv, AfterSend
  <2>2. /\ Told = outcome
        /\ OnChain = IF chain = "none" THEN "taken" ELSE chain
    BY <1>6, <2>1 DEF Told, OnChain
  <2>3. outcome \in {"confirmed", "failed"} => chain = IF outcome = "confirmed" THEN "ok" ELSE "failed"
    BY DEF IInv, ReceiptIsTrue
  <2> QED
    BY <1>1, <1>2, <1>6, <2>2, <2>3 DEF Promise!Allows, Promise!Answers
<1> QED
  BY <1>1, <1>3, <1>4, <1>5, <1>6 DEF Outcomes, Harmless

\* Only Send, the node and the chain move the transaction, and Send does not
\* end the command.
LEMMA TransactionMoves ==
    ASSUME IInv, Next
    PROVE  \/ Promise!Ask \/ Promise!Decide \/ Promise!Execute
           \/ UNCHANGED OnChain
<1>1. CASE Build \/ Sign \/ Confirm
  BY <1>1 DEF Build, Sign, Confirm, BuildReturns, EstimateReturns, PrepareReturns, PreflightReturns,
         ReadFails, SoftwareSigns, DeviceAsked, DeviceSigns, DeviceRefuses, DeviceStopped, CheckImported,
         VerifyReturns, Poll, AskReturns, AskFails, PollStopped, SleepEnds, OnChain, remote
<1>2. CASE Submit
  <2>1. CASE Send /\ Admitted
    <3>1. node = "idle" /\ outcome = "none"
      BY <2>1 DEF Send, IInv, BeforeSend, AfterSend, Submitting, Done
    <3>2. node' = "received" /\ outcome' = outcome
      BY <2>1 DEF Send, Go
    <3> QED
      BY <3>1, <3>2 DEF Promise!Ask, OnChain, Told
  <2>2. CASE Send /\ ~Admitted
    BY <2>2 DEF Send, OnChain
  <2>3. CASE ~Send
    BY <1>2, <2>3 DEF Submit, Admit, Granted, QueueStopped, StartSlot, SendStopped, Answer, ConnectionFails,
           WireStopped, OnChain, remote
  <2> QED
    BY <2>1, <2>2, <2>3
<1>3. CASE NodeTakes
  <2>1. chain = "none" /\ node = "received" /\ node' \in {"accepted", "rejected", "lost"} /\ chain' = chain
    BY <1>3 DEF NodeTakes, IInv, TypeOK, AfterSend
  <2> QED
    BY <2>1 DEF OnChain, Promise!Decide, Promise!Effects
<1>4. CASE Included
  BY <1>4 DEF Included, OnChain, Promise!Execute
<1>5. CASE Tick \/ Abort \/ TxExpires
  BY <1>5 DEF Tick, Abort, TxExpires, OnChain, remote
<1> QED
  BY <1>1, <1>2, <1>3, <1>4, <1>5 DEF Next, World

\* A command that has ended says no more.
LEMMA EndIsEnd == ASSUME Next, Done PROVE UNCHANGED outcome
<1>1. World
  BY DEF Next, Done, Build, Sign, Submit, Confirm, BuildReturns, EstimateReturns, PrepareReturns,
         PreflightReturns, ReadFails, SoftwareSigns, DeviceAsked, DeviceSigns, DeviceRefuses,
         DeviceStopped, CheckImported, VerifyReturns, Admit, Granted, QueueStopped, StartSlot, Send,
         SendStopped, Answer, ConnectionFails, WireStopped, Poll, AskReturns, AskFails, PollStopped,
         SleepEnds
<1> QED
  BY <1>1 DEF World, NodeTakes, Included, Tick, Abort, TxExpires

\* The pipeline implements Effect: whatever is lost, late or unclear, its one
\* transaction is asked for once and before the answer, and the answer is true.
THEOREM OneTransactionHolds == Spec => OneTransaction
<1>1. Init => Promise!Init
  BY DEF Init, Promise!Init, Promise!Effects, OnChain, Told
<1>0. IInv' => ToldTruly'
  BY AnswerTrue, PTL
<1>2. IInv /\ IInv' /\ [Next]_vars => [Promise!Next]_(Promise!vars)
  <2> SUFFICES ASSUME IInv, IInv', [Next]_vars PROVE [Promise!Next]_(Promise!vars)
    OBVIOUS
  <2>1. CASE UNCHANGED vars
    BY <2>1 DEF vars, Promise!vars, OnChain, Told
  <2>2. CASE Next
    <3>1. Promise!Ask \/ Promise!Decide \/ Promise!Execute \/ UNCHANGED OnChain
      BY <2>2, TransactionMoves
    <3>2. Promise!Say \/ UNCHANGED Told
      <4>1. CASE Done
        BY <2>2, <4>1, EndIsEnd DEF Told
      <4>2. CASE ~Done
        <5>1. Told = "silent"
          BY <4>2 DEF IInv, AfterSend, Told
        <5>2. OnChain' \in Promise!Allows(Told') /\ Told' \in Promise!Answers \cup {"silent"}
          BY <1>0 DEF ToldTruly
        <5> QED
          BY <5>1, <5>2 DEF Promise!Say
      <4> QED
        BY <4>1, <4>2
    <3> QED
      BY <3>1, <3>2 DEF Promise!Next
  <2> QED
    BY <2>1, <2>2
<1>3. Promise!Spec <=> Promise!Init /\ [][Promise!Next]_(Promise!vars)
  BY DEF Promise!Spec
<1> QED
  BY <1>1, <1>2, <1>3, Inductive, PTL DEF Spec, OneTransaction

\* What Effect promises: an answer is never contradicted by what comes later,
\* is never taken back, and nothing is asked for behind it.
THEOREM PromiseKept == OneTransaction => []Promise!Uncontradicted /\ Promise!AnswerIsFinal
<1> DEFINE Typed == Told \in Promise!Answers \cup {"silent"}
<1>1. Promise!Init => Promise!Uncontradicted /\ Typed
  BY DEF Promise!Init, Promise!Uncontradicted, Promise!Allows, Promise!Effects
<1>2. Promise!Uncontradicted /\ Typed /\ [Promise!Next]_(Promise!vars) => Promise!Uncontradicted' /\ Typed'
  <2> SUFFICES ASSUME Promise!Uncontradicted, Typed, [Promise!Next]_(Promise!vars)
               PROVE  Promise!Uncontradicted' /\ Typed'
    OBVIOUS
  <2>1. CASE UNCHANGED Promise!vars
    BY <2>1 DEF Promise!vars, Promise!Uncontradicted
  <2>2. CASE Promise!Next /\ Promise!Say
    BY <2>2 DEF Promise!Say, Promise!Uncontradicted
  <2>3. CASE Promise!Next /\ ~Promise!Say
    <3>1. UNCHANGED Told
      BY <2>3 DEF Promise!Next
    <3>2. CASE UNCHANGED OnChain
      BY <3>1, <3>2 DEF Promise!Uncontradicted
    <3>3. CASE Promise!Ask
      BY <3>1, <3>3 DEF Promise!Ask, Promise!Uncontradicted, Promise!Allows, Promise!Effects, Promise!Answers
    <3>4. CASE Promise!Decide
      BY <3>1, <3>4 DEF Promise!Decide, Promise!Uncontradicted, Promise!Allows, Promise!Effects, Promise!Answers
    <3>5. CASE Promise!Execute
      BY <3>1, <3>5 DEF Promise!Execute, Promise!Uncontradicted, Promise!Allows, Promise!Effects, Promise!Answers
    <3> QED
      BY <2>3, <3>2, <3>3, <3>4, <3>5 DEF Promise!Next
  <2> QED
    BY <2>1, <2>2, <2>3
<1>3. [Promise!Next]_(Promise!vars)
      => [Told # "silent" => Told' = Told /\ (OnChain = "none" => OnChain' = "none")]_(Promise!vars)
  BY DEF Promise!Next, Promise!Say, Promise!Ask, Promise!Decide, Promise!Execute, Promise!Answers
<1> QED
  BY <1>1, <1>2, <1>3, PTL DEF OneTransaction, Promise!Spec, Promise!AnswerIsFinal
=============================================================================
