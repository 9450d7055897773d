---------------------------- MODULE ServicesProofs ----------------------------
(***************************************************************************)
(* The safety of a command that deals with a chain, a service or a person: *)
(* for every time limit, every amount the services report and every        *)
(* permission an account may have.  A command is of one family and stays   *)
(* in its stages, so the inductive invariant has one part for each family, *)
(* and only that family's steps and the world's can disturb it.            *)
(***************************************************************************)
EXTENDS MCServices, TLAPS

Started == {"taken", "ok", "failed"}

\* What the services' replies have to be for an answer to be true of the effect:
\* GasFree.BadIds and Multisig.LooseReplies say what happens otherwise.
Legible == ~BadIds /\ ~LooseReplies

\* Common to all families.
Answering ==
    /\ TimeOK
    /\ ~Done => said = Silent
    /\ Legible => ClaimIsTrue

-----------------------------------------------------------------------------
(* The inductive invariant, family by family. *)

GasFreeBefore == {"gasfree.read", "gasfree.balance", "gasfree.sign", "gasfree.submit"}
GasFreeAfter == {"gasfree.poll", "gasfree.trace"}
GasFreeStages == GasFreeBefore \cup {"gasfree.reply"} \cup GasFreeAfter

GasFreeInv ==
    /\ GasFreeTypeOK
    /\ pc \in GasFreeStages \cup {"done"}
    /\ pc \in GasFreeBefore => net.main = "none"
    /\ pc \in GasFreeAfter => net.main \in Started
    /\ Answering
    /\ ChargeIsAuthorized

TradeBefore ==
    {"trade.plan", "trade.price", "trade.approve", "trade.approveReply", "trade.approveWait",
     "trade.allowance", "trade.permit", "trade.recheck", "trade.send"}
TradeAfter == {"trade.confirm", "trade.receipt"}
TradeStages == TradeBefore \cup {"trade.reply"} \cup TradeAfter
Approving == {"trade.approve", "trade.approveReply", "trade.approveWait", "trade.allowance"}
Approved == {"trade.permit", "trade.recheck", "trade.send"}

TradeMems == [todo : SUBSET {1, 2}, ids : SUBSET {1, 2}, permit : BOOLEAN, confirmed : BOOLEAN]
TradeNets ==
    [main : Effects, approvals : [{1, 2} -> Effects], allowed : SUBSET {1, 2}, granted : BOOLEAN,
     owned : BOOLEAN, pool : BOOLEAN, early : BOOLEAN]

\* What the chain does not allow yet is still to do, until nothing is.
AllowancesComing ==
    /\ pc \in Approving \cup Approved => TradeSides(cmd.kind) \ net.allowed \subseteq mem.todo
    /\ pc \in Approving => mem.todo # {}
    /\ pc \in Approved => mem.todo = {}
    /\ MainHasAllowances

\* An approval that may stand is named already, or is the one that is awaited.
Standing(k) == net.approvals[k] \in {"asked", "taken", "ok", "failed"}
ApprovalsComing ==
    \A k \in {1, 2} : Standing(k) =>
        IF Done THEN k \in said.ids
        ELSE k \in mem.ids \/ (pc \in {"trade.approveReply", "trade.approveWait"} /\ k = Current)

\* What was lost early stays lost, and the call is not past its last check.
Lost == (cmd.kind \in OwnedKinds /\ ~net.owned) \/ (cmd.kind = "createV4" /\ net.pool)
EarlyStops == net.early => Lost /\ net.main = "none" /\ pc \in (TradeBefore \ {"trade.send"}) \cup {"done"}

ConfirmedStands ==
    /\ mem.confirmed => net.main = "ok"
    /\ ConfirmationStands

TradeInv ==
    /\ cmd \in TradeCommands
    /\ mem \in TradeMems
    /\ net \in TradeNets
    /\ pc \in TradeStages \cup {"done"}
    /\ pc \in TradeBefore => net.main = "none"
    /\ pc \in TradeAfter => net.main \in Started
    /\ pc \in {"trade.plan", "trade.price"} => mem.ids = {}
    /\ pc # "done" => (mem.confirmed <=> pc = "trade.receipt")
    /\ Answering
    /\ AllowancesComing
    /\ ApprovalsComing
    /\ EarlyStops
    /\ ConfirmedStands

LaunchInv ==
    /\ cmd \in LaunchCommands
    /\ net \in [main : Effects]
    /\ mem = [none |-> 0]
    /\ pc \in {"launch.send", "launch.reply", "done"}
    /\ pc = "launch.send" => net.main = "none"
    /\ Answering

MultisigBefore ==
    {"multisig.read", "multisig.verify", "multisig.weights", "multisig.authorize", "multisig.sign",
     "multisig.recheck", "multisig.submit"}
MultisigStages == MultisigBefore \cup {"multisig.reply"}

\* The record's signatures, weight and threshold are what the chain counted once.
Counted(r) ==
    /\ r.signed = r.sigs
    /\ \E p \in {net.before, net.perm} :
        r.current = Total(p.weight, r.sigs) /\ r.threshold = p.threshold

MultisigInv ==
    /\ cmd \in MultisigCommands
    /\ net \in [main : Effects, perm : Permissions, before : Permissions]
    /\ DOMAIN mem = {"record", "current", "sigs"}
    /\ pc \in MultisigStages \cup {"done"}
    /\ pc \in MultisigBefore => net.main = "none"
    /\ pc \in {"multisig.verify", "multisig.weights"} =>
           cmd.op \in {"list", "sign"} /\ mem.record \in RemoteRecords /\ RecordCoherent(mem.record)
    /\ pc = "multisig.weights" => Counted(mem.record)
    /\ Answering
    /\ VerifiedRowIsTrue

ShellBefore ==
    {"shell.start", "shell.stdin", "shell.upgrade", "shell.consented", "shell.upgraded",
     "shell.dispatch", "shell.prime", "shell.ask", "shell.fill", "shell.run"}
ShellStages == ShellBefore \cup {"shell.sent"}

ShellFields == {"stage", "is", "modes", "primed", "asked", "prompted", "tries", "pauses"}

\* Before its stages are reached, a command has passed the gate and has its password.
PrimedFirst ==
    mem.is.password \in {"establish", "verify"} => mem.primed

ShellInv ==
    /\ cmd \in ShellCommands
    /\ net \in [main : Effects]
    /\ DOMAIN mem = ShellFields
    /\ pc \in ShellStages \cup {"done"}
    /\ pc \in ShellBefore => net.main = "none"
    /\ pc \in (ShellBefore \ {"shell.prime", "shell.ask", "shell.fill", "shell.run"}) => mem.stage = "upgrade"
    /\ pc \in {"shell.fill", "shell.run"} => mem.stage = "command" /\ PrimedFirst
    /\ pc = "shell.ask" /\ mem.asked = "upgrade" => mem.stage = "upgrade"
    /\ pc = "shell.ask" /\ mem.asked \in {"field", "secret", "confirm", "choice"} =>
           mem.stage = "command" /\ PrimedFirst
    /\ mem.stage \in {"upgrade", "command"}
    /\ mem.stage = "upgrade" => mem.is = Asks
    /\ mem.stage = "command" => mem.is \in Traits
    /\ mem.stage = "command" /\ pc # "done" => GateRefusal(mem.is) = "nothing"
    /\ Answering
    /\ NoDeadEnd

ChainBefore ==
    {"chain.signer", "chain.read", "chain.try", "chain.build", "chain.price", "chain.sign", "chain.interval",
     "chain.send"}
ChainAfterwards == {"chain.confirm", "chain.after"}
ChainStages == ChainBefore \cup {"chain.reply"} \cup ChainAfterwards

\* A read that the deadline cut is behind a command only where it was dropped, and the
\* time for the build is over then.
CutIsLate == IF pc = "chain.build" THEN CutShort => Expired ELSE pc # "done" => ~CutShort

ChainInv ==
    /\ cmd \in ChainCommands
    /\ net \in [main : Effects]
    /\ DOMAIN mem = {"got", "confirmed"}
    /\ mem.confirmed \in BOOLEAN
    /\ pc \in ChainStages \cup {"done"}
    /\ pc \in ChainBefore => net.main = "none"
    /\ pc \in ChainAfterwards => net.main \in Started
    /\ pc \in (ChainStages \ {"chain.signer", "chain.read", "chain.try"}) => cmd.mode # "query"
    /\ pc \notin {"chain.after", "done"} => ~mem.confirmed
    /\ CutIsLate
    /\ Answering
    /\ CutReadsStop
    /\ ConfirmedStands

StatusInv ==
    /\ cmd \in StatusCommands
    /\ net \in [main : Effects]
    /\ DOMAIN mem = {"got", "confirmed"} /\ mem.confirmed = FALSE
    /\ pc \in {"status.read", "done"}
    /\ pc = "status.read" => ~CutShort
    /\ Answering
    /\ CutReadsStop

DaemonInv ==
    /\ cmd = [family |-> "daemon"]
    /\ DOMAIN net = {"main", "child", "ready", "exit", "term"}
    /\ net.main = "none"
    /\ DOMAIN mem = {"pauses"}
    /\ pc \in {"daemon.log", "daemon.launch", "daemon.close", "daemon.wait", "done"}
    /\ Answering

ServiceInv ==
    \/ GasFreeInv \/ TradeInv \/ LaunchInv \/ MultisigInv \/ ShellInv \/ ChainInv \/ StatusInv
    \/ DaemonInv

-----------------------------------------------------------------------------
(* GasFree. *)

\* A record whose fees pass assertFeeIntegrity charges what was authorized, and its
\* parts and its cost add up.
LEMMA CoherentFees ==
    ASSUME NEW offer \in GasFreeOffers \cup {NoOffer}, NEW fees \in FeeReports,
           FeeIntegrity(fees, AuthorizedMaxFee(offer)), ObservedTotal(fees) # Absent
    PROVE  /\ ObservedTotal(fees) <= AuthorizedMaxFee(offer)
           /\ fees.cost # Absent \/ (fees.transfer # Absent /\ fees.activate # Absent) =>
                  Deducted(offer, fees) = Value + ObservedTotal(fees)
<1>1. fees.transfer \in Int /\ fees.activate \in Int /\ fees.total \in Int /\ fees.cost \in Int
  <2>1. Amounts \cup {Absent} \subseteq Int
    BY GasFreeAssumption DEF Absent
  <2> QED
    BY <2>1 DEF FeeReports
<1>2. ObservedTotal(fees) <= AuthorizedMaxFee(offer)
  BY DEF FeeIntegrity
<1>3. fees.cost # Absent => Deducted(offer, fees) = Value + ObservedTotal(fees)
  BY DEF FeeIntegrity, Deducted
<1>4. ASSUME fees.cost = Absent, fees.transfer # Absent, fees.activate # Absent
      PROVE  Deducted(offer, fees) = Value + ObservedTotal(fees)
  <2>1. ObservedTotal(fees) = fees.transfer + fees.activate
    BY <1>4 DEF FeeIntegrity
  <2> QED
    BY <2>1, <1>4 DEF Deducted, ChargedFees
<1> QED
  BY <1>2, <1>3, <1>4

\* A step of the world touches the clock or the effect, and no answer.
LEMMA WorldSteps ==
    ASSUME World
    PROVE  /\ UNCHANGED <<cmd, pc, mem, said>>
           /\ \/ net' = net
              \/ net.main = "asked" /\ \E e \in {"taken", "refused"} : net' = [net EXCEPT !.main = e]
              \/ net.main = "taken" /\ \E e \in {"ok", "failed"} : net' = [net EXCEPT !.main = e]
           /\ TimeOK => TimeOK'
BY TimeAssumption DEF World, Tick, EffectDecided, EffectExecuted, TimeOK

\* What the provider can report is not ahead of what it did.
LEMMA ReportableStates ==
    ASSUME NEW state \in Reportable
    PROVE  /\ state \in GasFreeStates
           /\ net.main \in Started
           /\ state = "SUCCEED" => net.main = "ok"
           /\ state = "FAILED" => net.main = "failed"
BY DEF Reportable, GasFreeStates, Started

LEMMA GasFreeStart == GasFreeInit => GasFreeInv
<1> SUFFICES ASSUME GasFreeInit PROVE GasFreeInv
  OBVIOUS
<1>1. GasFreeTypeOK
  BY TimeAssumption DEF GasFreeInit, GasFreeTypeOK, TimeOK, Start, Effects, GasFreeStates
<1>2. said.claim = "silent" /\ cmd.family = "gasfree" /\ pc = "gasfree.read" /\ net.main = "none"
  BY DEF GasFreeInit, Start, Silent, GasFreeCommands
<1> QED
  BY <1>1, <1>2 DEF GasFreeInit, GasFreeInv, GasFreeStages, GasFreeBefore, GasFreeAfter, Answering,
                    Start, Done, ClaimIsTrue, NoEffectClaimed, ChargeIsAuthorized, GasFreeTypeOK

LEMMA GasFreeKeeps == GasFreeInv /\ (GasFreeStep \/ World) => GasFreeInv'
<1> SUFFICES ASSUME GasFreeInv, GasFreeStep \/ World PROVE GasFreeInv'
  OBVIOUS
<1> USE DEF GasFreeInv, GasFreeTypeOK, GasFreeStages, GasFreeBefore, GasFreeAfter, Answering, Started,
            Done, Goto, Say, Claim, ClaimIsTrue, NoEffectClaimed, TimeOK, Silent
<1>0. cmd.family = "gasfree"
  BY DEF GasFreeCommands
<1>a. ASSUME NEW state \in Reportable, NEW fees \in FeeReports, pc \in {"gasfree.reply", "gasfree.trace"},
             FeeIntegrity(fees, AuthorizedMaxFee(mem.offer)), AfterRecord(state, fees),
             mem' = [mem EXCEPT !.state = state], UNCHANGED <<cmd, left, net>>
      PROVE  GasFreeInv'
  <2>1. mem' \in [offer : GasFreeOffers \cup {NoOffer}, state : GasFreeStates] /\ mem'.offer = mem.offer
    BY <1>a, ReportableStates
  <2>2. CASE Goto("gasfree.poll") \/ Claim("submitted")
    BY <1>a, <2>1, <2>2, ReportableStates DEF ChargeIsAuthorized
  <2>3. CASE state \in {"SUCCEED", "FAILED"} /\ Terminal(state, fees)
    <3>1. /\ pc' = "done" /\ said'.claim = IF state = "SUCCEED" THEN "confirmed" ELSE "failed"
          /\ said'.deducted = Deducted(mem.offer, fees)
          /\ said'.total = ObservedTotal(fees)
          /\ said'.stated = (fees.cost # Absent \/ (fees.transfer # Absent /\ fees.activate # Absent))
      BY <2>3 DEF Terminal
    <3>2. ChargeIsAuthorized'
      <4>1. ASSUME ObservedTotal(fees) # Absent
            PROVE  /\ ObservedTotal(fees) <= AuthorizedMaxFee(mem.offer)
                   /\ said'.stated => Deducted(mem.offer, fees) = Value + ObservedTotal(fees)
        BY <1>a, <3>1, <4>1, CoherentFees
      <4>2. AuthorizedMaxFee(mem.offer)' = AuthorizedMaxFee(mem.offer)
        BY <2>1 DEF AuthorizedMaxFee
      <4> QED
        BY <3>1, <4>1, <4>2 DEF ChargeIsAuthorized
    <3>3. ClaimIsTrue'
      BY <1>a, <2>3, <3>1, ReportableStates
    <3> QED
      BY <1>a, <2>1, <3>1, <3>2, <3>3
  <2> QED
    BY <1>a, <2>2, <2>3 DEF AfterRecord
<1>1. CASE World
  <2>1. /\ UNCHANGED <<cmd, pc, mem, said>>
        /\ TimeOK'
        /\ net' \in [main : Effects]
        /\ net'.main = net.main \/ (net.main = "asked" /\ net'.main \in {"taken", "refused"})
             \/ (net.main = "taken" /\ net'.main \in {"ok", "failed"})
    BY <1>1, WorldSteps DEF Effects
  <2> QED
    BY <2>1 DEF ChargeIsAuthorized
<1>2. CASE GasFreeInfo
  BY <1>2 DEF GasFreeInfo, ChargeIsAuthorized
<1>3. CASE GasFreeTrace
  BY <1>3 DEF GasFreeTrace, ChargeIsAuthorized
<1>4. CASE GasFreeOffered
  BY <1>4 DEF GasFreeOffered, ChargeIsAuthorized
<1>5. CASE GasFreeBalance
  BY <1>5 DEF GasFreeBalance, ChargeIsAuthorized
<1>6. CASE GasFreeRefused
  BY <1>6 DEF GasFreeRefused, ChargeIsAuthorized
<1>7. CASE GasFreeSigned
  BY <1>7 DEF GasFreeSigned, ChargeIsAuthorized
<1>8. CASE GasFreeSubmit
  BY <1>8 DEF GasFreeSubmit, ChargeIsAuthorized, Effects
<1>9. CASE GasFreeDenied
  BY <1>9 DEF GasFreeDenied, ChargeIsAuthorized
<1>10. CASE GasFreeUncertain
  BY <1>10 DEF GasFreeUncertain, UnclearClaims, Legible, ChargeIsAuthorized
<1>11. CASE GasFreePoll
  BY <1>11 DEF GasFreePoll, ChargeIsAuthorized
<1>12. CASE GasFreeTraceFails
  BY <1>12 DEF GasFreeTraceFails, ChargeIsAuthorized
<1>13. CASE GasFreeReceipt
  <2>1. PICK state \in Reportable, fees \in FeeReports, same \in BOOLEAN :
          /\ IF same /\ FeeIntegrity(fees, AuthorizedMaxFee(mem.offer))
               THEN AfterRecord(state, fees) ELSE Claim("unknown")
          /\ mem' = [mem EXCEPT !.state = state]
    BY <1>13 DEF GasFreeReceipt
  <2>2. CASE same /\ FeeIntegrity(fees, AuthorizedMaxFee(mem.offer))
    BY <1>13, <2>1, <2>2, <1>a, ReportableStates DEF GasFreeReceipt
  <2>3. CASE ~(same /\ FeeIntegrity(fees, AuthorizedMaxFee(mem.offer)))
    BY <1>13, <2>1, <2>3, ReportableStates DEF GasFreeReceipt, ChargeIsAuthorized
  <2> QED
    BY <2>2, <2>3
<1>14. CASE GasFreeTraced
  <2>1. PICK state \in Reportable, fees \in FeeReports :
          \/ /\ FeeIntegrity(fees, AuthorizedMaxFee(mem.offer))
             /\ AfterRecord(state, fees)
             /\ mem' = [mem EXCEPT !.state = state]
          \/ Claim("unknown") /\ mem' = mem
    BY <1>14 DEF GasFreeTraced
  <2>2. CASE /\ FeeIntegrity(fees, AuthorizedMaxFee(mem.offer))
             /\ AfterRecord(state, fees)
             /\ mem' = [mem EXCEPT !.state = state]
    BY <1>14, <2>2, <1>a, ReportableStates DEF GasFreeTraced
  <2>3. CASE Claim("unknown") /\ mem' = mem
    BY <1>14, <2>3 DEF GasFreeTraced, ChargeIsAuthorized
  <2> QED
    BY <2>1, <2>2, <2>3
<1> QED
  BY <1>1, <1>2, <1>3, <1>4, <1>5, <1>6, <1>7, <1>8, <1>9, <1>10, <1>11, <1>12, <1>13, <1>14
  DEF GasFreeStep

-----------------------------------------------------------------------------
(* SunSwap and SunPump. *)

\* There is a first one of what is left to approve.
LEMMA FirstIsOne ==
    ASSUME NEW todo \in SUBSET {1, 2}, todo # {}
    PROVE  FirstOf(todo) \in todo
<1>1. \E k \in todo : \A j \in todo : k <= j
  <2>1. CASE 1 \in todo
    <3> WITNESS 1 \in todo
    <3> QED
      BY <2>1
  <2>2. CASE 1 \notin todo
    <3>1. 2 \in todo
      BY <2>2
    <3> WITNESS 2 \in todo
    <3> QED
      BY <2>2
  <2> QED
    BY <2>1, <2>2
<1> QED
  BY <1>1 DEF FirstOf

LEMMA TradeStart == TradeInit => TradeInv
<1> SUFFICES ASSUME TradeInit PROVE TradeInv
  OBVIOUS
<1>1. cmd \in TradeCommands /\ mem = TradeMem({}, {}, FALSE, FALSE) /\ pc = "trade.plan" /\ said = Silent
      /\ left = TimeLimit
  BY DEF TradeInit, Start
<1>2. TradeSides(cmd.kind) \subseteq {1, 2}
  BY DEF TradeSides
<1>3. PICK allowed \in SUBSET TradeSides(cmd.kind), granted, owned, pool \in BOOLEAN :
        net = [main |-> "none", approvals |-> [k \in {1, 2} |-> "none"], allowed |-> allowed,
               granted |-> granted, owned |-> owned, pool |-> pool, early |-> FALSE]
  BY DEF TradeInit
<1>4. net \in TradeNets /\ net.main = "none" /\ ~net.early /\ \A k \in {1, 2} : net.approvals[k] = "none"
  BY <1>2, <1>3 DEF TradeNets, Effects
<1>5. mem \in TradeMems /\ ~mem.confirmed /\ mem.ids = {}
  BY <1>1 DEF TradeMem, TradeMems
<1>6. Answering
  BY <1>1, TimeAssumption DEF Answering, TimeOK, Done, Silent, ClaimIsTrue, NoEffectClaimed
<1> QED
  BY <1>1, <1>4, <1>5, <1>6
  DEF TradeInv, TradeStages, TradeBefore, TradeAfter, Approving, Approved, AllowancesComing,
      MainHasAllowances, ApprovalsComing, Standing, EarlyStops, ConfirmedStands, ConfirmationStands, Done

LEMMA TradeWorld == TradeInv /\ World => TradeInv'
<1> SUFFICES ASSUME TradeInv, World PROVE TradeInv'
  OBVIOUS
<1> USE DEF TradeInv
<1>1. /\ UNCHANGED <<cmd, pc, mem, said>>
      /\ TimeOK'
      /\ net' = [net EXCEPT !.main = net'.main]
      /\ net'.main \in Effects
      /\ net'.main = net.main \/ (net.main = "asked" /\ net'.main \in {"taken", "refused"})
           \/ (net.main = "taken" /\ net'.main \in {"ok", "failed"})
  BY WorldSteps DEF TradeNets, Effects, Answering
<1>2. /\ net' \in TradeNets
      /\ net'.approvals = net.approvals /\ net'.allowed = net.allowed /\ net'.early = net.early
      /\ net'.owned = net.owned /\ net'.pool = net.pool
  BY <1>1 DEF TradeNets
<1>3. Answering'
  BY <1>1 DEF Answering, Done, ClaimIsTrue, NoEffectClaimed
<1>4. AllowancesComing' /\ ApprovalsComing' /\ EarlyStops' /\ ConfirmedStands'
  BY <1>1, <1>2 DEF AllowancesComing, MainHasAllowances, ApprovalsComing, Standing, Current, EarlyStops, Lost,
                    ConfirmedStands, ConfirmationStands, Done
<1> QED
  BY <1>1, <1>2, <1>3, <1>4 DEF TradeBefore, TradeAfter, Started

\* A step of an approval leaves the other one, and the rest of the world, alone.
LEMMA ApprovalMoves ==
    ASSUME net \in TradeNets, NEW k \in {1, 2}, NEW e \in Effects, SetApproval(k, e)
    PROVE  /\ net' \in TradeNets
           /\ net'.approvals[k] = e
           /\ \A j \in {1, 2} : j # k => net'.approvals[j] = net.approvals[j]
           /\ net'.main = net.main /\ net'.allowed = net.allowed /\ net'.early = net.early
           /\ net'.owned = net.owned /\ net'.pool = net.pool
BY DEF SetApproval, TradeNets

LEMMA TradeKeeps == TradeInv /\ TradeStep => TradeInv'
<1> SUFFICES ASSUME TradeInv, TradeStep PROVE TradeInv'
  OBVIOUS
<1> USE DEF TradeInv, TradeStages, TradeBefore, TradeAfter, Approving, Approved, Started,
            AllowancesComing, MainHasAllowances, ApprovalsComing, Standing, EarlyStops, Lost,
            ConfirmedStands, ConfirmationStands, Answering, TimeOK, ClaimIsTrue, NoEffectClaimed, Silent,
            Done, Goto, Say, Claim, SayTrade
<1>0. cmd.family = "trade"
  BY DEF TradeCommands
<1>m. mem.todo \in SUBSET {1, 2} /\ mem.ids \in SUBSET {1, 2}
  BY DEF TradeMems
<1>1. CASE TradeQuoted
  BY <1>1 DEF TradeQuoted
<1>2. CASE TradePlanned
  <2>1. mem' \in TradeMems /\ mem'.todo = ToApprove /\ mem'.ids = {} /\ mem'.confirmed = FALSE
    BY <1>2 DEF TradePlanned, TradeMem, TradeMems, ToApprove, ToGrant, TradeSides
  <2>2. ~mem.confirmed /\ mem.ids = {} /\ pc = "trade.plan" /\ net.main = "none"
        /\ \A k \in {1, 2} : ~Standing(k)
    BY <1>2 DEF TradePlanned
  <2>3. CASE Goto("trade.price")
    BY <1>2, <2>1, <2>2, <2>3 DEF TradePlanned
  <2>5. CASE SayTrade("none", {})
    BY <1>2, <2>1, <2>2, <2>5 DEF TradePlanned
  <2>4. CASE Goto(NextStage(ToApprove, ToGrant))
    BY <1>2, <2>1, <2>2, <2>4 DEF TradePlanned, NextStage, AfterApprovals, ToApprove
  <2> QED
    BY <1>2, <2>3, <2>4, <2>5 DEF TradePlanned
<1>3. CASE TradePlanRefused
  BY <1>3 DEF TradePlanRefused
<1>4. CASE TradePriced
  BY <1>4 DEF TradePriced
<1>5. CASE TradeRefused
  BY <1>5 DEF TradeRefused
<1>6. CASE TradeApprove
  <2>1. CASE SayTrade("none", mem.ids) /\ UNCHANGED net
    BY <1>6, <2>1 DEF TradeApprove
  <2>2. CASE Goto("trade.approveReply") /\ SetApproval(Current, "asked")
    <3>1. Current \in {1, 2} /\ "asked" \in Effects
      BY <1>6, <1>m, FirstIsOne DEF TradeApprove, Current, Effects
    <3>2. /\ net' \in TradeNets
          /\ \A j \in {1, 2} : j # Current => net'.approvals[j] = net.approvals[j]
          /\ net'.main = net.main /\ net'.allowed = net.allowed /\ net'.early = net.early
          /\ net'.owned = net.owned /\ net'.pool = net.pool
      BY <2>2, <3>1, ApprovalMoves
    <3> QED
      BY <1>6, <2>2, <3>1, <3>2 DEF TradeApprove, Current
  <2> QED
    BY <1>6, <2>1, <2>2 DEF TradeApprove
<1>7. CASE TradeApprovalRejected
  BY <1>7 DEF TradeApprovalRejected
<1>8. CASE TradeApprovalUnclear
  BY <1>8 DEF TradeApprovalUnclear
<1>9. CASE TradeApprovalAccepted
  BY <1>9 DEF TradeApprovalAccepted, Current
<1>10. CASE TradeApprovalUnconfirmed
  BY <1>10 DEF TradeApprovalUnconfirmed
<1>11. CASE TradeApprovalConfirmed
  <2>1. Current \in {1, 2}
    BY <1>11, <1>m, FirstIsOne DEF TradeApprovalConfirmed, Current
  <2>2. mem' \in TradeMems /\ mem'.todo = mem.todo /\ mem'.ids = mem.ids \cup {Current}
        /\ mem'.confirmed = mem.confirmed
    BY <1>11, <2>1 DEF TradeApprovalConfirmed, TradeMems
  <2> QED
    BY <1>11, <2>2 DEF TradeApprovalConfirmed
<1>12. CASE TradeAllowanceRead
  <2>1. CASE SayTrade("none", mem.ids) /\ UNCHANGED mem
    BY <1>12, <2>1 DEF TradeAllowanceRead
  <2>2. CASE /\ Current \in net.allowed
             /\ mem' = [mem EXCEPT !.todo = mem.todo \ {Current}]
             /\ Goto(NextStage(mem.todo \ {Current}, mem.permit))
    <3>1. mem' \in TradeMems /\ mem'.todo = mem.todo \ {Current} /\ mem'.ids = mem.ids
          /\ mem'.confirmed = mem.confirmed
      BY <2>2 DEF TradeMems
    <3> QED
      BY <1>12, <2>2, <3>1 DEF TradeAllowanceRead, NextStage, AfterApprovals
  <2> QED
    BY <1>12, <2>1, <2>2 DEF TradeAllowanceRead
<1>13. CASE TradePermitSigned
  BY <1>13 DEF TradePermitSigned
<1>14. CASE TradeRechecked
  BY <1>14 DEF TradeRechecked
<1>15. CASE TradeEncoded
  <2>1. Goto("trade.send") \/ SayTrade("none", mem.ids)
    BY <1>15 DEF TradeEncoded
  <2>2. cmd.kind \notin OwnedKinds \cup {"createV4"}
    BY <1>15 DEF TradeEncoded, Swaps, OwnedKinds
  <2> QED
    BY <1>15, <2>1, <2>2 DEF TradeEncoded
<1>16. CASE TradeSend
  <2>1. CASE SayTrade("none", mem.ids) /\ UNCHANGED net
    BY <1>16, <2>1 DEF TradeSend
  <2>2. CASE Goto("trade.reply") /\ net' = [net EXCEPT !.main = "asked"]
    <3>1. /\ net' \in TradeNets /\ net'.main = "asked" /\ net'.approvals = net.approvals
          /\ net'.allowed = net.allowed /\ net'.early = net.early
      BY <2>2 DEF TradeNets, Effects
    <3> QED
      BY <1>16, <2>2, <3>1 DEF TradeSend, Current
  <2> QED
    BY <1>16, <2>1, <2>2 DEF TradeSend
<1>17. CASE TradeRejected
  BY <1>17 DEF TradeRejected
<1>18. CASE TradeUnclear
  BY <1>18 DEF TradeUnclear
<1>19. CASE TradeAccepted
  BY <1>19 DEF TradeAccepted
<1>20. CASE TradeUnconfirmed
  BY <1>20 DEF TradeUnconfirmed
<1>21. CASE TradeConfirmed
  <2>1. CASE /\ net.main = "ok"
             /\ mem' = [mem EXCEPT !.confirmed = TRUE]
             /\ Goto("trade.receipt")
    <3>1. mem' \in TradeMems /\ mem'.todo = mem.todo /\ mem'.ids = mem.ids /\ mem'.confirmed = TRUE
      BY <2>1 DEF TradeMems
    <3> QED
      BY <1>21, <2>1, <3>1 DEF TradeConfirmed
  <2>2. CASE net.main = "failed" /\ SayTrade("failed", mem.ids) /\ UNCHANGED mem
    BY <1>21, <2>2 DEF TradeConfirmed
  <2> QED
    BY <1>21, <2>1, <2>2 DEF TradeConfirmed
<1>22. CASE TradeReceipt
  BY <1>22 DEF TradeReceipt
<1>23. CASE TradeApprovalDecided
  <2>1. PICK k \in {1, 2}, e \in {"taken", "refused"} : net.approvals[k] = "asked" /\ SetApproval(k, e)
    BY <1>23 DEF TradeApprovalDecided
  <2>2. /\ net' \in TradeNets
        /\ \A j \in {1, 2} : net'.approvals[j] \in {"asked", "taken", "ok", "failed"} => Standing(j)
        /\ net'.main = net.main /\ net'.allowed = net.allowed /\ net'.early = net.early
        /\ net'.owned = net.owned /\ net'.pool = net.pool
    <3>1. e \in Effects
      BY DEF Effects
    <3> QED
      BY <2>1, <3>1, ApprovalMoves
  <2> QED
    BY <1>23, <2>2 DEF TradeApprovalDecided, Current
<1>24. CASE TradeApprovalExecuted
  <2>1. /\ net' \in TradeNets
        /\ \A j \in {1, 2} : net'.approvals[j] \in {"asked", "taken", "ok", "failed"} => Standing(j)
        /\ net'.main = net.main /\ net.allowed \subseteq net'.allowed /\ net'.early = net.early
        /\ net'.owned = net.owned /\ net'.pool = net.pool
    <3>1. PICK k \in {1, 2} :
            /\ net.approvals[k] = "taken"
            /\ \/ SetApproval(k, "failed")
               \/ SetApproval(k, "ok")
               \/ net' = [net EXCEPT !.approvals[k] = "ok", !.allowed = @ \cup {k}]
      BY <1>24 DEF TradeApprovalExecuted
    <3>2. CASE SetApproval(k, "failed") \/ SetApproval(k, "ok")
      BY <3>1, <3>2, ApprovalMoves DEF Effects
    <3>3. CASE net' = [net EXCEPT !.approvals[k] = "ok", !.allowed = @ \cup {k}]
      BY <3>1, <3>3 DEF TradeNets, Effects
    <3> QED
      BY <3>1, <3>2, <3>3
  <2> QED
    BY <1>24, <2>1 DEF TradeApprovalExecuted, Current
<1>25. CASE TradeTargetMoves
  <2>0. UNCHANGED <<cmd, left, pc, mem, said>> /\ Preparing \in BOOLEAN
    BY <1>25 DEF TradeTargetMoves, Preparing
  <2>1. /\ net' \in TradeNets
        /\ net'.approvals = net.approvals /\ net'.main = net.main /\ net'.allowed = net.allowed
        /\ net'.early = Preparing
        /\ Lost' /\ ~Lost
    <3>1. CASE cmd.kind \in OwnedKinds /\ net.owned /\ net' = [net EXCEPT !.owned = FALSE, !.early = Preparing]
      <4>1. net' \in TradeNets
        BY <2>0, <3>1 DEF TradeNets
      <4>2. /\ net'.approvals = net.approvals /\ net'.main = net.main /\ net'.allowed = net.allowed
            /\ net'.early = Preparing /\ net'.owned = FALSE
        BY <3>1 DEF TradeNets
      <4> QED
        BY <2>0, <3>1, <4>1, <4>2 DEF OwnedKinds
    <3>2. CASE cmd.kind = "createV4" /\ ~net.pool /\ net' = [net EXCEPT !.pool = TRUE, !.early = Preparing]
      <4>1. net' \in TradeNets
        BY <2>0, <3>2 DEF TradeNets
      <4>2. /\ net'.approvals = net.approvals /\ net'.main = net.main /\ net'.allowed = net.allowed
            /\ net'.early = Preparing /\ net'.pool = TRUE
        BY <3>2 DEF TradeNets
      <4> QED
        BY <2>0, <3>2, <4>1, <4>2 DEF OwnedKinds
    <3> QED
      BY <1>25, <3>1, <3>2 DEF TradeTargetMoves
  <2>2. ~net.early
    BY <2>1
  <2>3. /\ cmd' = cmd /\ pc' = pc /\ mem' = mem /\ said' = said /\ left' = left
        /\ net'.approvals = net.approvals /\ net'.main = net.main /\ net'.allowed = net.allowed
    BY <2>0, <2>1
  <2>4. Answering' /\ AllowancesComing'
    BY <2>3
  <2>5. ApprovalsComing'
    BY <2>3 DEF Current
  <2>6. EarlyStops' /\ ConfirmedStands'
    BY <2>1, <2>2, <2>3 DEF Preparing
  <2> QED
    BY <2>1, <2>3, <2>4, <2>5, <2>6
<1>26. CASE LaunchSend \/ LaunchRefused \/ LaunchUnclear \/ LaunchAnswered
  BY <1>26 DEF LaunchSend, LaunchRefused, LaunchUnclear, LaunchAnswered
<1> QED
  BY <1>1, <1>2, <1>3, <1>4, <1>5, <1>6, <1>7, <1>8, <1>9, <1>10, <1>11, <1>12, <1>13, <1>14, <1>15,
     <1>16, <1>17, <1>18, <1>19, <1>20, <1>21, <1>22, <1>23, <1>24, <1>25, <1>26
  DEF TradeStep

\* Where a step of a trade or a launch is taken.
LEMMA TradeStepAt ==
    ASSUME TradeStep
    PROVE  \/ pc \in TradeStages
           \/ cmd.family = "trade"
           \/ LaunchSend \/ LaunchRefused \/ LaunchUnclear \/ LaunchAnswered
<1> USE DEF TradeStages, TradeBefore, TradeAfter
<1>1. TradeQuoted \/ TradePlanned \/ TradePlanRefused \/ TradePriced \/ TradeRefused \/ TradeApprove
        => pc \in TradeStages
  BY DEF TradeQuoted, TradePlanned, TradePlanRefused, TradePriced, TradeRefused, TradeApprove
<1>2. TradeApprovalRejected \/ TradeApprovalUnclear \/ TradeApprovalAccepted \/ TradeApprovalUnconfirmed
        \/ TradeApprovalConfirmed \/ TradeAllowanceRead \/ TradePermitSigned => pc \in TradeStages
  BY DEF TradeApprovalRejected, TradeApprovalUnclear, TradeApprovalAccepted, TradeApprovalUnconfirmed,
         TradeApprovalConfirmed, TradeAllowanceRead, TradePermitSigned
<1>3. TradeRechecked \/ TradeEncoded \/ TradeSend \/ TradeRejected \/ TradeUnclear \/ TradeAccepted
        \/ TradeUnconfirmed \/ TradeConfirmed \/ TradeReceipt => pc \in TradeStages
  BY DEF TradeRechecked, TradeEncoded, TradeSend, TradeRejected, TradeUnclear, TradeAccepted,
         TradeUnconfirmed, TradeConfirmed, TradeReceipt
<1>4. TradeApprovalDecided \/ TradeApprovalExecuted \/ TradeTargetMoves => cmd.family = "trade"
  BY DEF TradeApprovalDecided, TradeApprovalExecuted, TradeTargetMoves
<1> HIDE DEF TradeStages, TradeBefore, TradeAfter
<1> QED
  BY <1>1, <1>2, <1>3, <1>4 DEF TradeStep

LEMMA LaunchStart == LaunchInit => LaunchInv
<1> SUFFICES ASSUME LaunchInit PROVE LaunchInv
  OBVIOUS
<1>1. Answering
  BY TimeAssumption DEF LaunchInit, Start, Answering, TimeOK, Done, Silent, ClaimIsTrue, NoEffectClaimed
<1> QED
  BY <1>1 DEF LaunchInit, LaunchInv, Start, Effects

LEMMA LaunchKeeps == LaunchInv /\ (TradeStep \/ World) => LaunchInv'
<1> SUFFICES ASSUME LaunchInv, TradeStep \/ World PROVE LaunchInv'
  OBVIOUS
<1> USE DEF LaunchInv, Answering, TimeOK, ClaimIsTrue, NoEffectClaimed, Silent, Done, Goto, Say, Claim
<1>0. cmd.family = "launch"
  BY DEF LaunchCommands
<1>1. CASE World
  BY <1>1, WorldSteps DEF Effects
<1>2. CASE LaunchSend
  BY <1>2 DEF LaunchSend, Effects
<1>3. CASE LaunchRefused \/ LaunchUnclear \/ LaunchAnswered
  BY <1>3 DEF LaunchRefused, LaunchUnclear, LaunchAnswered
<1>4. TradeStep => LaunchSend \/ LaunchRefused \/ LaunchUnclear \/ LaunchAnswered
  <2>1. pc \notin TradeStages
    BY DEF TradeStages, TradeBefore, TradeAfter
  <2> QED
    BY <1>0, <2>1, TradeStepAt
<1> QED
  BY <1>1, <1>2, <1>3, <1>4

-----------------------------------------------------------------------------
(* TRON transactions of several signers. *)

LEMMA MultisigStart == MultisigInit => MultisigInv
<1> SUFFICES ASSUME MultisigInit PROVE MultisigInv
  OBVIOUS
<1>1. Answering
  BY TimeAssumption DEF MultisigInit, Start, Answering, TimeOK, Done, Silent, ClaimIsTrue, NoEffectClaimed
<1>2. /\ cmd \in MultisigCommands /\ pc = "multisig.read" /\ said = [claim |-> "silent"]
      /\ mem = [record |-> NoRecord, current |-> 0, sigs |-> {}]
      /\ net \in [main : Effects, perm : Permissions, before : Permissions] /\ net.main = "none"
  BY DEF MultisigInit, Start, Silent, Effects
<1> QED
  BY <1>1, <1>2 DEF MultisigInv, MultisigStages, MultisigBefore, VerifiedRowIsTrue

LEMMA MultisigKeeps == MultisigInv /\ (MultisigStep \/ World) => MultisigInv'
<1> SUFFICES ASSUME MultisigInv, MultisigStep \/ World PROVE MultisigInv'
  OBVIOUS
<1> USE DEF MultisigInv, MultisigStages, MultisigBefore, Answering, TimeOK, ClaimIsTrue, NoEffectClaimed, Silent,
            Done, Goto, Say, Claim, Started
<1>0. cmd.family = "multisig"
  BY DEF MultisigCommands
<1>u. ASSUME pc \in {"multisig.verify", "multisig.weights"}, Unverified, UNCHANGED <<cmd, left, mem, net>>
      PROVE  MultisigInv'
  <2>1. CASE SayRow(mem.record, FALSE)
    <3>1. said' = [claim |-> "silent", row |-> Row(mem.record, FALSE)] /\ pc' = "done"
      BY <2>1 DEF SayRow
    <3>2. said'.row.verified = FALSE /\ said'.row.awaiting = FALSE
      BY <3>1 DEF Row
    <3> QED
      BY <1>u, <3>1, <3>2 DEF VerifiedRowIsTrue
  <2>2. CASE Claim("none")
    BY <1>u, <2>2 DEF VerifiedRowIsTrue
  <2> QED
    BY <1>u, <2>1, <2>2 DEF Unverified
<1>1. CASE World
  <2>1. /\ UNCHANGED <<cmd, pc, mem, said>>
        /\ TimeOK'
        /\ net' \in [main : Effects, perm : Permissions, before : Permissions]
        /\ net'.perm = net.perm /\ net'.before = net.before
        /\ net'.main = net.main \/ (net.main = "asked" /\ net'.main \in {"taken", "refused"})
             \/ (net.main = "taken" /\ net'.main \in {"ok", "failed"})
    BY <1>1, WorldSteps DEF Effects
  <2> QED
    BY <2>1 DEF VerifiedRowIsTrue, Counted
<1>2. CASE MultisigPage
  BY <1>2 DEF MultisigPage, VerifiedRowIsTrue
<1>3. CASE MultisigVerify
  <2>0. pc = "multisig.verify" /\ UNCHANGED <<cmd, left, net>>
    BY <1>3 DEF MultisigVerify
  <2>1. CASE ApprovalAgrees(mem.record) /\ mem' = [mem EXCEPT !.current = mem.record.current]
             /\ Goto("multisig.weights")
    <3>1. Counted(mem.record)
      BY <2>1 DEF ApprovalAgrees, Counted
    <3> QED
      BY <2>0, <2>1, <3>1 DEF Counted, VerifiedRowIsTrue
  <2>2. CASE Unverified /\ UNCHANGED mem
    BY <2>0, <2>2, <1>u
  <2> QED
    BY <1>3, <2>1, <2>2 DEF MultisigVerify
<1>4. CASE MultisigWeights
  <2>0. pc = "multisig.weights" /\ UNCHANGED <<cmd, left, mem, net>> /\ Counted(mem.record)
        /\ mem.record \in RemoteRecords /\ RecordCoherent(mem.record)
    BY <1>4 DEF MultisigWeights
  <2>1. CASE Unverified
    BY <2>0, <2>1, <1>u
  <2>2. CASE WeightsAgree(mem.record) /\ SayRow(mem.record, TRUE)
    <3> DEFINE r == mem.record
    <3>1. said' = [claim |-> "silent", row |-> Row(r, TRUE)] /\ pc' = "done"
      BY <2>2 DEF SayRow
    <3>2. said'.row.awaiting => r.signed = r.sigs /\ "me" \notin r.sigs /\ net.perm.weight["me"] > 0
      BY <2>0, <2>2, <3>1 DEF Row, Counted, WeightsAgree, RecordCoherent, ProgressCoherent
    <3>3. said'.row.current = r.current /\ said'.row.sigs = r.sigs /\ said'.row.threshold = r.threshold
      BY <3>1 DEF Row
    <3> HIDE DEF r
    <3>4. VerifiedRowIsTrue'
      BY <2>0, <3>2, <3>3 DEF VerifiedRowIsTrue, Counted, r
    <3> QED
      BY <2>0, <3>1, <3>4
  <2>3. CASE Goto("multisig.authorize") \/ Claim("none")
    BY <2>0, <2>3 DEF VerifiedRowIsTrue
  <2> QED
    BY <1>4, <2>1, <2>2, <2>3 DEF MultisigWeights
<1>5. CASE MultisigImported
  BY <1>5 DEF MultisigImported, VerifiedRowIsTrue
<1>6. CASE MultisigApprovals \/ MultisigWatched \/ MultisigRefused
  BY <1>6 DEF MultisigApprovals, MultisigWatched, MultisigRefused, VerifiedRowIsTrue
<1>7. CASE MultisigAuthorize
  BY <1>7 DEF MultisigAuthorize, VerifiedRowIsTrue
<1>8. CASE MultisigSigned
  BY <1>8 DEF MultisigSigned, VerifiedRowIsTrue
<1>9. CASE MultisigRechecked
  BY <1>9 DEF MultisigRechecked, VerifiedRowIsTrue
<1>10. CASE MultisigSubmit
  BY <1>10 DEF MultisigSubmit, VerifiedRowIsTrue, Effects
<1>11. CASE MultisigDenied \/ MultisigAccepted
  BY <1>11 DEF MultisigDenied, MultisigAccepted, VerifiedRowIsTrue
<1>12. CASE MultisigUnclear
  BY <1>12 DEF MultisigUnclear, Legible, VerifiedRowIsTrue
<1>13. CASE PermissionReplaced
  BY <1>13 DEF PermissionReplaced, VerifiedRowIsTrue, Counted
<1> QED
  BY <1>1, <1>2, <1>3, <1>4, <1>5, <1>6, <1>7, <1>8, <1>9, <1>10, <1>11, <1>12, <1>13
  DEF MultisigStep

-----------------------------------------------------------------------------
(* The shell. *)

\* What NoDeadEnd needs of every command: one that takes its secrets on a terminal only
\* is interactive and primes the password, and one that asks for a secret or a
\* confirmation is interactive.
Askable(is) ==
    /\ is.typed => is.asks /\ is.password \in {"establish", "verify", "late establish", "late verify"}
    /\ is.prompt \in {"secret", "confirm"} => is.asks
    /\ is.prompt \in {"none", "secret", "confirm", "choice"}

\* A command that types no secret and asks for nothing meets it.
Plain(is) == ~is.typed /\ is.prompt = "none"

LEMMA PlainRows ==
    /\ Plain(Neutral) /\ Plain(Asks) /\ Plain(Created)
    /\ \A on : Plain(View(on)) /\ Plain(Mine(on)) /\ Plain(Sign(on)) /\ Plain(Payer(on))
    /\ \A on, modes : Plain(Send(on, modes))
    /\ Plain(Trader) /\ Plain(Public)
BY DEF Plain, Neutral, Asks, Created, View, Mine, Sign, Send, Payer, Trader, Public

\* All the commands of a row have its traits.
PlainSet(S) == \A c \in S : Plain(c.is)

LEMMA NamedPlain ==
    ASSUME NEW paths, NEW traits, Plain(traits)
    PROVE  PlainSet(Named(paths, traits))
BY DEF Named, PlainSet

LEMMA EvmRowsPlain == PlainSet(EvmCommands)
<1>1. PlainSet(TxBroadcast)
  <2>1. Plain([Send(Both, {"dryRun"}) EXCEPT !.wallet = FALSE, !.auth = FALSE])
    BY DEF Plain, Send, Sign, Mine, View, Neutral
  <2> QED
    BY <2>1, NamedPlain DEF TxBroadcast
<1>2. /\ PlainSet(AccountReads) /\ PlainSet(BlockShow) /\ PlainSet(ChainReads) /\ PlainSet(ContractCall)
      /\ PlainSet(ContractSend) /\ PlainSet(ContractDeploy) /\ PlainSet(AgentWrites) /\ PlainSet(AgentReads)
  BY PlainRows, NamedPlain DEF AccountReads, BlockShow, ChainReads, ContractCall, ContractSend, ContractDeploy,
     AgentWrites, AgentReads
<1>3. /\ PlainSet(TokenBalance) /\ PlainSet(TokenInfo) /\ PlainSet(TokenBookCommands) /\ PlainSet(TxSend)
      /\ PlainSet(TxSign) /\ PlainSet(TxReads) /\ PlainSet(MessageSign) /\ PlainSet(TypedDataSign)
      /\ PlainSet(BaiRechargeRow)
  BY PlainRows, NamedPlain DEF TokenBalance, TokenInfo, TokenBookCommands, TxSend, TxSign, TxReads, MessageSign,
     TypedDataSign, BaiRechargeRow
<1> QED
  BY <1>1, <1>2, <1>3 DEF EvmCommands, PlainSet

LEMMA TronRowsPlain == PlainSet(TronCommands)
<1>1. \A S, T : PlainSet(S) /\ PlainSet(T) => PlainSet(S \cup T)
  BY DEF PlainSet
<1>2. /\ PlainSet(AccountActivate) /\ PlainSet(AccountSet) /\ PlainSet(AccountHistory) /\ PlainSet(ChainParams)
      /\ PlainSet(AssetIssue) /\ PlainSet(AssetWrites) /\ PlainSet(AssetReads) /\ PlainSet(ExchangeWrites)
      /\ PlainSet(ExchangeTrade) /\ PlainSet(ExchangeReads)
  BY PlainRows, NamedPlain DEF AccountActivate, AccountSet, AccountHistory, ChainParams, AssetIssue, AssetWrites,
     AssetReads, ExchangeWrites, ExchangeTrade, ExchangeReads
<1>3. /\ PlainSet(StakeWrites) /\ PlainSet(StakeReads) /\ PlainSet(VoteCast) /\ PlainSet(ProposalReads)
      /\ PlainSet(ProposalWrites) /\ PlainSet(WitnessWrites) /\ PlainSet(ContractInfo)
      /\ PlainSet(ContractGovernance) /\ PlainSet(TxApprovals) /\ PlainSet(TxMultisig)
  BY PlainRows, NamedPlain DEF StakeWrites, StakeReads, VoteCast, ProposalReads, ProposalWrites, WitnessWrites,
     ContractInfo, ContractGovernance, TxApprovals, TxMultisig
<1>4. /\ PlainSet(VoteReads) /\ PlainSet(RewardCommands) /\ PlainSet(PermissionCommands)
      /\ PlainSet(GasFreeReads)
  BY PlainRows, NamedPlain, <1>1 DEF VoteReads, RewardCommands, PermissionCommands, GasFreeReads
<1>5. /\ PlainSet(GasFreeTransferRow) /\ PlainSet(AddLiquidity) /\ PlainSet(RemoveLiquidity)
      /\ PlainSet(CollectFees) /\ PlainSet(SunSwapSwap) /\ PlainSet(SunPumpBuy) /\ PlainSet(SunPumpSell)
      /\ PlainSet(PoolList) /\ PlainSet(PoolSearch) /\ PlainSet(TokenList) /\ PlainSet(TokenSearch)
  BY PlainRows, NamedPlain DEF GasFreeTransferRow, AddLiquidity, RemoveLiquidity, CollectFees, SunSwapSwap,
     SunPumpBuy, SunPumpSell, PoolList, PoolSearch, TokenList, TokenSearch
<1>6. /\ PlainSet(TokenPrice) /\ PlainSet(PositionList) /\ PlainSet(PositionInfo) /\ PlainSet(PumpTokenInfo)
      /\ PlainSet(PumpTokenList) /\ PlainSet(PumpTokenSearch)
  BY PlainRows, NamedPlain DEF TokenPrice, PositionList, PositionInfo, PumpTokenInfo, PumpTokenList,
     PumpTokenSearch
<1>7. PlainSet(SunPumpLaunch)
  <2>1. Plain([Public EXCEPT !.modes = {"dryRun"}])
    BY DEF Plain, Public, View, Neutral
  <2> QED
    BY <2>1, NamedPlain DEF SunPumpLaunch
<1> QED
  BY <1>2, <1>3, <1>4, <1>5, <1>6, <1>7, EvmRowsPlain DEF TronCommands, PlainSet

LEMMA NeutralRowsAskable == \A c \in NeutralCommands : Askable(c.is)
<1>1. /\ PlainSet(X402Pay) /\ PlainSet(X402Catalog) /\ PlainSet(BaiReads) /\ PlainSet(ConfigCommand)
      /\ PlainSet(ContactCommands) /\ PlainSet(NetworksCommand) /\ PlainSet(EncodingConvert)
      /\ PlainSet(AddressGenerate) /\ PlainSet(WalletCreate) /\ PlainSet(ImportWatch) /\ PlainSet(WalletUse)
      /\ PlainSet(WalletRename)
  BY PlainRows, NamedPlain DEF X402Pay, X402Catalog, BaiReads, ConfigCommand, ContactCommands, NetworksCommand,
     EncodingConvert, AddressGenerate, WalletCreate, ImportWatch, WalletUse, WalletRename
<1>2. /\ PlainSet(X402Serve) /\ PlainSet(X402Roundtrip) /\ PlainSet(WalletList) /\ PlainSet(WalletCurrent)
      /\ PlainSet(WalletDerive)
  <2>1. /\ Plain([Neutral EXCEPT !.network = TRUE]) /\ Plain([Payer({}) EXCEPT !.modes = {}])
        /\ Plain([Neutral EXCEPT !.network = TRUE, !.wallet = TRUE]) /\ Plain([Neutral EXCEPT !.auth = TRUE])
    BY DEF Plain, Neutral, Payer, Send, Sign, Mine, View
  <2> QED
    BY <2>1, NamedPlain DEF X402Serve, X402Roundtrip, WalletList, WalletCurrent, WalletDerive
<1>3. Askable(Pasted) /\ Askable([Pasted EXCEPT !.password = "late establish"])
      /\ Askable([Pasted EXCEPT !.password = "verify"])
  BY DEF Askable, Pasted, Created, Asks, Neutral
<1>4. /\ Askable([Asks EXCEPT !.prompt = "choice"]) /\ Askable([Asks EXCEPT !.prompt = "confirm"])
      /\ Askable([Asks EXCEPT !.network = TRUE, !.auth = TRUE, !.prompt = "choice", !.password = "late verify"])
  BY DEF Askable, Asks, Neutral
<1>5. \A c \in UNION {ImportMnemonic, ImportPrivateKey, ImportKeystoreRow, ImportLedger, WalletDelete,
                      WalletBackup, ChangePassword} : Askable(c.is)
  <2>1. \A paths, traits : Askable(traits) => \A c \in Named(paths, traits) : Askable(c.is)
    BY DEF Named
  <2>2. \A c \in ImportMnemonic \cup ImportPrivateKey \cup ImportKeystoreRow : Askable(c.is)
    BY <1>3, <2>1 DEF ImportMnemonic, ImportPrivateKey, ImportKeystoreRow
  <2>3. \A c \in ImportLedger \cup WalletDelete : Askable(c.is)
    BY <1>4, <2>1 DEF ImportLedger, WalletDelete
  <2>4. \A c \in WalletBackup \cup ChangePassword : Askable(c.is)
    BY <1>3, <1>4, <2>1 DEF WalletBackup, ChangePassword
  <2> QED
    BY <2>2, <2>3, <2>4
<1>6. \A c \in UNION {X402Pay, X402Serve, X402Roundtrip, X402Catalog, BaiReads, ConfigCommand,
           ContactCommands, NetworksCommand, EncodingConvert, AddressGenerate, WalletCreate,
           ImportWatch, WalletList, WalletUse, WalletCurrent, WalletRename, WalletDerive} : Plain(c.is)
  BY <1>1, <1>2 DEF PlainSet
<1>7. \A is : Plain(is) => Askable(is)
  BY DEF Plain, Askable
<1> QED
  BY <1>5, <1>6, <1>7 DEF NeutralCommands

LEMMA TraitsAskable == \A is \in Traits : Askable(is)
<1>1. \A c \in Registry : Askable(c.is)
  BY TronRowsPlain, NeutralRowsAskable DEF Registry, PlainSet, Plain, Askable
<1> QED
  BY <1>1 DEF Traits

LEMMA ShellBegins == ShellInit => ShellInv
<1> SUFFICES ASSUME ShellInit PROVE ShellInv
  OBVIOUS
<1>1. Answering
  BY TimeAssumption DEF ShellInit, Start, Answering, TimeOK, Done, Silent, ClaimIsTrue, NoEffectClaimed
<1>2. /\ cmd \in ShellCommands /\ pc = "shell.start" /\ mem.stage = "upgrade" /\ mem.is = Asks
      /\ DOMAIN mem = ShellFields /\ net = [main |-> "none"]
  BY DEF ShellInit, Start, ShellFields
<1> QED
  BY <1>1, <1>2 DEF ShellInv, ShellStages, ShellBefore, NoDeadEnd, Done, Effects

\* An end of the shell, with a refusal the user can act on or none.
Helpful(code, is) ==
    /\ code = "tty_required" => ~cmd.tty
    /\ code \in {"auth_required", "migration_required"} => ~Piped
    /\ code = "auth_required" => ~is.typed
    /\ code = "migration_required" => ~cmd.tty

SameCommand == DOMAIN mem' = ShellFields /\ mem'.stage = mem.stage /\ mem'.is = mem.is

LEMMA ShellEnds ==
    ASSUME ShellInv, pc \in ShellBefore, UNCHANGED <<cmd, left, net>>,
           DOMAIN mem' = ShellFields,
           mem'.stage \in {"upgrade", "command"},
           mem'.stage = "upgrade" => mem'.is = Asks,
           mem'.stage = "command" => mem'.is \in Traits,
           NEW code, Helpful(code, mem'.is), Refuse(code) \/ Claim("none")
    PROVE  ShellInv'
BY DEF ShellInv, ShellStages, ShellBefore, Answering, TimeOK, ClaimIsTrue, NoEffectClaimed, Done, Say, Claim,
       Refuse, NoDeadEnd, Helpful, Piped

LEMMA ShellGoesOn ==
    ASSUME ShellInv, pc \in ShellBefore, pc' \in ShellBefore, UNCHANGED <<cmd, left, net, said>>, SameCommand,
           pc' \in ShellBefore \ {"shell.prime", "shell.ask", "shell.fill", "shell.run"} => mem.stage = "upgrade",
           pc' \in {"shell.fill", "shell.run"} \/
               (pc' = "shell.ask" /\ mem'.asked \in {"field", "secret", "confirm", "choice"}) =>
                   mem.stage = "command" /\ PrimedFirst',
           pc' = "shell.ask" /\ mem'.asked = "upgrade" => mem.stage = "upgrade"
    PROVE  ShellInv'
<1>1. GateRefusal(mem.is)' = GateRefusal(mem.is)
  BY DEF SameCommand, GateRefusal, Piped
<1>2. Answering'
  BY DEF ShellInv, ShellBefore, Answering, TimeOK, ClaimIsTrue, NoEffectClaimed, Done, Silent
<1> QED
  BY <1>1, <1>2 DEF ShellInv, ShellStages, ShellBefore, SameCommand, NoDeadEnd, Done

LEMMA ShellAsks ==
    ASSUME ShellInv, pc \in ShellBefore, UNCHANGED <<cmd, left, net>>, NEW q, Ask(q),
           q \in {"field", "secret", "confirm", "choice"} => mem.stage = "command" /\ PrimedFirst,
           q = "upgrade" => mem.stage = "upgrade"
    PROVE  ShellInv'
<1>1. CASE Expired
  <2>1. Refuse("timeout") /\ mem' = mem /\ Helpful("timeout", mem'.is)
    BY <1>1 DEF Ask, Helpful
  <2> QED
    BY <2>1, ShellEnds DEF ShellInv
<1>2. CASE ~Expired
  <2>1. pc' = "shell.ask" /\ said' = said /\ mem' = [mem EXCEPT !.asked = q, !.pauses = @ + 1]
    BY <1>2 DEF Ask, Goto
  <2>2. SameCommand /\ mem'.asked = q /\ mem'.primed = mem.primed
    BY <2>1 DEF ShellInv, ShellFields, SameCommand
  <2> QED
    BY <2>1, <2>2, ShellGoesOn DEF ShellBefore, SameCommand, PrimedFirst
<1> QED
  BY <1>1, <1>2

LEMMA ShellKeeps == ShellInv /\ (ShellStep \/ World) => ShellInv'
<1> SUFFICES ASSUME ShellInv, ShellStep \/ World PROVE ShellInv'
  OBVIOUS
<1>f. DOMAIN mem = ShellFields
  BY DEF ShellInv
<1>i. /\ mem.stage = "upgrade" => mem.is = Asks
      /\ mem.stage = "command" => mem.is \in Traits
  BY DEF ShellInv
<1>s. mem.stage \in {"upgrade", "command"}
  BY DEF ShellInv
<1>d. Asks.typed = FALSE /\ Asks.asks = TRUE
  BY DEF Asks, Neutral
<1>t. mem.stage = "command" => Askable(mem.is)
  BY <1>i, TraitsAskable
\* A refusal of the command as it is.
<1>r. ASSUME pc \in ShellBefore, UNCHANGED <<cmd, left, net, mem>>, NEW code,
             Refuse(code) \/ Claim("none"), Helpful(code, mem.is)
      PROVE  ShellInv'
  BY <1>r, <1>f, <1>i, <1>s, ShellEnds
\* Refusals that are about nothing the user has to supply.
<1>h. \A code : code \notin {"tty_required", "auth_required", "migration_required"} =>
          \A is : Helpful(code, is)
  BY DEF Helpful
\* Once the password is there.
<1>p. ASSUME pc \in ShellBefore, UNCHANGED <<cmd, left, net>>, SameCommand, mem'.primed = TRUE, Goto(PrimedFor)
      PROVE  ShellInv'
  <2>1. PrimedFirst' /\ said' = said
    BY <1>p DEF PrimedFirst, Goto
  <2>2. CASE mem.stage = "upgrade"
    BY <1>p, <2>1, <2>2, ShellGoesOn DEF PrimedFor, Goto, ShellBefore
  <2>3. CASE mem.stage = "command"
    BY <1>p, <2>1, <2>3, ShellGoesOn DEF PrimedFor, Goto, ShellBefore
  <2> QED
    BY <1>s, <2>2, <2>3
\* The command goes on as it is to a stage before it is known.
<1>g. ASSUME pc \in ShellBefore, mem.stage = "upgrade", UNCHANGED <<cmd, left, net, mem, said>>,
             pc' \in ShellBefore \ {"shell.ask", "shell.fill", "shell.run"}
      PROVE  ShellInv'
  BY <1>g, <1>f, ShellGoesOn DEF SameCommand
<1>1. CASE World
  <2>1. /\ UNCHANGED <<cmd, pc, mem, said>> /\ TimeOK'
        /\ net' \in [main : Effects]
        /\ net'.main = net.main \/ (net.main = "asked" /\ net'.main \in {"taken", "refused"})
             \/ (net.main = "taken" /\ net'.main \in {"ok", "failed"})
    BY <1>1, WorldSteps DEF ShellInv, Effects, Answering
  <2>2. Answering'
    BY <2>1 DEF ShellInv, Answering, Done, ClaimIsTrue, NoEffectClaimed
  <2>3. GateRefusal(mem.is)' = GateRefusal(mem.is) /\ (NoDeadEnd => NoDeadEnd')
    BY <2>1 DEF GateRefusal, NoDeadEnd, Done, Piped
  <2> QED
    BY <2>1, <2>2, <2>3 DEF ShellInv, ShellBefore, PrimedFirst
<1>2. CASE ShellStart \/ ShellHelp \/ ShellStdin
  <2>1. pc \in {"shell.start", "shell.stdin"} /\ UNCHANGED <<cmd, left, net, mem>>
    BY <1>2 DEF ShellStart, ShellHelp, ShellStdin, Sync, Keep
  <2>2. pc \in ShellBefore /\ mem.stage = "upgrade"
    BY <2>1 DEF ShellInv, ShellBefore
  <2>3. \/ Claim("none") \/ Refuse("invalid_option") \/ Refuse("config_error") \/ Refuse("unknown_command")
        \/ Refuse("family_mismatch") \/ Refuse("timeout") \/ Refuse("secret_source_error")
        \/ pc' \in {"shell.upgrade", "shell.stdin"} /\ said' = said
    BY <1>2 DEF ShellStart, ShellHelp, ShellStdin, Goto
  <2>4. CASE pc' \in {"shell.upgrade", "shell.stdin"} /\ said' = said
    BY <2>1, <2>2, <2>4, <1>g DEF ShellBefore
  <2> QED
    BY <2>1, <2>2, <2>3, <2>4, <1>r, <1>h
<1>3. CASE ShellUpgrade
  <2>1. pc \in ShellBefore /\ mem.stage = "upgrade" /\ UNCHANGED <<cmd, left, net>>
    BY <1>3 DEF ShellUpgrade, Keep, ShellInv, ShellBefore
  <2>2. Ask("upgrade") \/ (mem' = mem /\ said' = said /\ pc' \in {"shell.dispatch", "shell.consented"})
    BY <1>3 DEF ShellUpgrade, Goto
  <2>3. CASE Ask("upgrade")
    BY <2>1, <2>3, ShellAsks
  <2>4. CASE mem' = mem /\ said' = said /\ pc' \in {"shell.dispatch", "shell.consented"}
    BY <2>1, <2>4, <1>g DEF ShellBefore
  <2> QED
    BY <2>2, <2>3, <2>4
<1>4. CASE ShellConsented
  <2>1. pc \in ShellBefore /\ mem.stage = "upgrade" /\ UNCHANGED <<cmd, left, net, mem>>
    BY <1>4 DEF ShellConsented, Sync, Keep, ShellInv, ShellBefore
  <2>2. \/ said' = said /\ pc' \in {"shell.upgraded", "shell.prime"}
        \/ ~(Piped \/ IsTTY) /\ Refuse("migration_required")
    BY <1>4 DEF ShellConsented, Goto
  <2>3. CASE said' = said /\ pc' \in {"shell.upgraded", "shell.prime"}
    BY <2>1, <2>3, <1>g DEF ShellBefore
  <2>4. CASE ~(Piped \/ IsTTY) /\ Refuse("migration_required")
    <3>1. ~cmd.tty
      BY <2>1, <2>4, <1>i, <1>d DEF IsTTY
    <3>2. Helpful("migration_required", mem.is)
      BY <2>4, <3>1 DEF Helpful
    <3> QED
      BY <2>1, <2>4, <3>2, <1>r
  <2> QED
    BY <2>2, <2>3, <2>4
<1>5. CASE ShellUpgraded
  <2>1. pc \in ShellBefore /\ UNCHANGED <<cmd, left, net, mem>> /\ (Refuse("io_error") \/ Claim("none"))
    BY <1>5 DEF ShellUpgraded, Sync, Keep, ShellBefore
  <2> QED
    BY <2>1, <1>r, <1>h
<1>6. CASE ShellDispatch
  <2>0. pc = "shell.dispatch" /\ pc \in ShellBefore /\ UNCHANGED <<cmd, left, net>> /\ mem.stage = "upgrade"
    BY <1>6 DEF ShellDispatch, Keep, ShellInv, ShellBefore
  <2>1. CASE Refuse("unknown_command") /\ UNCHANGED mem
    BY <2>0, <2>1, <1>r, <1>h
  <2>2. ASSUME NEW is \in Traits, NEW modes, mem' = [mem EXCEPT !.stage = "command", !.is = is, !.modes = modes]
        PROVE  DOMAIN mem' = ShellFields /\ mem'.stage = "command" /\ mem'.is = is
    BY <2>2, <1>f DEF ShellFields
  <2>3. ASSUME NEW is \in Traits, NEW modes, mem' = [mem EXCEPT !.stage = "command", !.is = is, !.modes = modes],
               NEW code \in {"invalid_option", "family_mismatch", "unsupported_network_capability"}, Refuse(code)
        PROVE  ShellInv'
    BY <2>0, <2>2, <2>3, <1>h, ShellEnds
  <2>4. ASSUME NEW is \in Traits, NEW modes, mem' = [mem EXCEPT !.stage = "command", !.is = is, !.modes = modes],
               GateRefusal(is) # "nothing", Refuse(GateRefusal(is))
        PROVE  ShellInv'
    <3>1. Helpful(GateRefusal(is), is)
      BY <2>4, TraitsAskable DEF GateRefusal, Helpful, Askable
    <3> QED
      BY <2>0, <2>2, <2>4, <3>1, ShellEnds
  <2>5. ASSUME NEW is \in Traits, NEW modes, mem' = [mem EXCEPT !.stage = "command", !.is = is, !.modes = modes],
               GateRefusal(is) = "nothing",
               Goto(IF is.password \in {"establish", "verify"} THEN "shell.prime" ELSE "shell.fill")
        PROVE  ShellInv'
    <3>1. DOMAIN mem' = ShellFields /\ mem'.stage = "command" /\ mem'.is = is
      BY <2>2, <2>5
    <3>2. GateRefusal(mem.is)' = "nothing"
      BY <2>0, <2>5, <3>1 DEF GateRefusal, Piped
    <3>3. pc' \in {"shell.prime", "shell.fill"} /\ said' = said /\ (pc' = "shell.fill" => PrimedFirst')
      BY <2>5, <3>1 DEF Goto, PrimedFirst
    <3>4. Answering' /\ NoDeadEnd'
      BY <2>0, <3>3 DEF ShellInv, ShellBefore, Answering, TimeOK, ClaimIsTrue, NoEffectClaimed, Done, Silent, NoDeadEnd
    <3> QED
      BY <2>0, <3>1, <3>2, <3>3, <3>4 DEF ShellInv, ShellStages, ShellBefore
  <2> QED
    BY <1>6, <2>1, <2>3, <2>4, <2>5 DEF ShellDispatch
<1>7. CASE ShellPrime
  <2>0. pc = "shell.prime" /\ pc \in ShellBefore /\ UNCHANGED <<cmd, left, net>>
    BY <1>7 DEF ShellPrime, Keep, ShellBefore
  <2>1. CASE mem' = [mem EXCEPT !.primed = TRUE] /\ Goto(PrimedFor)
    <3>1. SameCommand /\ mem'.primed = TRUE
      BY <2>1, <1>f DEF SameCommand, ShellFields
    <3> QED
      BY <2>0, <2>1, <3>1, <1>p
  <2>2. CASE (Refuse("auth_failed") \/ Refuse("weak_password")) /\ UNCHANGED mem
    BY <2>0, <2>2, <1>r, <1>h
  <2>3. CASE ~Piped /\ ~IsTTY /\ Refuse("auth_required") /\ UNCHANGED mem
    <3>1. CASE mem.stage = "upgrade"
      BY <2>0, <2>3, <3>1, <1>i, <1>d, <1>r DEF Helpful
    <3>2. CASE mem.stage = "command"
      <4>1. GateRefusal(mem.is) = "nothing"
        BY <2>0, <3>2 DEF ShellInv
      <4>2. ~mem.is.typed
        BY <2>3, <4>1 DEF GateRefusal, IsTTY
      <4> QED
        BY <2>0, <2>3, <4>2, <1>r DEF Helpful
    <3> QED
      BY <3>1, <3>2, <1>s
  <2>4. CASE Ask("password") \/ Ask("new password")
    BY <2>0, <2>4, ShellAsks
  <2> QED
    BY <1>7, <2>1, <2>2, <2>3, <2>4 DEF ShellPrime
<1>8. CASE ShellFill
  <2>0. pc = "shell.fill" /\ pc \in ShellBefore /\ UNCHANGED <<cmd, left, net>>
    BY <1>8 DEF ShellFill, Keep, ShellBefore
  <2>1. mem.stage = "command" /\ PrimedFirst
    BY <2>0 DEF ShellInv
  <2>2. CASE Ask("field")
    BY <2>0, <2>1, <2>2, ShellAsks
  <2>3. CASE (Refuse("missing_option") \/ Refuse("invalid_option") \/ Refuse("account_not_found")) /\ UNCHANGED mem
    BY <2>0, <2>3, <1>r, <1>h
  <2>4. CASE Goto("shell.run") /\ UNCHANGED mem
    BY <2>0, <2>1, <2>4, <1>f, ShellGoesOn DEF Goto, SameCommand, PrimedFirst, ShellBefore
  <2> QED
    BY <1>8, <2>2, <2>3, <2>4 DEF ShellFill
<1>9. CASE ShellAnswer
  <2>0. pc = "shell.ask" /\ pc \in ShellBefore /\ UNCHANGED <<cmd, left, net>>
    BY <1>9 DEF ShellAnswer, Keep, ShellBefore
  <2>1. \A x, y : LET m == Answered(mem)
                  IN /\ mem' \in {m, [m EXCEPT !.tries = x], [m EXCEPT !.prompted = y]} =>
                            SameCommand /\ mem'.primed = mem.primed
                     /\ mem' = [m EXCEPT !.primed = TRUE] => SameCommand /\ mem'.primed = TRUE
    BY <1>f DEF Answered, SameCommand, ShellFields
  <2>2. CASE mem' = Answered(mem) /\ (Refuse("aborted") \/ Claim("none"))
    BY <2>0, <2>1, <2>2, <1>h, <1>i, <1>s, ShellEnds DEF SameCommand
  <2>3. CASE mem.asked = "upgrade" /\ mem' = Answered(mem) /\ Goto("shell.consented")
    <3>1. mem.stage = "upgrade"
      BY <2>0, <2>3 DEF ShellInv
    <3> QED
      BY <2>0, <2>1, <2>3, <3>1, ShellGoesOn DEF Goto, ShellBefore
  <2>4. CASE Primed
    BY <2>0, <2>1, <2>4, <1>p DEF Primed
  <2>5. CASE /\ mem' \in {Answered(mem), [Answered(mem) EXCEPT !.tries = @ + 1]}
             /\ Goto("shell.prime")
    BY <2>0, <2>1, <2>5, ShellGoesOn DEF Goto, ShellBefore
  <2>6. CASE /\ mem.asked \in {"field", "secret", "confirm", "choice"}
             /\ \E y : mem' \in {Answered(mem), [Answered(mem) EXCEPT !.prompted = y]}
             /\ Goto("shell.fill") \/ Goto("shell.run")
    <3>1. mem.stage = "command" /\ PrimedFirst
      BY <2>0, <2>6 DEF ShellInv
    <3>2. SameCommand /\ mem'.primed = mem.primed
      BY <2>1, <2>6
    <3>3. PrimedFirst'
      BY <3>1, <3>2 DEF PrimedFirst, SameCommand
    <3> QED
      BY <2>0, <2>6, <3>1, <3>2, <3>3, ShellGoesOn DEF Goto, ShellBefore
  <2> QED
    BY <1>9, <2>2, <2>3, <2>4, <2>5, <2>6 DEF ShellAnswer
<1>10. CASE RunPrompts
  <2>0. pc = "shell.run" /\ pc \in ShellBefore /\ UNCHANGED <<cmd, left, net>> /\ ~Prompted
    BY <1>10 DEF RunPrompts, Keep, ShellBefore
  <2>1. mem.stage = "command" /\ PrimedFirst
    BY <2>0 DEF ShellInv
  <2>2. mem.is.prompt \in {"secret", "confirm", "choice"}
    BY <2>0, <2>1, <1>t DEF Prompted, Askable
  <2>3. CASE Ask(mem.is.prompt)
    BY <2>0, <2>1, <2>2, <2>3, ShellAsks
  <2>4. CASE ~IsTTY /\ mem.is.prompt # "choice" /\ Refuse("tty_required") /\ UNCHANGED mem
    <3>1. ~cmd.tty
      BY <2>1, <2>2, <2>4, <1>t DEF Askable, IsTTY
    <3>2. Helpful("tty_required", mem.is)
      BY <3>1 DEF Helpful
    <3> QED
      BY <2>0, <2>4, <3>2, <1>r
  <2>5. CASE mem' = [mem EXCEPT !.prompted = TRUE] /\ UNCHANGED <<pc, said>>
    <3>1. SameCommand /\ PrimedFirst'
      BY <2>1, <2>5, <1>f DEF SameCommand, ShellFields, PrimedFirst
    <3> QED
      BY <2>0, <2>1, <2>5, <3>1, ShellGoesOn
  <2> QED
    BY <1>10, <2>3, <2>4, <2>5 DEF RunPrompts
<1>11. CASE RunPrimes
  <2>1. pc = "shell.run" /\ pc \in ShellBefore /\ pc' = "shell.prime" /\ UNCHANGED <<cmd, left, net, mem, said>>
    BY <1>11 DEF RunPrimes, Sync, Keep, Goto, ShellBefore
  <2> QED
    BY <2>1, <1>f, ShellGoesOn DEF SameCommand, ShellBefore
<1>12. CASE RunNeedsPassword
  <2>0. pc = "shell.run" /\ pc \in ShellBefore /\ UNCHANGED <<cmd, left, net, mem>>
    BY <1>12 DEF RunNeedsPassword, Sync, Keep, ShellBefore
  <2>1. mem.stage = "command" /\ PrimedFirst
    BY <2>0 DEF ShellInv
  <2>2. ~mem.is.typed
    BY <1>12, <2>1, <1>t DEF RunNeedsPassword, Ready, Late, PrimedFirst, Askable
  <2>3. CASE Refuse("auth_failed")
    BY <2>0, <2>3, <1>r, <1>h
  <2>4. CASE ~Piped /\ Refuse("auth_required")
    BY <2>0, <2>2, <2>4, <1>r DEF Helpful
  <2> QED
    BY <1>12, <2>3, <2>4 DEF RunNeedsPassword
<1>13. CASE RunBroadcasts
  <2>0. pc = "shell.run" /\ pc \in ShellBefore /\ UNCHANGED <<cmd, left, mem>>
    BY <1>13 DEF RunBroadcasts, ShellBefore
  <2>1. CASE (Refuse("dry_run_violation") \/ Refuse("timeout")) /\ UNCHANGED net
    BY <2>0, <2>1, <1>r, <1>h
  <2>2. CASE Goto("shell.sent") /\ net' = [net EXCEPT !.main = "asked"]
    <3>1. pc' = "shell.sent" /\ said' = said /\ net' \in [main : Effects]
      BY <2>2 DEF Goto, ShellInv, Effects
    <3>2. Answering' /\ NoDeadEnd' /\ GateRefusal(mem.is)' = GateRefusal(mem.is)
      BY <2>0, <3>1 DEF ShellInv, Answering, TimeOK, ClaimIsTrue, NoEffectClaimed, Silent, Done, NoDeadEnd,
                        GateRefusal, Piped
    <3> QED
      BY <2>0, <3>1, <3>2 DEF ShellInv, ShellStages, ShellBefore
  <2> QED
    BY <1>13, <2>1, <2>2 DEF RunBroadcasts
<1>14. CASE RunEnds
  <2>1. pc \in ShellBefore /\ UNCHANGED <<cmd, left, net, mem>>
        /\ (Refuse("timeout") \/ Refuse("failed") \/ Claim("none"))
    BY <1>14 DEF RunEnds, Sync, Keep, ShellBefore
  <2> QED
    BY <2>1, <1>r, <1>h
<1>15. CASE RunReceipt
  <2>1. pc = "shell.sent" /\ UNCHANGED <<cmd, left, net, mem>> /\ pc' = "done"
    BY <1>15 DEF RunReceipt, Sync, Keep, Claim, Refuse, Say
  <2>2. \/ said' = [claim |-> "submitted"] /\ net.main \in Started
        \/ said' = [claim |-> "none", code |-> "rejected"] /\ net.main = "refused"
        \/ said' = [claim |-> "unknown"]
    BY <1>15 DEF RunReceipt, Claim, Refuse, Say, Started
  <2>3. Answering' /\ NoDeadEnd'
    BY <2>1, <2>2 DEF ShellInv, Answering, TimeOK, ClaimIsTrue, NoEffectClaimed, Done, NoDeadEnd, Started
  <2> QED
    BY <2>1, <2>3 DEF ShellInv, ShellBefore
<1> QED
  BY <1>1, <1>2, <1>3, <1>4, <1>5, <1>6, <1>7, <1>8, <1>9, <1>10, <1>11, <1>12, <1>13, <1>14, <1>15
  DEF ShellStep

-----------------------------------------------------------------------------
(* The chains. *)

\* A command of the chains has read nothing yet when it starts.
LEMMA ChainStart == ChainInit => ChainInv
<1> SUFFICES ASSUME ChainInit PROVE ChainInv
  OBVIOUS
<1>1. Answering
  BY TimeAssumption DEF ChainInit, Start, Answering, TimeOK, Done, Silent, ClaimIsTrue, NoEffectClaimed
<1>2. /\ cmd \in ChainCommands /\ pc \in {"chain.read", "chain.signer"} /\ mem = [got |-> <<>>, confirmed |-> FALSE]
      /\ net = [main |-> "none"]
  BY DEF ChainInit, Start
<1>3. ~CutShort
  BY <1>2 DEF CutShort
<1> QED
  BY <1>1, <1>2, <1>3 DEF ChainInv, ChainStages, ChainBefore, ChainAfterwards, CutIsLate, CutReadsStop, ConfirmedStands,
                    ConfirmationStands, Done, Effects

\* What was read, and what it came to, stays.
LEMMA CutStays ==
    ASSUME mem'.got = mem.got
    PROVE  CutShort' <=> CutShort
BY DEF CutShort

\* The answers of a command that has sent nothing.
LEMMA ChainEnds ==
    ASSUME ChainInv, pc \in ChainBefore, UNCHANGED <<cmd, left, net>>,
           DOMAIN mem' = {"got", "confirmed"}, mem'.confirmed = FALSE,
           pc' = "done", said'.claim \in {"none", "silent"}, "lacks" \in DOMAIN said' => ~CutShort'
    PROVE  ChainInv'
BY DEF ChainInv, ChainStages, ChainBefore, ChainAfterwards, Answering, TimeOK, ClaimIsTrue, NoEffectClaimed,
       Done, CutIsLate, CutReadsStop, ConfirmedStands, ConfirmationStands

LEMMA ChainGoesOn ==
    ASSUME ChainInv, pc \in ChainBefore, pc' \in ChainBefore, UNCHANGED <<cmd, left, net, said>>,
           DOMAIN mem' = {"got", "confirmed"}, mem'.confirmed = FALSE,
           pc' \in ChainBefore \ {"chain.signer", "chain.read", "chain.try"} => cmd.mode # "query",
           IF pc' = "chain.build" THEN CutShort' => Expired ELSE ~CutShort'
    PROVE  ChainInv'
<1>1. CutReadsStop'
  BY DEF ChainInv, ChainBefore, CutReadsStop, Done
<1>2. CutIsLate'
  BY DEF CutIsLate, Expired
<1> QED
  BY <1>1, <1>2 DEF ChainInv, ChainStages, ChainBefore, ChainAfterwards, Answering, TimeOK, ClaimIsTrue, NoEffectClaimed,
     Silent, Done, ConfirmedStands, ConfirmationStands

\* Only what is to be built goes on without a read that was cut.
LEMMA QueriesDropNothing ==
    ASSUME cmd \in ChainCommands, cmd.mode = "query"
    PROVE  NamesOf(Use.drops) = {}
<1>1. PICK u \in Uses : cmd.use = [on |-> u.on, is |-> u.is]
  BY DEF ChainCommands
<1>2. ~u.is.sends
  BY <1>1 DEF ChainCommands, UseModes
<1> QED
  BY <1>1, <1>2, DropsComeBeforeABuild DEF Use, NamesOf

LEMMA ChainKeeps == ChainInv /\ (ChainStep \/ World) => ChainInv'
<1> SUFFICES ASSUME ChainInv, ChainStep \/ World PROVE ChainInv'
  OBVIOUS
<1>c. cmd \in ChainCommands /\ cmd.family = "chain"
  BY DEF ChainInv, ChainCommands
<1>m. pc \in ChainBefore => DOMAIN mem = {"got", "confirmed"} /\ mem.confirmed = FALSE
  BY DEF ChainInv, ChainBefore
\* A refusal before anything is sent.
<1>r. ASSUME pc \in ChainBefore, ChainRefuse, UNCHANGED <<cmd, left, net>>,
             DOMAIN mem' = {"got", "confirmed"}, mem'.confirmed = FALSE
      PROVE  ChainInv'
  <2>1. pc' = "done" /\ said'.claim \in {"none", "silent"} /\ "lacks" \notin DOMAIN said'
    BY <1>r DEF ChainRefuse, Claim, Say
  <2> QED
    BY <1>r, <2>1, ChainEnds
\* A result before anything is sent: every read was answered or failed by itself.
<1>a. ASSUME pc \in ChainBefore, ~CutShort', NEW c \in {"none", "silent"}, NEW lacks,
             Answer(c, lacks), UNCHANGED <<cmd, left, net>>,
             DOMAIN mem' = {"got", "confirmed"}, mem'.confirmed = FALSE
      PROVE  ChainInv'
  <2>1. pc' = "done" /\ said'.claim = c
    BY <1>a DEF Answer, Say
  <2> QED
    BY <1>a, <2>1, ChainEnds
\* The same, or a vote that has yet to read the interval.
<1>u. ASSUME pc \in ChainBefore, ~CutShort, cmd.mode # "query", NEW lacks, Unsent(lacks),
             UNCHANGED <<cmd, left, mem, net>>
      PROVE  ChainInv'
  <2>1. CASE Answer("none", lacks)
    BY <1>u, <1>m, <1>a, <2>1, CutStays
  <2>2. CASE Goto("chain.interval")
    BY <1>u, <1>m, <2>2, CutStays, ChainGoesOn DEF Goto, ChainBefore
  <2> QED
    BY <1>u, <2>1, <2>2 DEF Unsent
\* An answer after the transaction was sent.
<1>e. ASSUME pc \notin ChainBefore, UNCHANGED <<cmd, left, net, mem>>, pc' = "done", ~CutShort,
             said'.claim \in {"none", "unknown", "failed", "submitted", "confirmed"},
             said'.claim = "none" => net.main = "refused",
             said'.claim = "failed" => net.main = "failed",
             said'.claim = "submitted" => net.main \in Started,
             said'.claim = "confirmed" => net.main = "ok",
             mem.confirmed => said'.claim = "confirmed" /\ net.main = "ok"
      PROVE  ChainInv'
  <2>1. CutIsLate' /\ CutReadsStop'
    BY <1>e, CutStays DEF CutIsLate, CutReadsStop
  <2> QED
    BY <1>e, <2>1 DEF ChainInv, ChainStages, ChainBefore, ChainAfterwards, Answering, TimeOK, ClaimIsTrue, NoEffectClaimed,
       Done, ConfirmedStands, ConfirmationStands, Started
\* `tx status' is another command.
<1>11. ~(TronStatus \/ EvmStatus \/ StatusFails)
  BY DEF TronStatus, EvmStatus, StatusFails, ChainInv, ChainStages, ChainBefore, ChainAfterwards
<1>1. CASE World
  <2>1. /\ UNCHANGED <<cmd, pc, mem, said>> /\ TimeOK'
        /\ net' \in [main : Effects]
        /\ net'.main = net.main \/ (net.main = "asked" /\ net'.main \in {"taken", "refused"})
             \/ (net.main = "taken" /\ net'.main \in {"ok", "failed"})
    BY <1>1, WorldSteps DEF ChainInv, Effects, Answering
  <2>2. Answering'
    BY <2>1 DEF ChainInv, Answering, Done, ClaimIsTrue, NoEffectClaimed
  <2>3. Expired => Expired'
    BY <1>1 DEF World, Tick, EffectDecided, EffectExecuted, Expired
  <2>4. CutIsLate'
    BY <2>1, <2>3, CutStays DEF ChainInv, CutIsLate
  <2>5. CutReadsStop' /\ ConfirmedStands'
    BY <2>1, CutStays DEF ChainInv, CutReadsStop, ConfirmedStands, ConfirmationStands, Done
  <2> QED
    BY <2>1, <2>2, <2>4, <2>5 DEF ChainInv, ChainBefore, ChainAfterwards, Started
<1>2. CASE ChainSigner \/ ChainRead
  <2>1. pc \in {"chain.signer", "chain.read"} /\ UNCHANGED <<cmd, left, mem, net>>
        /\ (ChainRefuse \/ (pc' \in {"chain.read", "chain.try"} /\ said' = said))
    BY <1>2 DEF ChainSigner, ChainRead, Goto
  <2>2. ~CutShort'
    BY <2>1, CutStays DEF ChainInv, CutIsLate
  <2> QED
    BY <2>1, <2>2, <1>r, <1>m, ChainGoesOn DEF ChainBefore
<1>3. CASE ChainRefused
  BY <1>3, <1>r, <1>m DEF ChainRefused, ChainBefore
<1>4. CASE ChainTry
  <2>1. PICK got \in Trying(NamesOf(Tried)) :
          /\ mem' = [mem EXCEPT !.got = got]
          /\ \/ ChainRefuse
             \/ GiveUp(got, NamesOf(Use.drops)) /\ cmd.mode = "query" /\ Answer("silent", {})
             \/ GiveUp(got, NamesOf(Use.drops)) /\ cmd.mode # "query" /\ Goto("chain.build")
    BY <1>4 DEF ChainTry
  <2>2. pc = "chain.try" /\ pc \in ChainBefore /\ UNCHANGED <<cmd, left, net>>
    BY <1>4 DEF ChainTry, ChainBefore
  <2>3. DOMAIN mem' = {"got", "confirmed"} /\ mem'.confirmed = FALSE /\ mem'.got = got
    BY <2>1, <2>2, <1>m
  <2>4. CutShort' => Expired
    BY <2>1, <2>3 DEF CutShort, Trying, Failure
  <2>5. CASE ChainRefuse
    BY <2>2, <2>3, <2>5, <1>r
  <2>6. CASE GiveUp(got, NamesOf(Use.drops)) /\ cmd.mode = "query" /\ Answer("silent", {})
    <3>1. NamesOf(Use.drops) = {}
      BY <2>6, <1>c, QueriesDropNothing
    <3>2. ~CutShort'
      BY <2>3, <2>6, <3>1 DEF GiveUp, CutShort
    <3> QED
      BY <2>2, <2>3, <2>6, <3>2, <1>a
  <2>7. CASE GiveUp(got, NamesOf(Use.drops)) /\ cmd.mode # "query" /\ Goto("chain.build")
    BY <2>2, <2>3, <2>4, <2>7, ChainGoesOn DEF Goto, ChainBefore
  <2> QED
    BY <2>1, <2>5, <2>6, <2>7
<1>5. CASE ChainBuild \/ ChainPrice \/ ChainSign
  <2>1. pc \in {"chain.build", "chain.price", "chain.sign"} /\ UNCHANGED <<cmd, left, mem, net>>
    BY <1>5 DEF ChainBuild, ChainPrice, ChainSign
  <2>2. pc \in ChainBefore /\ cmd.mode # "query"
    BY <2>1 DEF ChainInv, ChainStages, ChainBefore
  \* The build is refused once the time is over, whatever was dropped before it.
  <2>3. ~CutShort
    <3>1. pc = "chain.build" => ~Expired
      BY <1>5 DEF ChainBuild, ChainPrice, ChainSign
    <3> QED
      BY <2>1, <3>1 DEF ChainInv, CutIsLate
  <2>4. cmd.mode \in {"dry-run", "build-only", "sign-only", "broadcast"}
    BY <2>2, <1>c DEF ChainCommands
  <2>5. \/ ChainRefuse
        \/ \E lacks : Unsent(lacks)
        \/ pc' \in {"chain.price", "chain.sign", "chain.send"} /\ said' = said
    <3>1. CASE ChainBuild
      <4>1. PICK a, tx : IF ~(Satisfied(Use.builds, a) /\ AssertBuilt(tx)) THEN ChainRefuse
                         ELSE CASE cmd.mode = "dry-run" -> Goto("chain.price")
                                [] cmd.mode = "build-only" -> Unsent({})
                                [] cmd.mode \in {"sign-only", "broadcast"} -> Goto("chain.sign")
        BY <3>1 DEF ChainBuild
      <4>2. CASE cmd.mode = "dry-run"
        BY <4>1, <4>2 DEF Goto
      <4>3. CASE cmd.mode = "build-only"
        BY <4>1, <4>3
      <4>4. CASE cmd.mode \in {"sign-only", "broadcast"}
        BY <4>1, <4>4 DEF Goto
      <4> QED
        BY <2>4, <4>2, <4>3, <4>4
    <3>2. CASE ChainSign
      BY <3>2 DEF ChainSign, Goto
    <3>3. CASE ChainPrice
      BY <3>3 DEF ChainPrice
    <3> QED
      BY <1>5, <3>1, <3>2, <3>3
  <2>6. CASE \E lacks : Unsent(lacks)
    BY <2>1, <2>2, <2>3, <2>6, <1>u
  <2>7. CASE pc' \in {"chain.price", "chain.sign", "chain.send"} /\ said' = said
    BY <2>1, <2>2, <2>3, <2>7, <1>m, CutStays, ChainGoesOn DEF ChainBefore
  <2> QED
    BY <2>1, <2>2, <2>5, <2>6, <2>7, <1>r, <1>m
<1>6. CASE ChainInterval
  <2>1. PICK got \in Trying({"interval"}) :
          /\ mem' = [mem EXCEPT !.got = got]
          /\ ChainRefuse \/ (GiveUp(got, {}) /\ Answer("none", {}))
    BY <1>6 DEF ChainInterval
  <2>2. pc = "chain.interval" /\ pc \in ChainBefore /\ UNCHANGED <<cmd, left, net>>
    BY <1>6 DEF ChainInterval, ChainBefore
  <2>3. DOMAIN mem' = {"got", "confirmed"} /\ mem'.confirmed = FALSE /\ mem'.got = got
    BY <2>1, <2>2, <1>m
  <2>4. CASE ChainRefuse
    BY <2>2, <2>3, <2>4, <1>r
  <2>5. CASE GiveUp(got, {}) /\ Answer("none", {})
    <3>1. ~CutShort'
      BY <2>3, <2>5 DEF GiveUp, CutShort
    <3> QED
      BY <2>2, <2>3, <2>5, <3>1, <1>a
  <2> QED
    BY <2>1, <2>4, <2>5
<1>7. CASE ChainSend
  <2>1. pc = "chain.send" /\ UNCHANGED <<cmd, left, mem>>
    BY <1>7 DEF ChainSend
  <2>2. pc \in ChainBefore /\ cmd.mode # "query" /\ ~CutShort
    BY <2>1 DEF ChainInv, ChainStages, ChainBefore, CutIsLate
  <2>3. CASE Claim("none") /\ UNCHANGED net
    <3>1. pc' = "done" /\ said'.claim = "none" /\ "lacks" \notin DOMAIN said'
      BY <2>3 DEF Claim, Say
    <3> QED
      BY <2>1, <2>2, <2>3, <3>1, <1>m, ChainEnds
  <2>4. CASE Goto("chain.reply") /\ net' = [net EXCEPT !.main = "asked"]
    <3>1. net' \in [main : Effects] /\ pc' = "chain.reply" /\ said' = said
      BY <2>4 DEF ChainInv, Effects, Goto
    <3>2. ~CutShort'
      BY <2>1, <2>2, CutStays
    <3>3. CutIsLate' /\ CutReadsStop' /\ ConfirmedStands'
      BY <2>1, <2>2, <3>1, <3>2, <1>m DEF CutIsLate, CutReadsStop, ConfirmedStands, ConfirmationStands, Done
    <3>4. Answering'
      BY <2>1, <3>1 DEF ChainInv, Answering, TimeOK, ClaimIsTrue, NoEffectClaimed, Done, Silent
    <3> QED
      BY <2>1, <2>2, <3>1, <3>3, <3>4, <1>m DEF ChainInv, ChainStages, ChainBefore, ChainAfterwards
  <2> QED
    BY <1>7, <2>3, <2>4 DEF ChainSend
<1>8. CASE ChainReply \/ ChainReplyLost
  <2>1. pc = "chain.reply" /\ UNCHANGED <<cmd, left, mem, net>>
    BY <1>8 DEF ChainReply, ChainReplyLost
  <2>2. cmd.mode # "query" /\ ~mem.confirmed /\ ~CutShort
    BY <2>1 DEF ChainInv, ChainStages, ChainAfterwards, CutIsLate
  <2>3. \/ Claim("none") /\ net.main = "refused"
        \/ Claim("unknown")
        \/ pc' \in ChainAfterwards /\ said' = said /\ net.main \in Started
    BY <1>8 DEF ChainReply, ChainReplyLost, SendAccepted, SendRefused, Goto, ChainAfterwards, Started
  <2>4. CASE pc' \in ChainAfterwards /\ said' = said /\ net.main \in Started
    <3>1. ~CutShort'
      BY <2>1, <2>2, CutStays
    <3>2. CutIsLate' /\ CutReadsStop' /\ ConfirmedStands' /\ Answering'
      BY <2>1, <2>2, <2>4, <3>1 DEF CutIsLate, CutReadsStop, ConfirmedStands, ConfirmationStands,
         ChainInv, Answering, TimeOK, ClaimIsTrue, NoEffectClaimed, Done, Silent, ChainAfterwards
    <3> QED
      BY <2>1, <2>2, <2>4, <3>2 DEF ChainInv, ChainStages, ChainBefore, ChainAfterwards
  <2>5. CASE \/ Claim("none") /\ net.main = "refused"
             \/ Claim("unknown")
    <3>1. pc' = "done" /\ said'.claim \in {"none", "unknown"} /\ (said'.claim = "none" => net.main = "refused")
      BY <2>5 DEF Claim, Say
    <3> QED
      BY <2>1, <2>2, <3>1, <1>e DEF ChainBefore
  <2> QED
    BY <2>3, <2>4, <2>5
<1>9. CASE ChainConfirmed \/ ChainUnconfirmed
  <2>1. pc = "chain.confirm" /\ UNCHANGED <<cmd, left, net>> /\ net.main \in Started
    BY <1>9 DEF ChainConfirmed, ChainUnconfirmed, ChainInv, ChainAfterwards
  <2>2. cmd.mode # "query" /\ ~mem.confirmed /\ DOMAIN mem = {"got", "confirmed"} /\ ~CutShort
    BY <2>1 DEF ChainInv, ChainStages, ChainBefore, ChainAfterwards, CutIsLate
  <2>3. CASE pc' = "chain.after" /\ said' = said /\ (mem' = mem \/ (net.main = "ok" /\ mem' = [mem EXCEPT !.confirmed = TRUE]))
    <3>1. /\ DOMAIN mem' = {"got", "confirmed"} /\ mem'.got = mem.got
          /\ mem'.confirmed \in BOOLEAN /\ (mem'.confirmed => net.main = "ok")
      BY <2>2, <2>3 DEF ChainInv
    <3>2. ~CutShort'
      BY <2>2, <3>1, CutStays
    <3>3. CutIsLate' /\ CutReadsStop' /\ ConfirmedStands' /\ Answering'
      BY <2>1, <2>2, <2>3, <3>1, <3>2 DEF CutIsLate, CutReadsStop, ConfirmedStands, ConfirmationStands,
         ChainInv, Answering, TimeOK, ClaimIsTrue, NoEffectClaimed, Done, Silent, ChainAfterwards
    <3> QED
      BY <2>1, <2>2, <2>3, <3>1, <3>3 DEF ChainInv, ChainStages, ChainBefore, ChainAfterwards
  <2>4. CASE net.main = "failed" /\ Answer("failed", {}) /\ UNCHANGED mem
    <3>1. pc' = "done" /\ said'.claim = "failed"
      BY <2>4 DEF Answer, Say
    <3> QED
      BY <2>1, <2>2, <2>4, <3>1, <1>e DEF ChainBefore
  <2> QED
    BY <1>9, <2>3, <2>4 DEF ChainConfirmed, ChainUnconfirmed, Goto
<1>10. CASE ChainAfter \/ ChainEnd
  <2>1. pc = "chain.after" /\ UNCHANGED <<cmd, left, mem, net>> /\ net.main \in Started
    BY <1>10 DEF ChainAfter, ChainEnd, ChainInv, ChainAfterwards
  <2>2. ~CutShort /\ (mem.confirmed => net.main = "ok")
    BY <2>1 DEF ChainInv, ConfirmedStands, CutIsLate
  <2>3. PICK lacks : Answer(AfterClaim, lacks)
    BY <1>10 DEF ChainAfter, ChainEnd, AfterWarns
  <2>4. pc' = "done" /\ said'.claim = IF mem.confirmed THEN "confirmed" ELSE "submitted"
    BY <2>3 DEF Answer, Say, AfterClaim
  <2> QED
    BY <2>1, <2>2, <2>4, <1>e DEF ChainBefore
<1> QED
  BY <1>1, <1>2, <1>3, <1>4, <1>5, <1>6, <1>7, <1>8, <1>9, <1>10, <1>11 DEF ChainStep

-----------------------------------------------------------------------------
(* `tx status' and the detached server, whose answers say nothing of an effect of theirs. *)

\* Where a step of the chain commands is taken.
LEMMA ChainStepAt ==
    ASSUME ChainStep
    PROVE  pc \in ChainStages \/ TronStatus \/ EvmStatus \/ StatusFails
BY DEF ChainStep, ChainStages, ChainBefore, ChainAfterwards, ChainSigner, ChainRead, ChainRefused, ChainTry,
       ChainBuild, ChainPrice, ChainSign, ChainInterval, ChainSend, ChainReply, ChainReplyLost, ChainConfirmed,
       ChainUnconfirmed, ChainAfter, ChainEnd

LEMMA StatusStart == StatusInit => StatusInv
<1> SUFFICES ASSUME StatusInit PROVE StatusInv
  OBVIOUS
<1>1. Answering
  BY TimeAssumption DEF StatusInit, Start, Answering, TimeOK, Done, Silent, ClaimIsTrue, NoEffectClaimed
<1>2. ~CutShort
  BY DEF StatusInit, CutShort
<1> QED
  BY <1>1, <1>2 DEF StatusInit, StatusInv, Start, CutReadsStop

LEMMA StatusKeeps == StatusInv /\ (ChainStep \/ World) => StatusInv'
<1> SUFFICES ASSUME StatusInv, ChainStep \/ World PROVE StatusInv'
  OBVIOUS
<1>0. cmd.family = "status"
  BY DEF StatusInv, StatusCommands
<1>1. CASE World
  <2>1. /\ UNCHANGED <<cmd, pc, mem, said>> /\ TimeOK'
        /\ net' \in [main : Effects]
        /\ net'.main = net.main \/ (net.main = "asked" /\ net'.main \in {"taken", "refused"})
             \/ (net.main = "taken" /\ net'.main \in {"ok", "failed"})
    BY <1>1, WorldSteps DEF StatusInv, Effects, Answering
  <2>2. CutReadsStop' /\ (CutShort' <=> CutShort)
    BY <1>0, <2>1, CutStays DEF StatusInv, CutReadsStop, Done
  <2> QED
    BY <2>1, <2>2 DEF StatusInv, Answering, Done, ClaimIsTrue, NoEffectClaimed
<1>2. CASE ChainStep
  <2>1. TronStatus \/ EvmStatus \/ StatusFails
    BY <1>2, ChainStepAt DEF StatusInv, ChainStages, ChainBefore, ChainAfterwards
  <2>2. /\ pc = "status.read" /\ UNCHANGED <<cmd, left, net>>
        /\ \/ ChainRefuse /\ (mem' = mem \/ \E got : mem' = [mem EXCEPT !.got = got])
           \/ \E got, info, known : /\ (info => Mined) /\ (known => Known) /\ GiveUp(got, {})
                                    /\ mem' = [mem EXCEPT !.got = got]
                                    /\ Answer(StatusOf(info, known), {})
    BY <2>1 DEF TronStatus, EvmStatus, StatusFails, StatusSays
  <2>3. DOMAIN mem' = {"got", "confirmed"} /\ mem'.confirmed = FALSE
    BY <2>2 DEF StatusInv
  <2>4. CASE ChainRefuse
    <3>1. pc' = "done" /\ said' = [claim |-> "silent"]
      BY <1>0, <2>4 DEF ChainRefuse, Claim, Say
    <3> QED
      BY <1>0, <2>2, <2>3, <3>1 DEF StatusInv, Answering, TimeOK, Done, ClaimIsTrue, NoEffectClaimed, CutReadsStop
  <2>5. CASE \E got, info, known : /\ (info => Mined) /\ (known => Known) /\ GiveUp(got, {})
                                   /\ mem' = [mem EXCEPT !.got = got]
                                   /\ Answer(StatusOf(info, known), {})
    <3>1. PICK got, info, known : /\ (info => Mined) /\ (known => Known) /\ GiveUp(got, {})
                                  /\ mem' = [mem EXCEPT !.got = got]
                                  /\ Answer(StatusOf(info, known), {})
      BY <2>5
    <3>2. mem'.got = got /\ ~CutShort'
      BY <2>3, <3>1 DEF StatusInv, GiveUp, CutShort
    <3>3. /\ pc' = "done" /\ said'.claim = StatusOf(info, known)
          /\ \/ said'.claim = "unknown"
             \/ said'.claim = "failed" /\ net.main = "failed"
             \/ said'.claim = "confirmed" /\ net.main = "ok"
             \/ said'.claim = "submitted" /\ net.main \in {"taken", "ok", "failed"}
      BY <3>1 DEF StatusOf, Mined, Known, Answer, Say
    <3> QED
      BY <1>0, <2>2, <2>3, <3>2, <3>3 DEF StatusInv, Answering, TimeOK, Done, ClaimIsTrue, NoEffectClaimed, CutReadsStop
  <2> QED
    BY <2>2, <2>4, <2>5
<1> QED
  BY <1>1, <1>2

LEMMA DaemonStart == DaemonInit => DaemonInv
<1> SUFFICES ASSUME DaemonInit PROVE DaemonInv
  OBVIOUS
<1>1. Answering
  BY TimeAssumption DEF DaemonInit, Start, Answering, TimeOK, Done, Silent, ClaimIsTrue, NoEffectClaimed
<1> QED
  BY <1>1 DEF DaemonInit, DaemonInv, Start

LEMMA DaemonKeeps == DaemonInv /\ (DaemonStep \/ World) => DaemonInv'
<1> SUFFICES ASSUME DaemonInv, DaemonStep \/ World PROVE DaemonInv'
  OBVIOUS
<1> USE DEF DaemonInv, Answering, TimeOK, ClaimIsTrue, NoEffectClaimed, Silent, Done, Goto, Say, Claim
<1>1. CASE World
  BY <1>1, WorldSteps
<1>2. CASE DaemonCommand
  BY <1>2 DEF DaemonCommand, DaemonLog, DaemonLaunch, DaemonListens, DaemonReady, DaemonFails, DaemonLate,
              GiveUpChild, Stopped
<1>3. CASE DaemonUnheard
  BY <1>3 DEF DaemonUnheard
<1>4. CASE ChildFails \/ ChildListens \/ ChildSignalled \/ ChildKilled \/ ChildClosed
  BY <1>4 DEF ChildFails, ChildListens, ChildSignalled, ChildKilled, ChildClosed, Child
<1> QED
  BY <1>1, <1>2, <1>3, <1>4 DEF DaemonStep

-----------------------------------------------------------------------------
(* One command at a time: a step of another family is never taken. *)

LEMMA GasFreeStepAt == GasFreeStep => pc \in GasFreeStages
BY DEF GasFreeStages, GasFreeBefore, GasFreeAfter, GasFreeStep, GasFreeInfo, GasFreeTrace, GasFreeOffered,
       GasFreeBalance, GasFreeRefused, GasFreeSigned, GasFreeSubmit, GasFreeDenied, GasFreeUncertain,
       GasFreeReceipt, GasFreePoll, GasFreeTraceFails, GasFreeTraced

LEMMA MultisigStepAt == MultisigStep => pc \in MultisigStages \/ cmd.family = "multisig"
BY DEF MultisigStages, MultisigBefore, MultisigStep, MultisigPage, MultisigVerify, MultisigWeights,
       MultisigImported, MultisigApprovals, MultisigWatched, MultisigRefused, MultisigAuthorize,
       MultisigSigned, MultisigRechecked, MultisigSubmit, MultisigDenied, MultisigUnclear,
       MultisigAccepted, PermissionReplaced

LEMMA ShellStepAt == ShellStep => pc \in ShellStages
BY DEF ShellStages, ShellBefore, ShellStep, ShellStart, ShellHelp, ShellStdin, ShellUpgrade,
       ShellConsented, ShellUpgraded, ShellDispatch, ShellPrime, ShellFill, ShellAnswer, RunPrompts,
       RunPrimes, RunNeedsPassword, RunBroadcasts, RunEnds, RunReceipt

LEMMA Families ==
    /\ GasFreeInv => cmd.family = "gasfree" /\ pc \in GasFreeStages \cup {"done"}
    /\ TradeInv => cmd.family = "trade" /\ pc \in TradeStages \cup {"done"}
    /\ LaunchInv => cmd.family = "launch" /\ pc \in {"launch.send", "launch.reply", "done"}
    /\ MultisigInv => cmd.family = "multisig" /\ pc \in MultisigStages \cup {"done"}
    /\ ShellInv => cmd.family = "shell" /\ pc \in ShellStages \cup {"done"}
    /\ ChainInv => cmd.family = "chain" /\ pc \in ChainStages \cup {"done"}
    /\ StatusInv => cmd.family = "status" /\ pc \in {"status.read", "done"}
    /\ DaemonInv => cmd.family = "daemon" /\ pc \in {"daemon.log", "daemon.launch", "daemon.close", "daemon.wait", "done"}
BY DEF GasFreeInv, GasFreeTypeOK, GasFreeCommands, TradeInv, TradeCommands, LaunchInv, LaunchCommands,
       MultisigInv, MultisigCommands, ShellInv, ShellCommands, ChainInv, ChainCommands, StatusInv,
       StatusCommands, DaemonInv

LEMMA OwnSteps ==
    ASSUME ServiceNext
    PROVE  /\ GasFreeInv => GasFreeStep \/ World
           /\ TradeInv => TradeStep \/ World
           /\ LaunchInv => TradeStep \/ World
           /\ MultisigInv => MultisigStep \/ World
           /\ ShellInv => ShellStep \/ World
           /\ ChainInv => ChainStep \/ World
           /\ StatusInv => ChainStep \/ World
           /\ DaemonInv => DaemonStep \/ World
<1>1. TradeStep => \/ pc \in TradeStages \cup {"launch.send", "launch.reply"} \/ cmd.family = "trade"
  BY TradeStepAt DEF LaunchSend, LaunchRefused, LaunchUnclear, LaunchAnswered
<1>2. ChainStep => pc \in ChainStages \cup {"status.read"}
  BY ChainStepAt DEF TronStatus, EvmStatus, StatusFails
<1>3. DaemonStep => cmd.family = "daemon"
  BY DEF DaemonStep, InDaemon
<1> QED
  BY <1>1, <1>2, <1>3, GasFreeStepAt, MultisigStepAt, ShellStepAt, Families
  DEF ServiceNext, GasFreeStages, GasFreeBefore, GasFreeAfter, TradeStages, TradeBefore, TradeAfter,
      MultisigStages, MultisigBefore, ShellStages, ShellBefore, ChainStages, ChainBefore, ChainAfterwards


-----------------------------------------------------------------------------
(* The invariant of the specification. *)

\* What no step changed stays as the invariant says.
LEMMA Stutters == ServiceInv /\ UNCHANGED vars => ServiceInv'
<1> SUFFICES ASSUME ServiceInv, UNCHANGED vars PROVE ServiceInv'
  OBVIOUS
<1> USE DEF vars, Answering, TimeOK, Done, ClaimIsTrue, NoEffectClaimed, ConfirmedStands, ConfirmationStands
<1>1. GasFreeInv => GasFreeInv'
  BY DEF GasFreeInv, GasFreeTypeOK, ChargeIsAuthorized
<1>2. TradeInv => TradeInv'
  <2>1. AllowancesComing => AllowancesComing'
    BY DEF AllowancesComing, MainHasAllowances
  <2>2. ApprovalsComing => ApprovalsComing'
    BY DEF ApprovalsComing, Standing, Current
  <2>3. EarlyStops => EarlyStops'
    BY DEF EarlyStops, Lost
  <2> QED
    BY <2>1, <2>2, <2>3 DEF TradeInv
<1>3. LaunchInv => LaunchInv'
  BY DEF LaunchInv
<1>4. MultisigInv => MultisigInv'
  BY DEF MultisigInv, Counted, VerifiedRowIsTrue
<1>5. ShellInv => ShellInv'
  BY DEF ShellInv, PrimedFirst, GateRefusal, NoDeadEnd, Piped
<1>6. ChainInv => ChainInv'
  BY CutStays DEF ChainInv, CutIsLate, CutReadsStop, Expired
<1>7. StatusInv => StatusInv'
  BY CutStays DEF StatusInv, CutReadsStop
<1>8. DaemonInv => DaemonInv'
  BY DEF DaemonInv
<1> QED
  BY <1>1, <1>2, <1>3, <1>4, <1>5, <1>6, <1>7, <1>8 DEF ServiceInv

\* A command starts as one of its families does.
LEMMA ServiceStarts == ServiceInit => ServiceInv
BY GasFreeStart, TradeStart, LaunchStart, MultisigStart, ShellBegins, ChainStart, StatusStart, DaemonStart
DEF ServiceInit, ServiceInv

\* Each step keeps the part of the command's own family.
LEMMA ServiceKeeps == ServiceInv /\ [ServiceNext]_vars => ServiceInv'
<1> SUFFICES ASSUME ServiceInv, ServiceNext PROVE ServiceInv'
  BY Stutters
<1> QED
  BY OwnSteps, GasFreeKeeps, TradeWorld, TradeKeeps, LaunchKeeps, MultisigKeeps, ShellKeeps, ChainKeeps,
     StatusKeeps, DaemonKeeps
  DEF ServiceInv

\* What a command asked for, learnt, did and answered hang together at every step of
\* its code and of the world outside it.
THEOREM ServiceInvariant == ServiceSpec => []ServiceInv
<1> QED
  BY ServiceStarts, ServiceKeeps, PTL DEF ServiceSpec


-----------------------------------------------------------------------------
(* What the invariant says of the answers. *)

\* The claim of an answer is true of the one effect the command is for - nothing was
\* sent, it was taken, it was executed, it failed - whatever replies were lost and
\* wherever the deadline fell, as long as the services' replies can be told apart
\* (tx-pipeline, the gasfree, sunswap, multisig and chain use cases, and the shell).
THEOREM ClaimIsTrueHolds == Legible => (ServiceSpec => []ClaimIsTrue)
<1> SUFFICES ASSUME Legible PROVE ServiceSpec => []ClaimIsTrue
  OBVIOUS
<1>1. ServiceInv => ClaimIsTrue
  BY DEF ServiceInv, GasFreeInv, TradeInv, LaunchInv, MultisigInv, ShellInv, ChainInv, StatusInv,
         DaemonInv, Answering
<1> QED
  BY <1>1, ServiceInvariant, PTL

\* The cost that a finished GasFree transfer is said to have had is within the fee its
\* owner signed for, and adds up, whatever amounts the provider reports (assertFeeIntegrity).
THEOREM ChargeIsAuthorizedHolds == ServiceSpec => []ChargeIsAuthorized
<1>1. ServiceInv => ChargeIsAuthorized
  BY Families DEF ServiceInv, GasFreeInv, ChargeIsAuthorized
<1> QED
  BY <1>1, ServiceInvariant, PTL

\* The main call of a trade goes out only when the chain holds every allowance that it
\* spends, in whatever order the approvals were made, awaited and read back.
THEOREM MainHasAllowancesHolds == ServiceSpec => []MainHasAllowances
<1>1. ServiceInv => MainHasAllowances
  BY Families DEF ServiceInv, TradeInv, AllowancesComing, MainHasAllowances
<1> QED
  BY <1>1, ServiceInvariant, PTL

\* However a trade ends, its answer names every approval that the chain may have taken.
THEOREM ApprovalsAccountedHolds == ServiceSpec => []ApprovalsAccounted
<1>1. ServiceInv => ApprovalsAccounted
  BY Families DEF ServiceInv, TradeInv, ApprovalsComing, Standing, ApprovalsAccounted
<1> QED
  BY <1>1, ServiceInvariant, PTL

\* A position or a pool that was lost before the last check stops the call: nothing is
\* sent for what is no longer there.
THEOREM StaleTargetStopsHolds == ServiceSpec => []StaleTargetStops
<1>1. ServiceInv => StaleTargetStops
  BY Families DEF ServiceInv, TradeInv, EarlyStops, StaleTargetStops
<1> QED
  BY <1>1, ServiceInvariant, PTL

\* A confirmation that was seen is what the answer says, whatever fails after it.
THEOREM ConfirmationStandsHolds == ServiceSpec => []ConfirmationStands
<1>1. GasFreeInv => "confirmed" \notin DOMAIN mem
  BY DEF GasFreeInv, GasFreeTypeOK
<1>2. LaunchInv => "confirmed" \notin DOMAIN mem
  BY DEF LaunchInv
<1>3. MultisigInv \/ ShellInv \/ DaemonInv => "confirmed" \notin DOMAIN mem
  BY DEF MultisigInv, ShellInv, ShellFields, DaemonInv
<1>4. StatusInv => ~mem.confirmed
  BY DEF StatusInv
<1>5. ServiceInv => ConfirmationStands
  BY <1>1, <1>2, <1>3, <1>4 DEF ServiceInv, TradeInv, ChainInv, ConfirmedStands, ConfirmationStands
<1> QED
  BY <1>5, ServiceInvariant, PTL

\* A row that is listed as verified states the approvals as the chain counts them, and
\* one that awaits my signature lacks it and can use it, for every permission and
\* every record TronLink may hold.
THEOREM VerifiedRowIsTrueHolds == ServiceSpec => []VerifiedRowIsTrue
<1>1. ServiceInv => VerifiedRowIsTrue
  BY Families DEF ServiceInv, MultisigInv, VerifiedRowIsTrue
<1> QED
  BY <1>1, ServiceInvariant, PTL

\* Every refusal of the shell that tells the user what is missing is one to act on, for
\* each command of the registry and each way to start it.
THEOREM NoDeadEndHolds == ServiceSpec => []NoDeadEnd
<1>1. ServiceInv => NoDeadEnd
  BY Families DEF ServiceInv, ShellInv, NoDeadEnd
<1> QED
  BY <1>1, ServiceInvariant, PTL

\* A best-effort read that the command's own deadline cut leads to no result and to no
\* transaction, in each use case of the table and in `tx status': it is refused where it
\* is read, or where what was dropped meets the next read (unlessDeadline, approveRows).
THEOREM CutReadsStopHolds == ServiceSpec => []CutReadsStop
<1>1. ServiceInv => CutReadsStop
  BY Families DEF ServiceInv, ChainInv, StatusInv, CutReadsStop
<1> QED
  BY <1>1, ServiceInvariant, PTL

\* Whatever a command of these families learns and whatever befalls it, its state has
\* its types: the clock never runs below zero, and the effect is one of Effects.
THEOREM ServiceTypeCorrect ==
    ServiceSpec => [](/\ TimeOK
                      /\ cmd.family = "gasfree" => GasFreeTypeOK
                      /\ cmd.family \in {"trade", "launch"} => TradeTypeOK)
<1>1. ServiceInv => TimeOK
  BY DEF ServiceInv, GasFreeInv, TradeInv, LaunchInv, MultisigInv, ShellInv, ChainInv, StatusInv,
         DaemonInv, Answering
<1>2. ServiceInv /\ cmd.family = "gasfree" => GasFreeTypeOK
  BY Families DEF ServiceInv, GasFreeInv
<1>3. ServiceInv /\ cmd.family \in {"trade", "launch"} => TradeTypeOK
  BY Families DEF ServiceInv, TradeInv, LaunchInv, TradeTypeOK, TradeMems, TradeNets, Answering
<1> QED
  BY <1>1, <1>2, <1>3, ServiceInvariant, PTL

-----------------------------------------------------------------------------
(* The one effect of a command (Effect). *)

\* The two things a step of the code may do to the effect: ask for it, or leave it be.
Dispatches == ~Done /\ net.main = "none" /\ net'.main = "asked" /\ UNCHANGED said
Leaves == net'.main = net.main

\* Each family has one step that sends, and none of its own is taken after the answer.
LEMMA GasFreeSends == GasFreeInv /\ GasFreeStep => (Dispatches \/ Leaves) /\ ~Done
<1> SUFFICES ASSUME GasFreeInv, GasFreeStep PROVE (Dispatches \/ Leaves) /\ ~Done
  OBVIOUS
<1>1. ~Done
  BY GasFreeStepAt DEF Done, GasFreeStages, GasFreeBefore, GasFreeAfter
<1>2. GasFreeSubmit \/ UNCHANGED net
  BY DEF GasFreeStep, GasFreeInfo, GasFreeTrace, GasFreeOffered, GasFreeBalance, GasFreeRefused, GasFreeSigned,
         GasFreeDenied, GasFreeUncertain, GasFreeReceipt, GasFreePoll, GasFreeTraceFails, GasFreeTraced
<1>3. CASE GasFreeSubmit
  BY <1>3 DEF GasFreeSubmit, GasFreeInv, GasFreeTypeOK, GasFreeBefore, Goto, Done, Dispatches, Leaves
<1> QED
  BY <1>1, <1>2, <1>3 DEF Leaves

LEMMA TradeSends == TradeInv /\ TradeStep => (Dispatches \/ Leaves) /\ (Done => UNCHANGED said)
<1> SUFFICES ASSUME TradeInv, TradeStep PROVE (Dispatches \/ Leaves) /\ (Done => UNCHANGED said)
  OBVIOUS
<1>0. net \in TradeNets /\ cmd.family = "trade" /\ pc \in TradeStages \cup {"done"}
  BY Families DEF TradeInv
<1>1. \/ TradeSend \/ UNCHANGED net
      \/ TradeApprove \/ TradeApprovalDecided \/ TradeApprovalExecuted \/ TradeTargetMoves
      \/ LaunchSend
  BY DEF TradeStep, TradeQuoted, TradePlanned, TradePlanRefused, TradePriced, TradeRefused, TradeApprovalRejected,
         TradeApprovalUnclear, TradeApprovalAccepted, TradeApprovalUnconfirmed, TradeApprovalConfirmed,
         TradeAllowanceRead, TradePermitSigned, TradeRechecked, TradeEncoded, TradeRejected, TradeUnclear,
         TradeAccepted, TradeUnconfirmed, TradeConfirmed, TradeReceipt, LaunchRefused, LaunchUnclear, LaunchAnswered
<1>2. CASE TradeSend
  BY <1>0, <1>2 DEF TradeSend, TradeInv, TradeBefore, TradeNets, Goto, Done, Dispatches, Leaves
<1>3. ASSUME TradeApprove PROVE Leaves
  <2>1. SetApproval(Current, "asked") \/ UNCHANGED net
    BY <1>3 DEF TradeApprove
  <2>2. \A k : SetApproval(k, "asked") => Leaves
    BY <1>0 DEF SetApproval, TradeNets, Leaves
  <2> QED
    BY <2>1, <2>2 DEF Leaves
<1>4. CASE TradeApprovalDecided \/ TradeApprovalExecuted \/ TradeTargetMoves
  BY <1>0, <1>4 DEF TradeApprovalDecided, TradeApprovalExecuted, TradeTargetMoves, SetApproval, TradeNets, Leaves
<1>5. ~LaunchSend
  BY <1>0 DEF LaunchSend, TradeStages, TradeBefore, TradeAfter
<1>6. Done => UNCHANGED said
  BY <1>0 DEF Done, TradeStep, TradeQuoted, TradePlanned, TradePlanRefused, TradePriced, TradeRefused, TradeApprove,
         TradeApprovalRejected, TradeApprovalUnclear, TradeApprovalAccepted, TradeApprovalUnconfirmed,
         TradeApprovalConfirmed, TradeAllowanceRead, TradePermitSigned, TradeRechecked, TradeEncoded, TradeSend,
         TradeRejected, TradeUnclear, TradeAccepted, TradeUnconfirmed, TradeConfirmed, TradeReceipt, LaunchSend,
         LaunchRefused, LaunchUnclear, LaunchAnswered, TradeApprovalDecided, TradeApprovalExecuted, TradeTargetMoves
<1> QED
  BY <1>1, <1>2, <1>3, <1>4, <1>5, <1>6 DEF Leaves

LEMMA LaunchSends == LaunchInv /\ TradeStep => (Dispatches \/ Leaves) /\ ~Done
<1> SUFFICES ASSUME LaunchInv, TradeStep PROVE (Dispatches \/ Leaves) /\ ~Done
  OBVIOUS
<1>0. cmd.family = "launch" /\ pc \in {"launch.send", "launch.reply", "done"} /\ net \in [main : Effects]
      /\ (pc = "launch.send" => net.main = "none")
  BY Families DEF LaunchInv
<1>1. LaunchSend \/ LaunchRefused \/ LaunchUnclear \/ LaunchAnswered
  BY <1>0, TradeStepAt DEF TradeStages, TradeBefore, TradeAfter
<1> QED
  BY <1>0, <1>1 DEF LaunchSend, LaunchRefused, LaunchUnclear, LaunchAnswered, Goto, Done, Dispatches, Leaves

LEMMA MultisigSends == MultisigInv /\ MultisigStep => (Dispatches \/ Leaves) /\ (Done => UNCHANGED said)
<1> SUFFICES ASSUME MultisigInv, MultisigStep PROVE (Dispatches \/ Leaves) /\ (Done => UNCHANGED said)
  OBVIOUS
<1>0. net \in [main : Effects, perm : Permissions, before : Permissions]
      /\ (pc \in MultisigBefore => net.main = "none")
  BY DEF MultisigInv
<1>1. MultisigSubmit \/ PermissionReplaced \/ UNCHANGED net
  BY DEF MultisigStep, MultisigPage, MultisigVerify, MultisigWeights, MultisigImported, MultisigApprovals,
         MultisigWatched, MultisigRefused, MultisigAuthorize, MultisigSigned, MultisigRechecked, MultisigDenied,
         MultisigUnclear, MultisigAccepted
<1>2. CASE MultisigSubmit
  BY <1>0, <1>2 DEF MultisigSubmit, MultisigBefore, Goto, Done, Dispatches, Leaves
<1>3. CASE PermissionReplaced
  BY <1>0, <1>3 DEF PermissionReplaced, Leaves
<1>4. ~Done
  BY DEF Done, MultisigStep, MultisigPage, MultisigVerify, MultisigWeights, MultisigImported, MultisigApprovals,
         MultisigWatched, MultisigRefused, MultisigAuthorize, MultisigSigned, MultisigRechecked, MultisigSubmit,
         MultisigDenied, MultisigUnclear, MultisigAccepted, PermissionReplaced
<1> QED
  BY <1>1, <1>2, <1>3, <1>4 DEF Leaves

LEMMA ShellSends == ShellInv /\ ShellStep => (Dispatches \/ Leaves) /\ ~Done
<1> SUFFICES ASSUME ShellInv, ShellStep PROVE (Dispatches \/ Leaves) /\ ~Done
  OBVIOUS
<1>1. ~Done
  BY ShellStepAt DEF Done, ShellStages, ShellBefore
<1>2. RunBroadcasts \/ UNCHANGED net
  BY DEF ShellStep, ShellStart, ShellHelp, ShellStdin, ShellUpgrade, ShellConsented, ShellUpgraded, ShellDispatch,
         ShellPrime, ShellFill, ShellAnswer, RunPrompts, RunPrimes, RunNeedsPassword, RunEnds, RunReceipt, Sync, Keep
<1>3. CASE RunBroadcasts
  BY <1>3 DEF RunBroadcasts, ShellInv, ShellBefore, Goto, Done, Dispatches, Leaves
<1> QED
  BY <1>1, <1>2, <1>3 DEF Leaves

LEMMA ChainSends == ChainInv /\ ChainStep => (Dispatches \/ Leaves) /\ ~Done
<1> SUFFICES ASSUME ChainInv, ChainStep PROVE (Dispatches \/ Leaves) /\ ~Done
  OBVIOUS
<1>0. net \in [main : Effects] /\ (pc \in ChainBefore => net.main = "none")
  BY DEF ChainInv
<1>1. ~Done
  BY ChainStepAt DEF Done, ChainStages, ChainBefore, ChainAfterwards, TronStatus, EvmStatus, StatusFails
<1>2. ChainSend \/ UNCHANGED net
  BY DEF ChainStep, ChainSigner, ChainRead, ChainRefused, ChainTry, ChainBuild, ChainPrice, ChainSign, ChainInterval,
         ChainReply, ChainReplyLost, ChainConfirmed, ChainUnconfirmed, ChainAfter, ChainEnd, TronStatus, EvmStatus, StatusFails
<1>3. CASE ChainSend
  BY <1>0, <1>3 DEF ChainSend, ChainBefore, Goto, Done, Dispatches, Leaves
<1> QED
  BY <1>1, <1>2, <1>3 DEF Leaves

\* `tx status' and the announcement of a server send nothing.
LEMMA StatusSends == StatusInv /\ ChainStep => Leaves /\ ~Done
<1> SUFFICES ASSUME StatusInv, ChainStep PROVE Leaves /\ ~Done
  OBVIOUS
<1>1. TronStatus \/ EvmStatus \/ StatusFails
  BY ChainStepAt, Families DEF ChainStages, ChainBefore, ChainAfterwards
<1> QED
  BY <1>1 DEF TronStatus, EvmStatus, StatusFails, Leaves, Done

LEMMA DaemonSends == DaemonInv /\ DaemonStep => Leaves /\ (Done => UNCHANGED said)
<1> SUFFICES ASSUME DaemonInv, DaemonStep PROVE Leaves /\ (Done => UNCHANGED said)
  OBVIOUS
<1>1. Leaves
  BY DaemonKeeps DEF DaemonInv, Leaves
<1>2. Done => UNCHANGED said
  BY DEF Done, DaemonStep, DaemonCommand, DaemonLog, DaemonLaunch, DaemonListens, DaemonReady, DaemonFails,
         DaemonLate, DaemonUnheard, ChildFails, ChildListens, ChildSignalled, ChildKilled, ChildClosed, Child
<1> QED
  BY <1>1, <1>2

LEMMA NotDoneSilent == ServiceInv /\ ~Done => said = Silent
BY DEF ServiceInv, GasFreeInv, TradeInv, LaunchInv, MultisigInv, ShellInv, ChainInv, StatusInv, DaemonInv,
       Answering

\* A step of any command, or of the world, is a step of Effect.
LEMMA EffectMoves ==
    ASSUME ServiceInv, ServiceNext
    PROVE  /\ Promise!Ask \/ Promise!Decide \/ Promise!Execute \/ UNCHANGED net.main
           /\ Done => UNCHANGED said
<1>1. ~Done => said = Silent
  BY NotDoneSilent
<1>2. CASE World
  <2>1. UNCHANGED said
    BY <1>2, WorldSteps
  <2>2. \/ net'.main = net.main
        \/ net.main = "asked" /\ net'.main \in {"taken", "refused"}
        \/ net.main = "taken" /\ net'.main \in {"ok", "failed"}
    <3>1. "main" \in DOMAIN net
      BY DEF ServiceInv, GasFreeInv, GasFreeTypeOK, TradeInv, TradeNets, LaunchInv, MultisigInv, ShellInv, ChainInv,
             StatusInv, DaemonInv
    <3> QED
      BY <1>2, <3>1, WorldSteps
  <2> QED
    BY <2>1, <2>2 DEF Promise!Decide, Promise!Execute, Promise!Effects
<1>3. CASE ~World
  <2>1. (Dispatches \/ Leaves) /\ (Done => UNCHANGED said)
    BY <1>3, OwnSteps, GasFreeSends, TradeSends, LaunchSends, MultisigSends, ShellSends, ChainSends, StatusSends,
       DaemonSends
    DEF ServiceInv
  <2>3. CASE Leaves
    BY <2>1, <2>3 DEF Leaves
  <2>4. CASE Dispatches
    BY <1>1, <2>4 DEF Dispatches, Promise!Ask, Claimed, Silent
  <2> QED
    BY <2>1, <2>3, <2>4
<1> QED
  BY <1>2, <1>3

\* Each answer is one that Effect knows, and true of the effect.
ToldTruly == net.main \in Promise!Allows(Claimed) /\ Claimed \in Promise!Answers \cup {"silent"}

LEMMA AnswersTrue == ASSUME Legible, ServiceInv PROVE ToldTruly
<1>1. net.main \in Promise!Effects
  BY DEF ServiceInv, GasFreeInv, GasFreeTypeOK, TradeInv, TradeNets, LaunchInv, MultisigInv, ShellInv, ChainInv,
         StatusInv, DaemonInv, Effects, Promise!Effects
<1>2. ClaimIsTrue
  BY DEF ServiceInv, GasFreeInv, TradeInv, LaunchInv, MultisigInv, ShellInv, ChainInv, StatusInv, DaemonInv,
         Answering
<1>3. CASE Claimed \in {"silent", "unknown"}
  BY <1>1, <1>3 DEF ToldTruly, Promise!Allows, Promise!Answers
<1>4. CASE said.claim \in {"none", "submitted", "confirmed", "failed"}
  <2>1. Claimed = said.claim
    BY <1>4 DEF Claimed
  <2> QED
    BY <1>1, <1>2, <1>4, <2>1 DEF ToldTruly, ClaimIsTrue, NoEffectClaimed, Promise!Allows, Promise!Answers, Promise!Effects
<1> QED
  BY <1>3, <1>4 DEF Claimed

\* Every command implements Effect: whatever its services, its nodes and its
\* deadline do, it asks for its effect at most once and before the answer, and
\* the answer is true of it then and later (replies that can be told apart).
THEOREM OneEffectHolds == Legible => (ServiceSpec => OneEffect)
<1> SUFFICES ASSUME Legible PROVE ServiceSpec => OneEffect
  OBVIOUS
<1>1. ServiceInit => Promise!Init
  <2> SUFFICES ASSUME ServiceInit PROVE Promise!Init
    OBVIOUS
  <2>1. ServiceInv /\ said = Silent
    BY ServiceStarts DEF ServiceInit, GasFreeInit, TradeInit, LaunchInit, MultisigInit, ShellInit, ChainInit,
       StatusInit, DaemonInit, Start
  <2>2. net.main \in Promise!Effects
    BY <2>1, AnswersTrue DEF ToldTruly, Promise!Allows, Claimed, Silent
  <2> QED
    BY <2>1, <2>2 DEF Promise!Init, Claimed, Silent
<1>2. ServiceInv' => ToldTruly'
  BY AnswersTrue, PTL
<1>3. ServiceInv /\ ServiceInv' /\ [ServiceNext]_vars => [Promise!Next]_(Promise!vars)
  <2> SUFFICES ASSUME ServiceInv, ServiceInv', [ServiceNext]_vars PROVE [Promise!Next]_(Promise!vars)
    OBVIOUS
  <2>1. CASE UNCHANGED vars
    BY <2>1 DEF vars, Promise!vars, Claimed
  <2>2. CASE ServiceNext
    <3>1. Promise!Ask \/ Promise!Decide \/ Promise!Execute \/ UNCHANGED net.main
      BY <2>2, EffectMoves
    <3>2. Promise!Say \/ UNCHANGED Claimed
      <4>1. CASE Done
        BY <2>2, <4>1, EffectMoves DEF Claimed
      <4>2. CASE ~Done
        <5>1. Claimed = "silent"
          BY <4>2, NotDoneSilent DEF Claimed, Silent
        <5>2. net.main' \in Promise!Allows(Claimed') /\ Claimed' \in Promise!Answers \cup {"silent"}
          BY <1>2 DEF ToldTruly
        <5> QED
          BY <5>1, <5>2 DEF Promise!Say
      <4> QED
        BY <4>1, <4>2
    <3> QED
      BY <3>1, <3>2 DEF Promise!Next
  <2> QED
    BY <2>1, <2>2
<1> QED
  BY <1>1, <1>3, ServiceInvariant, PTL DEF ServiceSpec, OneEffect, Promise!Spec
=============================================================================
