------------------------------ MODULE SunTrade ------------------------------
(***************************************************************************)
(* The commands of SunSwap and SunPump that move tokens: swaps, curve      *)
(* trades, deposits, withdrawals, fee collections and token launches.  All *)
(* but a launch are contract calls: a plan, the approvals it needs one by  *)
(* one, the Permit2 grants, the main call, and what is read afterwards.    *)
(*                                                                         *)
(* Bounds: nobody revokes an allowance; a position changes hands and a     *)
(* pool is created by somebody else at most once.                          *)
(***************************************************************************)
EXTENDS Command, FiniteSets

Swaps == {"nativeSwap", "routerSwap"}
CurveTrades == {"curveBuy", "curveSell"}
V4Deposits == {"mintV4", "createV4", "increaseV4"}
Deposits == {"addV2", "mintV3", "increaseV3"} \cup V4Deposits
Exits == {"removeV2", "removeV3", "removeV4", "collectV3", "collectV4"}
TradeKinds == Swaps \cup CurveTrades \cup Deposits \cup Exits

\* The position has to be the account's.
OwnedKinds == {"increaseV3", "increaseV4", "removeV3", "removeV4", "collectV3", "collectV4"}
\* What the contract pulls may need Permit2 grants.
PermitKinds == {"routerSwap"} \cup V4Deposits

\* The tokens the call spends other than the native one.
TradeSides(kind) ==
    CASE kind \in Deposits -> {1, 2}
      [] kind \in {"routerSwap", "curveSell", "removeV2"} -> {1}
      [] OTHER -> {}

TradeCommands ==
    {c \in [family : {"trade"}, kind : TradeKinds,
            mode : {"quote", "dry-run", "build-only", "broadcast"}, wait : BOOLEAN] :
        /\ c.wait => c.mode = "broadcast"
        /\ c.mode = "quote" => c.kind \in Swaps \cup CurveTrades}

LaunchCommands == [family : {"launch"}, dry : BOOLEAN]

TradeMem(todo, ids, permit, confirmed) ==
    [todo |-> todo, ids |-> ids, permit |-> permit, confirmed |-> confirmed]

FirstOf(todo) == CHOOSE k \in todo : \A j \in todo : k <= j

\* early: the position, or the pool's absence, was lost while the call was prepared.
TradeInit ==
    /\ cmd \in TradeCommands
    /\ mem = TradeMem({}, {}, FALSE, FALSE)
    /\ \E allowed \in SUBSET TradeSides(cmd.kind), granted, owned \in BOOLEAN, pool \in BOOLEAN :
        /\ cmd.kind \notin PermitKinds => granted
        /\ cmd.kind \notin OwnedKinds => owned
        /\ cmd.kind # "createV4" => pool
        /\ net = [main |-> "none", approvals |-> [k \in {1, 2} |-> "none"],
                  allowed |-> allowed, granted |-> granted, owned |-> owned,
                  pool |-> pool, early |-> FALSE]
    /\ Start("trade.plan")

SayTrade(c, ids) == Say([claim |-> c, ids |-> ids])

-----------------------------------------------------------------------------
(* Planning: reads only. *)

\* found: the pool or the route; market: where the token trades, when that has
\* to be known; funds: the balances cover the ceilings; both: both amounts were
\* given; fits: amounts, range, floor and pair are acceptable; owed: what the
\* position has to collect.
TradeFacts ==
    [found : BOOLEAN, market : {"curve", "pool", "unknown"}, funds : BOOLEAN,
     both : BOOLEAN, fits : BOOLEAN, owed : {"some", "none", "unknown"}]

\* A probe of the launchpad that fails leaves the market unknown and ends the swap.
OnPool(f) == f.market = "pool" /\ f.found
OnCurve(f) == f.market = "curve"
\* quoteCurveSale: a sale that pays nothing, or is under the minimum, is refused.
CurvePays(f) == f.fits

NativeSwapFits(f) == OnPool(f) /\ f.funds /\ f.fits
RouterSwapFits(f) == OnPool(f) /\ f.funds /\ f.fits
CurveBuyFits(f) == OnCurve(f) /\ CurvePays(f) /\ f.funds
CurveSellFits(f) == OnCurve(f) /\ CurvePays(f) /\ f.funds
\* One amount is derived from the reserves; the first deposit gives both.
V2Amounts(f) == f.fits /\ (f.both \/ f.found)
AddV2Fits(f) == V2Amounts(f) /\ f.funds
V3Found(f) == f.found /\ (cmd.kind = "increaseV3" => net.owned)
DepositV3Fits(f) == V3Found(f) /\ f.funds /\ f.fits
V4Sized(f) == f.fits /\ f.funds
MintV4Fits(f) == IF cmd.kind = "createV4" THEN ~net.pool /\ V4Sized(f) ELSE f.found /\ V4Sized(f)
IncreaseV4Fits(f) == net.owned /\ f.found /\ V4Sized(f)
RemoveV2Fits(f) == f.found /\ f.funds /\ f.fits
RemoveV3Fits(f) == net.owned /\ f.found /\ f.funds /\ f.fits
RemoveV4Fits(f) == net.owned /\ f.found /\ f.funds /\ f.fits
\* Fees that cannot be read end a V3 collection and not a V4 one.
CollectV3Fits(f) == net.owned /\ f.owed = "some"
CollectV4Fits(f) == net.owned /\ f.found /\ f.fits /\ f.funds /\ f.owed # "none"

TradeFits(f) ==
    CASE cmd.kind = "nativeSwap" -> NativeSwapFits(f)
      [] cmd.kind = "routerSwap" -> RouterSwapFits(f)
      [] cmd.kind = "curveBuy" -> CurveBuyFits(f)
      [] cmd.kind = "curveSell" -> CurveSellFits(f)
      [] cmd.kind = "addV2" -> AddV2Fits(f)
      [] cmd.kind \in {"mintV3", "increaseV3"} -> DepositV3Fits(f)
      [] cmd.kind \in {"mintV4", "createV4"} -> MintV4Fits(f)
      [] cmd.kind = "increaseV4" -> IncreaseV4Fits(f)
      [] cmd.kind = "removeV2" -> RemoveV2Fits(f)
      [] cmd.kind = "removeV3" -> RemoveV3Fits(f)
      [] cmd.kind = "removeV4" -> RemoveV4Fits(f)
      [] cmd.kind = "collectV3" -> CollectV3Fits(f)
      [] cmd.kind = "collectV4" -> CollectV4Fits(f)

\* planApprovals: the sides whose allowance does not reach.
ToApprove == TradeSides(cmd.kind) \ net.allowed

\* planPermit: nothing to sign when the standing grant suffices.
ToGrant == cmd.kind \in PermitKinds /\ ~net.granted

AfterApprovals(permit) == IF permit THEN "trade.permit" ELSE "trade.recheck"
NextStage(todo, permit) == IF todo # {} THEN "trade.approve" ELSE AfterApprovals(permit)

TradeQuoted ==
    /\ pc = "trade.plan"
    /\ cmd.mode = "quote"
    /\ ~Expired
    /\ Claim("silent")
    /\ UNCHANGED <<cmd, left, mem, net>>

\* A call that embeds a signature yet to be made cannot be built; a router swap that
\* spends a token never is, whatever it holds already.
Unbuildable == cmd.kind = "routerSwap" \/ ToGrant

TradePlanned ==
    /\ pc = "trade.plan"
    /\ cmd.mode # "quote"
    /\ ~Expired
    /\ \E f \in TradeFacts : TradeFits(f)
    /\ mem' = TradeMem(ToApprove, {}, ToGrant, FALSE)
    /\ \/ cmd.mode = "dry-run" /\ Goto("trade.price")
       \/ cmd.mode = "build-only" /\ ~Unbuildable /\ Goto("trade.price")
       \/ cmd.mode = "build-only" /\ Unbuildable /\ SayTrade("none", {})
       \/ cmd.mode = "broadcast" /\ Goto(NextStage(ToApprove, ToGrant))
    /\ UNCHANGED <<cmd, left, net>>

\* A fact that does not fit, or a read that fails.
TradePlanRefused ==
    /\ pc = "trade.plan"
    /\ SayTrade("none", {})
    /\ UNCHANGED <<cmd, left, mem, net>>

\* What an estimate covers: the main call reverts until its allowances and
\* grants are there.
FeeCovers == IF mem.todo = {} /\ ~mem.permit THEN "all"
             ELSE IF mem.todo = {} THEN "none" ELSE "approvals"

TradePriced ==
    /\ pc = "trade.price"
    /\ ~Expired
    /\ Say([claim |-> "none", ids |-> {}, covers |-> FeeCovers])
    /\ UNCHANGED <<cmd, left, mem, net>>

\* What is read or signed before the main call fails; approvals stay.
TradeRefused ==
    /\ pc \in {"trade.price", "trade.approve", "trade.allowance", "trade.permit",
               "trade.recheck", "trade.send"}
    /\ SayTrade("none", mem.ids)
    /\ UNCHANGED <<cmd, left, mem, net>>

-----------------------------------------------------------------------------
(* sendApprovals: each is awaited before the next is sent. *)

Current == FirstOf(mem.todo)
SetApproval(k, e) == net' = [net EXCEPT !.approvals[k] = e]

TradeApprove ==
    /\ pc = "trade.approve"
    /\ IF Admitted THEN Goto("trade.approveReply") /\ SetApproval(Current, "asked")
                   ELSE SayTrade("none", mem.ids) /\ UNCHANGED net
    /\ UNCHANGED <<cmd, left, mem>>

TradeApprovalRejected ==
    /\ pc = "trade.approveReply"
    /\ net.approvals[Current] = "refused"
    /\ SayTrade("none", mem.ids)
    /\ UNCHANGED <<cmd, left, mem, net>>

\* The error of an unclear submission carries its transaction id.
TradeApprovalUnclear ==
    /\ pc = "trade.approveReply"
    /\ SayTrade("none", mem.ids \cup {Current})
    /\ UNCHANGED <<cmd, left, mem, net>>

TradeApprovalAccepted ==
    /\ pc = "trade.approveReply"
    /\ ~Expired
    /\ net.approvals[Current] \in {"taken", "ok", "failed"}
    /\ Goto("trade.approveWait")
    /\ UNCHANGED <<cmd, left, mem, net>>

\* Defect: an approval whose wait ended without a result is not named.
TradeApprovalForgotten ==
    /\ pc = "trade.approveWait"
    /\ SayTrade("none", mem.ids)
    /\ UNCHANGED <<cmd, left, mem, net>>

\* The deadline, or an error that no retry mends, ends the wait (awaiting).
TradeApprovalUnconfirmed ==
    /\ pc = "trade.approveWait"
    /\ SayTrade("none", mem.ids \cup {Current})
    /\ UNCHANGED <<cmd, left, mem, net>>

TradeApprovalConfirmed ==
    /\ pc = "trade.approveWait"
    /\ ~Expired
    /\ mem' = [mem EXCEPT !.ids = @ \cup {Current}]
    /\ \/ net.approvals[Current] = "ok" /\ Goto("trade.allowance")
       \/ net.approvals[Current] = "failed" /\ SayTrade("none", mem.ids \cup {Current})
    /\ UNCHANGED <<cmd, left, net>>

\* Defect: a confirmed approval is taken for the allowance it asked for.
TradeAllowanceAssumed ==
    /\ pc = "trade.allowance"
    /\ ~Expired
    /\ LET todo == mem.todo \ {Current} IN
        /\ mem' = [mem EXCEPT !.todo = todo]
        /\ Goto(NextStage(todo, mem.permit))
    /\ UNCHANGED <<cmd, left, net>>

\* #assertAllowanceLanded
TradeAllowanceRead ==
    /\ pc = "trade.allowance"
    /\ ~Expired
    /\ LET todo == mem.todo \ {Current} IN
        IF Current \in net.allowed
          THEN mem' = [mem EXCEPT !.todo = todo] /\ Goto(NextStage(todo, mem.permit))
          ELSE SayTrade("none", mem.ids) /\ UNCHANGED mem
    /\ UNCHANGED <<cmd, left, net>>

-----------------------------------------------------------------------------
(* The grants and the main call. *)

\* What the planner asks the owner to sign.
PermitTerms == [token : BOOLEAN, spender : BOOLEAN, domain : BOOLEAN,
                amount : {"exact", "more"}, timely : BOOLEAN]

PermitAuthorizes(t) == t.token /\ t.spender /\ t.domain /\ t.amount = "exact" /\ t.timely

\* Terms are checked before the signature, the signer after it.
TradePermitSigned ==
    /\ pc = "trade.permit"
    /\ ~Expired
    /\ \E t \in PermitTerms, signedByOwner \in BOOLEAN :
        IF PermitAuthorizes(t) /\ signedByOwner
          THEN Goto("trade.recheck") ELSE SayTrade("none", mem.ids)
    /\ UNCHANGED <<cmd, left, mem, net>>

\* Defect: what was read when planning is still taken to hold.
TradeNotRechecked ==
    /\ pc = "trade.recheck"
    /\ ~Expired
    /\ Goto("trade.send")
    /\ UNCHANGED <<cmd, left, mem, net>>

\* The owner of the position, the absence of the pool to create.
TradeRechecked ==
    /\ pc = "trade.recheck"
    /\ cmd.kind \notin Swaps
    /\ ~Expired
    /\ LET holds == /\ cmd.kind \in OwnedKinds => net.owned
                    /\ cmd.kind = "createV4" => ~net.pool
       IN IF holds THEN Goto("trade.send") ELSE SayTrade("none", mem.ids)
    /\ UNCHANGED <<cmd, left, mem, net>>

\* What is found in the call the router's encoder made.
RouterCalls == [target : BOOLEAN, value : BOOLEAN, feeLimit : BOOLEAN, timely : BOOLEAN,
                floor : BOOLEAN, recipient : BOOLEAN, unlimited : BOOLEAN]

RouterCallMatches(c) ==
    c.target /\ c.value /\ c.feeLimit /\ c.timely /\ c.floor /\ c.recipient /\ ~c.unlimited

TradeEncoded ==
    /\ pc = "trade.recheck"
    /\ cmd.kind \in Swaps
    /\ ~Expired
    /\ \E c \in RouterCalls :
        IF RouterCallMatches(c) THEN Goto("trade.send") ELSE SayTrade("none", mem.ids)
    /\ UNCHANGED <<cmd, left, mem, net>>

TradeSend ==
    /\ pc = "trade.send"
    /\ IF Admitted THEN Goto("trade.reply") /\ net' = [net EXCEPT !.main = "asked"]
                   ELSE SayTrade("none", mem.ids) /\ UNCHANGED net
    /\ UNCHANGED <<cmd, left, mem>>

TradeRejected ==
    /\ pc = "trade.reply"
    /\ net.main = "refused"
    /\ SayTrade("none", mem.ids)
    /\ UNCHANGED <<cmd, left, mem, net>>

TradeUnclear ==
    /\ pc = "trade.reply"
    /\ SayTrade("unknown", mem.ids)
    /\ UNCHANGED <<cmd, left, mem, net>>

TradeAccepted ==
    /\ pc = "trade.reply"
    /\ ~Expired
    /\ net.main \in {"taken", "ok", "failed"}
    /\ IF cmd.wait THEN Goto("trade.confirm") ELSE SayTrade("submitted", mem.ids)
    /\ UNCHANGED <<cmd, left, mem, net>>

TradeUnconfirmed ==
    /\ pc = "trade.confirm"
    /\ SayTrade("submitted", mem.ids)
    /\ UNCHANGED <<cmd, left, mem, net>>

TradeConfirmed ==
    /\ pc = "trade.confirm"
    /\ ~Expired
    /\ \/ /\ net.main = "ok"
          /\ mem' = [mem EXCEPT !.confirmed = TRUE]
          /\ Goto("trade.receipt")
       \/ net.main = "failed" /\ SayTrade("failed", mem.ids) /\ UNCHANGED mem
    /\ UNCHANGED <<cmd, left, net>>

\* The follow-up reads of a confirmed call that may succeed together; each is
\* a warning when it fails (warnOnPostCheck).
TradeReceipts ==
    CASE cmd.kind \in Swaps \cup CurveTrades \cup {"collectV3", "collectV4"} -> {{}, {"amounts"}}
      [] cmd.kind = "removeV3" -> {{}, {"amounts", "position"}}
      [] cmd.kind \in {"addV2", "removeV2"} -> SUBSET {"amounts", "reserves"}
      [] cmd.kind = "mintV3" -> {r \in SUBSET {"id", "position", "amounts"} :
                                    "position" \in r => "id" \in r}
      [] cmd.kind \in {"mintV4", "createV4"} -> SUBSET {"id", "amounts"}
      [] cmd.kind \in {"increaseV3", "increaseV4", "removeV4"} -> SUBSET {"position", "amounts"}

\* Defect: a follow-up read that fails is the command's error.
TradeReceiptThrows ==
    /\ pc = "trade.receipt"
    /\ SayTrade("unknown", mem.ids)
    /\ UNCHANGED <<cmd, left, mem, net>>

\* Amounts that were not read from the receipt stay estimates.
TradeReceipt ==
    /\ pc = "trade.receipt"
    /\ \E read \in TradeReceipts :
        /\ Expired => read = {}
        /\ Say([claim |-> "confirmed", ids |-> mem.ids, estimated |-> "amounts" \notin read])
    /\ UNCHANGED <<cmd, left, mem, net>>

-----------------------------------------------------------------------------
(* sunpump launch: SunPump makes and pays for the token. *)

LaunchInit ==
    /\ cmd \in LaunchCommands
    /\ mem = [none |-> 0]
    /\ net = [main |-> "none"]
    /\ Start("launch.send")

LaunchSend ==
    /\ pc = "launch.send"
    /\ IF Admitted /\ ~cmd.dry
         THEN Goto("launch.reply") /\ net' = [net EXCEPT !.main = "asked"]
         ELSE Claim("none") /\ UNCHANGED net
    /\ UNCHANGED <<cmd, left, mem>>

\* isRefusal: a rate limit, a refusal of the API, an HTTP 4xx.
LaunchRefused ==
    /\ pc = "launch.reply"
    /\ net.main = "refused"
    /\ Claim("none")
    /\ UNCHANGED <<cmd, left, mem, net>>

LaunchUnclear ==
    /\ pc = "launch.reply"
    /\ Claim("unknown")
    /\ UNCHANGED <<cmd, left, mem, net>>

LaunchAnswered ==
    /\ pc = "launch.reply"
    /\ ~Expired
    /\ net.main = "ok"
    /\ Claim("confirmed")
    /\ UNCHANGED <<cmd, left, mem, net>>

-----------------------------------------------------------------------------
(* The chain and the others on it. *)

TradeApprovalDecided ==
    /\ cmd.family = "trade"
    /\ ~Done
    /\ \E k \in {1, 2}, e \in {"taken", "refused"} :
        net.approvals[k] = "asked" /\ SetApproval(k, e)
    /\ UNCHANGED <<cmd, left, pc, mem, said>>

\* A token may answer an approval with FALSE and revert nothing.
TradeApprovalExecuted ==
    /\ cmd.family = "trade"
    /\ ~Done
    /\ \E k \in {1, 2} :
        /\ net.approvals[k] = "taken"
        /\ \/ SetApproval(k, "failed")
           \/ SetApproval(k, "ok")
           \/ net' = [net EXCEPT !.approvals[k] = "ok", !.allowed = @ \cup {k}]
    /\ UNCHANGED <<cmd, left, pc, mem, said>>

Preparing == pc \in {"trade.approve", "trade.approveReply", "trade.approveWait",
                     "trade.allowance", "trade.permit"}

TradeTargetMoves ==
    /\ cmd.family = "trade"
    /\ ~Done
    /\ \/ cmd.kind \in OwnedKinds /\ net.owned
          /\ net' = [net EXCEPT !.owned = FALSE, !.early = Preparing]
       \/ cmd.kind = "createV4" /\ ~net.pool
          /\ net' = [net EXCEPT !.pool = TRUE, !.early = Preparing]
    /\ UNCHANGED <<cmd, left, pc, mem, said>>

TradeStep ==
    \/ TradeQuoted \/ TradePlanned \/ TradePlanRefused \/ TradePriced \/ TradeRefused
    \/ TradeApprove \/ TradeApprovalRejected \/ TradeApprovalUnclear \/ TradeApprovalAccepted
    \/ TradeApprovalUnconfirmed \/ TradeApprovalConfirmed \/ TradeAllowanceRead
    \/ TradePermitSigned \/ TradeRechecked \/ TradeEncoded \/ TradeSend \/ TradeRejected
    \/ TradeUnclear \/ TradeAccepted \/ TradeUnconfirmed \/ TradeConfirmed \/ TradeReceipt
    \/ LaunchSend \/ LaunchRefused \/ LaunchUnclear \/ LaunchAnswered
    \/ TradeApprovalDecided \/ TradeApprovalExecuted \/ TradeTargetMoves

TradeNext == TradeStep \/ World

TradeSpec == (TradeInit \/ LaunchInit) /\ [][TradeNext]_vars

TradePrompt ==
    \/ TradePlanRefused \/ TradeRefused \/ TradeApprove \/ TradeApprovalUnclear
    \/ TradeApprovalUnconfirmed \/ TradeSend \/ TradeUnclear \/ TradeUnconfirmed
    \/ TradeReceipt \/ LaunchSend \/ LaunchUnclear

-----------------------------------------------------------------------------
TradeTypeOK ==
    /\ TimeOK
    /\ \/ /\ cmd \in TradeCommands
          /\ mem \in [todo : SUBSET {1, 2}, ids : SUBSET {1, 2}, permit : BOOLEAN,
                      confirmed : BOOLEAN]
          /\ net \in [main : Effects, approvals : [{1, 2} -> Effects], allowed : SUBSET {1, 2},
                      granted : BOOLEAN, owned : BOOLEAN, pool : BOOLEAN, early : BOOLEAN]
       \/ cmd \in LaunchCommands /\ net \in [main : Effects]

\* The main call is sent only when the chain holds every allowance it spends,
\* and not merely when the approvals confirmed.
MainHasAllowances ==
    cmd.family = "trade" /\ net.main # "none" => TradeSides(cmd.kind) \subseteq net.allowed

\* An answer names every approval the chain may have taken, however the
\* command ended: the user has to know which allowances may be standing.
ApprovalsAccounted ==
    cmd.family = "trade" /\ Done =>
        \A k \in {1, 2} :
            net.approvals[k] \in {"asked", "taken", "ok", "failed"} => k \in said.ids

\* A position that changed hands, or a pool that came to exist, while the
\* approvals were awaited and the grants signed stops the call.
StaleTargetStops == cmd.family = "trade" /\ net.early => net.main = "none"
=============================================================================
