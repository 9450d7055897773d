------------------------------- MODULE GasFree -------------------------------
(***************************************************************************)
(* `gasfree info', `gasfree transfer' and `gasfree trace': GasFreeService  *)
(* and GasFreeClient.  A transfer is an authorization the owner signs and  *)
(* the provider executes; once it is sent, nothing takes it back before    *)
(* its own deadline.                                                       *)
(***************************************************************************)
EXTENDS Command, FiniteSets

CONSTANTS
    Amounts,    \* the fees and balances the provider and the node report
    BadIds      \* TRUE: a receipt may carry a trace id that is not one

ASSUME GasFreeAssumption == Amounts \subseteq Nat /\ BadIds \in BOOLEAN

Absent == -1
Value == 1

GasFreeCommands ==
    {c \in [family : {"gasfree"}, op : {"info", "transfer", "trace"}, dry : BOOLEAN,
            wait : BOOLEAN] : c.dry => ~c.wait}

\* sound: owner, token, provider, asset, fee metadata and deadline duration
\* are what transfer() requires.
GasFreeOffers ==
    [sound : BOOLEAN, active : BOOLEAN, activate : Amounts, transfer : Amounts,
     allowed : BOOLEAN]

\* What transferRecord makes of an answer; absent fields are undefined.
FeeReports ==
    [transfer : Amounts \cup {Absent}, activate : Amounts \cup {Absent},
     total : Amounts \cup {Absent}, cost : Amounts \cup {Absent}]

GasFreeStates == {"WAITING", "INPROGRESS", "CONFIRMING", "SUCCEED", "FAILED"}

StateRank(s) ==
    CASE s = "WAITING" -> 0 [] s = "INPROGRESS" -> 1 [] s = "CONFIRMING" -> 2
      [] s \in {"SUCCEED", "FAILED"} -> 3

\* The states the provider may report: its answers can lag behind.
Reportable ==
    CASE net.main = "ok" -> GasFreeStates \ {"FAILED"}
      [] net.main = "failed" -> GasFreeStates \ {"SUCCEED"}
      [] net.main = "taken" -> {"WAITING", "INPROGRESS", "CONFIRMING"}
      [] OTHER -> {}

-----------------------------------------------------------------------------
(* Fees. *)

AuthorizedMaxFee(offer) == offer.activate + offer.transfer
TotalDeducted(offer) == Value + (IF offer.active THEN 0 ELSE offer.activate) + offer.transfer

\* The fee total a record shows, by itself or by its parts.
ObservedTotal(fees) ==
    IF fees.total # Absent THEN fees.total
    ELSE IF fees.transfer # Absent /\ fees.activate # Absent
      THEN fees.transfer + fees.activate
      ELSE Absent

\* Defect: the parts are compared with the total and the total not with maxFee.
FeeIntegrityUnbounded(fees, maxFee) ==
    fees.total # Absent /\ fees.transfer # Absent /\ fees.activate # Absent =>
        fees.total = fees.transfer + fees.activate

FeeIntegrity(fees, maxFee) ==
    LET observed == ObservedTotal(fees) IN
    observed # Absent =>
        /\ observed <= maxFee
        /\ fees.transfer # Absent /\ fees.activate # Absent =>
               observed = fees.transfer + fees.activate
        /\ fees.cost # Absent => fees.cost = Value + observed

\* What a terminal result says was charged.
ChargedFees(offer, fees) ==
    (IF fees.transfer # Absent THEN fees.transfer ELSE offer.transfer)
      + (IF fees.activate # Absent THEN fees.activate
         ELSE IF offer.active THEN 0 ELSE offer.activate)

Deducted(offer, fees) ==
    IF fees.cost # Absent THEN fees.cost ELSE Value + ChargedFees(offer, fees)

-----------------------------------------------------------------------------
(* Reading and signing. *)

NoOffer == [sound |-> FALSE, active |-> FALSE, activate |-> 0, transfer |-> 0, allowed |-> FALSE]

GasFreeInit ==
    /\ cmd \in GasFreeCommands
    /\ mem = [offer |-> NoOffer, state |-> "WAITING"]
    /\ net = [main |-> "none"]
    /\ Start("gasfree.read")

\* The fees of the address and of the token configuration agree.
GasFreeInfo ==
    /\ pc = "gasfree.read"
    /\ cmd.op = "info"
    /\ ~Expired
    /\ Claim("silent")
    /\ UNCHANGED <<cmd, left, mem, net>>

\* The fees of the record are within the maxFee it states, and coherent.
GasFreeTrace ==
    /\ pc = "gasfree.read"
    /\ cmd.op = "trace"
    /\ ~Expired
    /\ \E fees \in FeeReports, maxFee \in Amounts :
        /\ FeeIntegrity(fees, maxFee)
        /\ Say([claim |-> "silent", total |-> ObservedTotal(fees)])
    /\ UNCHANGED <<cmd, left, mem, net>>

\* getAddress, listTokens with the TRC20 metadata, listProviders: in parallel.
GasFreeOffered ==
    /\ pc = "gasfree.read"
    /\ cmd.op = "transfer"
    /\ ~Expired
    /\ \E o \in GasFreeOffers :
        /\ mem' = [mem EXCEPT !.offer = o]
        /\ IF o.sound THEN Goto("gasfree.balance") ELSE Claim("none")
    /\ UNCHANGED <<cmd, left, net>>

\* The balance of the GasFree address; a dry run ends before a signer is used.
GasFreeBalance ==
    /\ pc = "gasfree.balance"
    /\ ~Expired
    /\ \E balance \in Amounts :
        \/ balance < TotalDeducted(mem.offer) /\ Claim("none")
        \/ /\ balance >= TotalDeducted(mem.offer)
           /\ IF cmd.dry \/ ~mem.offer.allowed THEN Claim("none") ELSE Goto("gasfree.sign")
    /\ UNCHANGED <<cmd, left, mem, net>>

\* A read, or the signer, fails; the signature has to recover to the owner.
GasFreeRefused ==
    /\ pc \in {"gasfree.read", "gasfree.balance", "gasfree.sign"}
    /\ Claim("none")
    /\ UNCHANGED <<cmd, left, mem, net>>

GasFreeSigned ==
    /\ pc = "gasfree.sign"
    /\ ~Expired
    /\ Goto("gasfree.submit")
    /\ UNCHANGED <<cmd, left, mem, net>>

-----------------------------------------------------------------------------
(* Submitting. *)

\* The admission check, the guard and the dispatch: one turn.
GasFreeSubmit ==
    /\ pc = "gasfree.submit"
    /\ IF Admitted THEN Goto("gasfree.reply") /\ net' = [net EXCEPT !.main = "asked"]
                   ELSE Claim("none") /\ UNCHANGED net
    /\ UNCHANGED <<cmd, left, mem>>

\* A refusal the provider states: HTTP 401, 403, 429, another 4xx, its own code.
GasFreeDenied ==
    /\ pc = "gasfree.reply"
    /\ net.main = "refused"
    /\ Claim("none")
    /\ UNCHANGED <<cmd, left, mem, net>>

\* Defect: a reply cut off by the deadline is taken for a request not sent.
GasFreeTimesOut ==
    /\ pc = "gasfree.reply"
    /\ Claim(IF Expired THEN "none" ELSE "unknown")
    /\ UNCHANGED <<cmd, left, mem, net>>

\* uncertainSubmit: no answer, an answer that cannot be read, HTTP 404 or 5xx.
\* The bad trace id of a receipt is a usage error, and passes for a refusal.
UnclearClaims ==
    {"unknown"} \cup IF BadIds /\ net.main \in {"taken", "ok", "failed"} THEN {"none"} ELSE {}

GasFreeUncertain ==
    /\ pc = "gasfree.reply"
    /\ \E c \in UnclearClaims : Claim(c)
    /\ UNCHANGED <<cmd, left, mem, net>>

Terminal(state, fees) ==
    Say([claim |-> IF state = "SUCCEED" THEN "confirmed" ELSE "failed",
         deducted |-> Deducted(mem.offer, fees), total |-> ObservedTotal(fees),
         stated |-> fees.cost # Absent \/ (fees.transfer # Absent /\ fees.activate # Absent)])

\* What follows a record that passed assertAccepted.
AfterRecord(state, fees) ==
    IF cmd.wait /\ state \in {"SUCCEED", "FAILED"} THEN Terminal(state, fees)
    ELSE IF cmd.wait THEN Goto("gasfree.poll") ELSE Claim("submitted")

\* The receipt: of this authorization and with coherent fees, or the outcome
\* is unknown.
GasFreeReceipt ==
    /\ pc = "gasfree.reply"
    /\ ~Expired
    /\ \E state \in Reportable, fees \in FeeReports, same \in BOOLEAN :
        /\ IF same /\ FeeIntegrity(fees, AuthorizedMaxFee(mem.offer))
             THEN AfterRecord(state, fees) ELSE Claim("unknown")
        /\ mem' = [mem EXCEPT !.state = state]
    /\ UNCHANGED <<cmd, left, net>>

-----------------------------------------------------------------------------
(* #wait *)

\* Defect: a wait without an end.
GasFreePollOn ==
    /\ pc = "gasfree.poll"
    /\ Goto("gasfree.trace")
    /\ UNCHANGED <<cmd, left, mem, net>>

\* After its sleep; no trace is sent once the deadline has expired.
GasFreePoll ==
    /\ pc = "gasfree.poll"
    /\ IF Expired THEN Claim("submitted") ELSE Goto("gasfree.trace")
    /\ UNCHANGED <<cmd, left, mem, net>>

\* Transport errors and timeouts are retried; an incoherent answer and any
\* other error end the wait.
GasFreeTraceFails ==
    /\ pc = "gasfree.trace"
    /\ \/ Goto("gasfree.poll")
       \/ Claim("unknown")
       \/ Claim("submitted")
    /\ UNCHANGED <<cmd, left, mem, net>>

\* A record of another id or authorization, with wrong fees or with a state
\* before the last one leaves the outcome unknown.
GasFreeTraced ==
    /\ pc = "gasfree.trace"
    /\ ~Expired
    /\ \E state \in Reportable, fees \in FeeReports, same \in BOOLEAN :
        LET holds == /\ same
                     /\ FeeIntegrity(fees, AuthorizedMaxFee(mem.offer))
                     /\ StateRank(state) >= StateRank(mem.state)
        IN /\ IF holds THEN AfterRecord(state, fees) ELSE Claim("unknown")
           /\ mem' = IF holds THEN [mem EXCEPT !.state = state] ELSE mem
    /\ UNCHANGED <<cmd, left, net>>

GasFreeStep ==
    \/ GasFreeInfo \/ GasFreeTrace \/ GasFreeOffered \/ GasFreeBalance \/ GasFreeRefused
    \/ GasFreeSigned \/ GasFreeSubmit \/ GasFreeDenied \/ GasFreeUncertain
    \/ GasFreeReceipt \/ GasFreePoll \/ GasFreeTraceFails \/ GasFreeTraced

GasFreeNext == GasFreeStep \/ World

GasFreeSpec == GasFreeInit /\ [][GasFreeNext]_vars

\* What runs by itself when the deadline aborts what is awaited.
GasFreePrompt ==
    \/ GasFreeRefused \/ GasFreeSubmit \/ GasFreeUncertain \/ GasFreePoll
    \/ Expired /\ GasFreeTraceFails

-----------------------------------------------------------------------------
GasFreeTypeOK ==
    /\ cmd \in GasFreeCommands
    /\ TimeOK
    /\ mem \in [offer : GasFreeOffers \cup {NoOffer}, state : GasFreeStates]
    /\ net \in [main : Effects]

\* What a finished transfer is said to have cost is what the owner signed for,
\* whenever the provider's record adds up to a total (assertFeeIntegrity).
ChargeIsAuthorized ==
    cmd.family = "gasfree" /\ said.claim \in {"confirmed", "failed"} /\ said.total # Absent =>
        /\ said.total <= AuthorizedMaxFee(mem.offer)
        /\ said.stated => said.deducted = Value + said.total
=============================================================================
