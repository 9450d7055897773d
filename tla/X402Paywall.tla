---------------------------- MODULE X402Paywall ----------------------------
(***************************************************************************)
(* The seller's side of one x402 payment: OpenPaywall.handlePaymentRequest *)
(* behind the loopback HTTP server, and the facilitator it asks to verify  *)
(* and to settle the payment.                                              *)
(*                                                                         *)
(* Each request of a served paywall has a deadline of its own; inside      *)
(* `x402 roundtrip' the request shares the payer's.  The buyer's           *)
(* connection may close at any time, and the event that says so comes      *)
(* later.  Money moves when the facilitator settles, whether or not its    *)
(* answer is still awaited.                                                *)
(***************************************************************************)
EXTENDS Naturals

CONSTANTS
    Limit,      \* the time limit of a command and of a served request
    Reserve     \* SUBMIT_ADMISSION_RESERVE_MS

ASSUME LimitAssumption == Limit \in Nat /\ Reserve \in Nat \ {0}

VARIABLES
    spc,        \* what the request's handler waits for
    sleft,      \* time left for the request
    gone,       \* clientGone has aborted
    call,       \* the settle request: none, asked, refused
    settled,    \* the facilitator moved the money
    reply       \* the HTTP response to the payment

svars == <<spc, sleft, gone, call, settled, reply>>

PaywallTypeOK ==
    /\ spc \in {"idle", "verify", "settle", "done"}
    /\ sleft \in 0 .. Limit
    /\ gone \in BOOLEAN
    /\ call \in {"none", "asked", "refused"}
    /\ settled \in BOOLEAN
    /\ reply \in {"none", "receipt", "bare", "refused"}

PaywallInit ==
    /\ spc = "idle"
    /\ sleft = Limit
    /\ gone = FALSE
    /\ call = "none"
    /\ settled = FALSE
    /\ reply = "none"

Respond(r) == spc' = "done" /\ reply' = r

\* A request with a payment signature arrives and /verify is asked.
HandlePaymentRequest(budget) ==
    /\ spc = "idle"
    /\ spc' = "verify"
    /\ sleft' = budget
    /\ UNCHANGED <<gone, call, settled, reply>>

\* /verify says no, fails, or is stopped by the deadline or the client.
VerifyRefuses ==
    /\ spc = "verify"
    /\ Respond("refused")
    /\ UNCHANGED <<sleft, gone, call, settled>>

\* Defect: the client is only looked at before /verify.
MaySettleGone == sleft >= Reserve

\* settlementRefusal
MaySettle == sleft >= Reserve /\ ~gone

\* /verify says yes; what it found of deadline and client decides on /settle.
VerifyAccepts ==
    /\ spc = "verify"
    /\ sleft > 0
    /\ \/ MaySettle /\ spc' = "settle" /\ call' = "asked" /\ UNCHANGED reply
       \/ ~MaySettle /\ Respond("refused") /\ UNCHANGED call
    /\ UNCHANGED <<sleft, gone, settled>>

FacilitatorSettles ==
    /\ call = "asked"
    /\ settled' = TRUE
    /\ UNCHANGED <<spc, sleft, gone, call, reply>>

\* The answer to /settle: a receipt, or a refusal of what is not settled.
SettleAnswers ==
    /\ spc = "settle"
    /\ \/ settled /\ Respond("receipt") /\ UNCHANGED call
       \/ ~settled /\ Respond("refused") /\ call' = "refused"
    /\ UNCHANGED <<sleft, gone, settled>>

\* No usable answer: the connection, a 429, a malformed body or the deadline.
SettleFails ==
    /\ spc = "settle"
    /\ Respond("refused")
    /\ UNCHANGED <<sleft, gone, call, settled>>

\* The response's "close" event before it was written.
ClientGone ==
    /\ spc \in {"verify", "settle"}
    /\ gone' = TRUE
    /\ UNCHANGED <<spc, sleft, call, settled, reply>>

\* The clock of a request with a deadline of its own.
RequestTick ==
    /\ spc \in {"verify", "settle"}
    /\ sleft > 0
    /\ sleft' = sleft - 1
    /\ UNCHANGED <<spc, gone, call, settled, reply>>

Handle == VerifyRefuses \/ VerifyAccepts \/ SettleAnswers \/ SettleFails
=============================================================================
