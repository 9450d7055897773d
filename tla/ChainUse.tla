------------------------------- MODULE ChainUse -------------------------------
(***************************************************************************)
(* The use cases of the TRON and EVM commands, driven by their rows of     *)
(* ChainTable: the signer, the reads, the transaction built and signed, the *)
(* receipt, and what is read after it; and `tx status', which says what the *)
(* chain knows of an earlier transaction.                                  *)
(*                                                                         *)
(* Reads that a use case makes together are one step: it goes on when all  *)
(* have answered.                                                          *)
(***************************************************************************)
EXTENDS Command, ChainTable

UseModes(use) ==
    IF ~use.sends THEN {"query"}
    ELSE IF use.key = "none" THEN {"dry-run", "broadcast"}
    ELSE {"dry-run", "build-only", "sign-only", "broadcast"}

ChainCommands ==
    {c \in [family : {"chain"}, use : {[on |-> u.on, is |-> u.is] : u \in Uses},
            mode : {"query", "dry-run", "build-only", "sign-only", "broadcast"}, wait : BOOLEAN] :
        /\ c.mode \in UseModes(c.use.is)
        /\ c.wait => c.mode = "broadcast"}

StatusCommands == [family : {"status"}, on : Both]

\* got: what each best-effort read came to: answered, failed, or late, cut by the deadline.
ChainInit ==
    /\ cmd \in ChainCommands
    /\ mem = [got |-> <<>>, confirmed |-> FALSE]
    /\ net = [main |-> "none"]
    /\ Start(IF cmd.use.is.key = "none" THEN "chain.read" ELSE "chain.signer")

\* The transaction asked about is in any state, or was never sent.
StatusInit ==
    /\ cmd \in StatusCommands
    /\ mem = [got |-> <<>>, confirmed |-> FALSE]
    /\ net \in [main : Effects]
    /\ Start("status.read")

Use == cmd.use.is
NamesOf(facts) == {f.read : f \in facts}

\* What the node can answer to the reads, and what the use case makes of it.
Readings(facts) ==
    {a \in [NamesOf(facts) -> Answers] : \A r \in DOMAIN a : a[r] \in NodeOf(cmd.use.on)[r]}
Satisfied(facts, a) == \A f \in facts : f.read \in DOMAIN a => a[f.read] \in f.ok

\* The result of a use case, and what it could not read for it after its transaction was
\* planned or sent.
Answer(c, lacks) == Say([claim |-> c, lacks |-> lacks])

\* A read that ends the command leaves nothing behind.
ChainRefuse == Claim(IF cmd.family = "chain" /\ Use.sends THEN "none" ELSE "silent")

-----------------------------------------------------------------------------
(* Before anything is signed. *)

\* transactionRequiresSigner
SignerRequired(mode) == mode \in {"sign-only", "broadcast"}

\* assertCanSign: a watch-only account, or a Ledger without the app, is refused.
ChainSigner ==
    /\ pc = "chain.signer"
    /\ IF SignerRequired(cmd.mode) THEN Goto("chain.read") \/ ChainRefuse ELSE Goto("chain.read")
    /\ UNCHANGED <<cmd, left, mem, net>>

\* transactionMode: what is paid now has to be there.
PaysNow == cmd.mode \in {"dry-run", "broadcast"}
Required == Use.needs \cup IF PaysNow THEN Use.pays ELSE {}

\* An answer the use case does not go on with ends it.
ChainRead ==
    /\ pc = "chain.read"
    /\ ~Expired
    /\ \E a \in Readings(Required) :
        IF Satisfied(Required, a) THEN Goto("chain.try") ELSE ChainRefuse
    /\ UNCHANGED <<cmd, left, mem, net>>

\* A read, an encoding or the signer fails.
ChainRefused ==
    /\ pc \in {"chain.read", "chain.build", "chain.price", "chain.sign", "chain.send"}
    /\ ChainRefuse
    /\ UNCHANGED <<cmd, left, mem, net>>

Tried ==
    Use.tries \cup Use.drops \cup (IF cmd.mode = "dry-run" THEN Use.gaps ELSE {})
        \cup (IF cmd.wait THEN Use.waits ELSE {})

\* Until the deadline a read that fails has failed by itself.
Failure == IF Expired THEN "late" ELSE "failed"
Trying(reads) == [reads -> {"answered", Failure}]

\* Defect: whatever failed, the read is given up.
GiveUpAll(got, drops) == TRUE
\* unlessDeadline, endedByDeadline: a read that failed is given up, one that the
\* deadline cut ends the command; approveRows goes on without either.
GiveUp(got, drops) == \A r \in DOMAIN got : got[r] = "late" => r \in drops

\* What was answered may still be refused (a nonce that is used, no such token).
ChainTry ==
    /\ pc = "chain.try"
    /\ \E got \in Trying(NamesOf(Tried)) : \E a \in Readings({f \in Tried : got[f.read] = "answered"}) :
        /\ mem' = [mem EXCEPT !.got = got]
        /\ IF ~GiveUp(got, NamesOf(Use.drops)) \/ ~Satisfied(Tried, a) THEN ChainRefuse
           ELSE IF cmd.mode = "query" THEN Answer("silent", {})
           ELSE Goto("chain.build")
    /\ UNCHANGED <<cmd, left, net>>

\* kind: that of its one contract, if it has one; hashed, bound: the id and the contract
\* type are those of the bytes; encodes: whether the fields are, if TronWeb can encode them.
BuiltTxs ==
    [kind : {Use.makes.kind, "other"}, hashed : BOOLEAN, bound : BOOLEAN,
     encodes : {"same", "other", "unsupported"}]
Exact == [kind |-> Use.makes.kind, hashed |-> TRUE, bound |-> TRUE, encodes |-> "same"]
\* What TronWeb makes is not taken on trust.
Made == IF Use.makes.maker = "tronweb" THEN BuiltTxs ELSE {Exact}

AssertBuilt(tx) == tx.kind = Use.makes.kind
ContractTypeBound(tx) == tx.bound
Integral(tx) == tx.hashed /\ ContractTypeBound(tx) /\ tx.encodes # "other"

\* Nothing was sent: a vote still asks for the maintenance interval.
Unsent(lacks) == IF Use.after = "interval" THEN Goto("chain.interval") ELSE Answer("none", lacks)

\* The balance, the stake or the nonce the build needs, and the reference block.
ChainBuild ==
    /\ pc = "chain.build"
    /\ ~Expired
    /\ \E a \in Readings(Use.builds), tx \in Made :
        IF ~(Satisfied(Use.builds, a) /\ AssertBuilt(tx)) THEN ChainRefuse
        ELSE CASE cmd.mode = "dry-run" -> Goto("chain.price")
               [] cmd.mode = "build-only" -> Unsent({})
               [] cmd.mode \in {"sign-only", "broadcast"} -> Goto("chain.sign")
    /\ UNCHANGED <<cmd, left, mem, net>>

\* estimateResources: a price that cannot be read is left out, also when the deadline cut it.
ChainPrice ==
    /\ pc = "chain.price"
    /\ Expired => Use.lean # {}
    /\ \E missing \in SUBSET NamesOf(Use.lean) : Unsent(missing)
    /\ UNCHANGED <<cmd, left, mem, net>>

\* The transaction that was built is signed only if it is whole.
ChainSign ==
    /\ pc = "chain.sign"
    /\ ~Expired
    /\ \E tx \in {made \in Made : AssertBuilt(made)} :
        IF ~Integral(tx) THEN ChainRefuse
        ELSE IF cmd.mode = "sign-only" THEN Unsent({}) ELSE Goto("chain.send")
    /\ UNCHANGED <<cmd, left, mem, net>>

\* readMaintenanceIntervalMs, the one read a vote may miss: what only failed is left out.
ChainInterval ==
    /\ pc = "chain.interval"
    /\ \E got \in Trying({"interval"}) :
        /\ mem' = [mem EXCEPT !.got = got]
        /\ IF GiveUp(got, {}) THEN Answer("none", {}) ELSE ChainRefuse
    /\ UNCHANGED <<cmd, left, net>>

-----------------------------------------------------------------------------
(* The receipt and what follows it. *)

ChainSend ==
    /\ pc = "chain.send"
    /\ IF Admitted THEN Goto("chain.reply") /\ net' = [net EXCEPT !.main = "asked"]
                   ELSE Claim("none") /\ UNCHANGED net
    /\ UNCHANGED <<cmd, left, mem>>

\* What an EVM node says: accepted, known already, a refusal it states by its code or its
\* words, an error that leaves it open, no transaction hash.
EvmReplies == {"hash", "known", "refusal", "error", "malformed"}
SendAccepted(reply) == reply \in {"hash", "known"}
SendRefused(reply) == reply = "refusal"

ChainReply ==
    /\ pc = "chain.reply"
    /\ ~Expired
    /\ \E reply \in EvmReplies :
        /\ SendAccepted(reply) => net.main \in {"taken", "ok", "failed"}
        /\ SendRefused(reply) => net.main = "refused"
        /\ IF SendRefused(reply) THEN Claim("none")
           ELSE IF SendAccepted(reply) THEN Goto(IF cmd.wait THEN "chain.confirm" ELSE "chain.after")
           ELSE Claim("unknown")
    /\ UNCHANGED <<cmd, left, mem, net>>

ChainReplyLost ==
    /\ pc = "chain.reply"
    /\ Claim("unknown")
    /\ UNCHANGED <<cmd, left, mem, net>>

ChainConfirmed ==
    /\ pc = "chain.confirm"
    /\ ~Expired
    /\ \/ net.main = "ok" /\ mem' = [mem EXCEPT !.confirmed = TRUE] /\ Goto("chain.after")
       \/ net.main = "failed" /\ Answer("failed", {}) /\ UNCHANGED mem
    /\ UNCHANGED <<cmd, left, net>>

ChainUnconfirmed ==
    /\ pc = "chain.confirm"
    /\ Goto("chain.after")
    /\ UNCHANGED <<cmd, left, mem, net>>

AfterClaim == IF mem.confirmed THEN "confirmed" ELSE "submitted"

\* Checked only once it is confirmed, and looked for if the proposals before it are
\* known; the maintenance interval always.
Afterwards ==
    IF \/ Use.after = "interval"
       \/ mem.confirmed /\ (Use.after = "find" => mem.got["proposals"] = "answered")
    THEN Use.after ELSE "nothing"

\* warnOnPostCheck, findCreatedProposal, readMaintenanceIntervalMs: what cannot be read
\* after it was sent, also for the deadline, is a warning or left out.
AfterWarns(read) == Answer(AfterClaim, IF read THEN {} ELSE {Afterwards})

ChainAfter ==
    /\ pc = "chain.after"
    /\ Afterwards # "nothing"
    /\ \E read \in BOOLEAN :
        /\ read => ~Expired
        /\ AfterWarns(read)
    /\ UNCHANGED <<cmd, left, mem, net>>

\* Nothing is left to read.
ChainEnd ==
    /\ pc = "chain.after"
    /\ Afterwards = "nothing"
    /\ Answer(AfterClaim, {})
    /\ UNCHANGED <<cmd, left, mem, net>>

-----------------------------------------------------------------------------
(* `tx status' *)

\* What the node knows: it may lag behind, or have forgotten, and the two reads are made
\* at once but not at the same instant.
Mined == net.main \in {"ok", "failed"}
Known == net.main \in {"taken", "ok", "failed"}

StatusOf(info, known) ==
    IF info /\ net.main = "failed" THEN "failed" ELSE IF info THEN "confirmed"
    ELSE IF known THEN "submitted" ELSE "unknown"

\* Both were looked up, as far as that goes; the head only says how deep it is.
StatusSays(got, info, known) ==
    /\ (info => Mined) /\ (known => Known)
    /\ mem' = [mem EXCEPT !.got = got]
    /\ IF GiveUp(got, {}) THEN Answer(StatusOf(info, known), {}) ELSE ChainRefuse

\* A lookup by id that fails on TRON counts as absent; info that cannot be read ends it.
TronStatus ==
    /\ pc = "status.read"
    /\ cmd.on = "tron"
    /\ \E got \in Trying({"tx", "head"}), info, known \in BOOLEAN :
        /\ known => got["tx"] = "answered"
        /\ StatusSays(got, info, known)
    /\ UNCHANGED <<cmd, left, net>>

EvmStatus ==
    /\ pc = "status.read"
    /\ cmd.on = "evm"
    /\ \E got \in Trying({"head"}), info, known \in BOOLEAN : StatusSays(got, info, known)
    /\ UNCHANGED <<cmd, left, net>>

StatusFails ==
    /\ pc = "status.read"
    /\ ChainRefuse
    /\ UNCHANGED <<cmd, left, mem, net>>

ChainStep ==
    \/ ChainSigner \/ ChainRead \/ ChainRefused \/ ChainTry \/ ChainBuild \/ ChainPrice \/ ChainSign
    \/ ChainInterval \/ ChainSend \/ ChainReply \/ ChainReplyLost \/ ChainConfirmed \/ ChainUnconfirmed \/ ChainAfter
    \/ ChainEnd \/ TronStatus \/ EvmStatus \/ StatusFails

ChainPrompt ==
    \/ ChainSigner \/ ChainRefused \/ ChainTry \/ ChainInterval \/ ChainSend \/ ChainReplyLost \/ ChainUnconfirmed
    \/ ChainAfter \/ ChainEnd \/ StatusFails

-----------------------------------------------------------------------------
\* A read that the command's own deadline cut is never taken for the node's answer: no
\* result is made without it (a transaction that is "not found" because the lookup was
\* cut, a portfolio without its holdings) and nothing is sent, also where approveRows
\* goes on without its token.
CutShort == \E r \in DOMAIN mem.got : mem.got[r] = "late"
CutReadsStop ==
    cmd.family \in {"chain", "status"} /\ CutShort =>
        /\ cmd.family = "chain" => net.main = "none"
        /\ Done => "lacks" \notin DOMAIN said
=============================================================================
