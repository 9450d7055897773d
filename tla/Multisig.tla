------------------------------ MODULE Multisig ------------------------------
(***************************************************************************)
(* TRON transactions of several signers: the records TronLink keeps of     *)
(* them, listed, signed and opened by this wallet; the approvals of a      *)
(* transaction; and a checked or an offline signature of its bytes.        *)
(*                                                                         *)
(* A record is what TronLink claims; its bytes carry the signatures there  *)
(* are.  Whose signatures count, and for how much, is read from the chain, *)
(* several times, and the permission may be replaced in between.           *)
(*                                                                         *)
(* Bounds: two cosigners; the permission is replaced at most once.         *)
(***************************************************************************)
EXTENDS Command, FiniteSetsExt

CONSTANTS
    Permissions,    \* permissions the account may have on chain
    LooseReplies    \* TRUE: TronLink may garble its reply to what it recorded

Cosigners == {"me", "other"}

ASSUME MultisigAssumption ==
    /\ Permissions \subseteq [weight : [Cosigners -> Nat], threshold : Nat \ {0}]
    /\ LooseReplies \in BOOLEAN

MultisigCommands ==
    [family : {"multisig"}, op : {"list", "sign", "create", "approvals", "checked", "offline", "watch"}]

Weights == (UNION {{p.weight[k] : k \in Cosigners} : p \in Permissions}) \ {0}
Total(weight, signers) == MapThenSumSet(LAMBDA k : weight[k], signers)

\* A record of TronLink.  sigs: the signatures in its bytes; matches: hash,
\* contract type and owner are those of the bytes; the rest is claimed.
RemoteRecords ==
    [sigs : SUBSET Cosigners, matches : BOOLEAN, status : {"open", "closed"}, isSign : BOOLEAN,
     roster : SUBSET Cosigners, signed : SUBSET Cosigners, weight : [Cosigners -> Weights],
     current : 0 .. 4, threshold : {p.threshold : p \in Permissions}]

NoRecord == [sigs |-> {}]

MultisigInit ==
    /\ cmd \in MultisigCommands
    /\ \E p \in Permissions : net = [main |-> "none", perm |-> p, before |-> p]
    /\ mem = [record |-> NoRecord, current |-> 0, sigs |-> {}]
    /\ Start("multisig.read")

-----------------------------------------------------------------------------
(* What is checked of a record. *)

\* The roster agrees with the flags, the weight and the number of signatures.
ProgressCoherent(r) ==
    /\ "me" \in r.roster
    /\ Total(r.weight, r.signed) = r.current
    /\ Cardinality(r.signed) = Cardinality(r.sigs)

\* Defect: the flag of this account is not compared with the roster.
RecordCoherentButFlag(r) == r.matches /\ r.signed \subseteq r.roster /\ ProgressCoherent(r)

RecordCoherent(r) ==
    /\ r.matches
    /\ r.signed \subseteq r.roster
    /\ r.isSign = ("me" \in r.signed)
    /\ ProgressCoherent(r)

\* The node accepts the signatures of a transaction: each is of a key.
NodeAccepts(sigs) == \A k \in sigs : net.perm.weight[k] > 0

ApprovalAgrees(r) ==
    /\ NodeAccepts(r.sigs)
    /\ r.current = Total(net.perm.weight, r.sigs)
    /\ r.threshold = net.perm.threshold
    /\ r.signed = r.sigs

\* Against the weights of a second answer; the roster may leave keys out.
WeightsAgree(r) ==
    /\ \A k \in r.roster : net.perm.weight[k] > 0
    /\ Total(net.perm.weight, r.signed) = mem.current

Row(r, verified) ==
    [verified |-> verified, sigs |-> r.sigs, current |-> r.current, threshold |-> r.threshold,
     awaiting |-> verified /\ r.status = "open" /\ ~r.isSign]

SayRow(r, verified) == Say([claim |-> "silent", row |-> Row(r, verified)])

\* A row that the chain contradicts is listed as unverified, and not signed.
Unverified == IF cmd.op = "list" THEN SayRow(mem.record, FALSE) ELSE Claim("none")

-----------------------------------------------------------------------------
(* Reading. *)

\* list; #find, which looks through the pages for the record of one hash.
MultisigPage ==
    /\ pc = "multisig.read"
    /\ cmd.op \in {"list", "sign"}
    /\ ~Expired
    /\ \E r \in RemoteRecords :
        /\ mem' = [mem EXCEPT !.record = IF RecordCoherent(r) THEN r ELSE NoRecord]
        /\ IF RecordCoherent(r) THEN Goto("multisig.verify") ELSE Claim("none")
    /\ UNCHANGED <<cmd, left, net>>

MultisigVerify ==
    /\ pc = "multisig.verify"
    /\ ~Expired
    /\ IF ApprovalAgrees(mem.record)
         THEN mem' = [mem EXCEPT !.current = mem.record.current] /\ Goto("multisig.weights")
         ELSE Unverified /\ UNCHANGED mem
    /\ UNCHANGED <<cmd, left, net>>

MultisigWeights ==
    /\ pc = "multisig.weights"
    /\ ~Expired
    /\ LET r == mem.record IN
        \/ ~WeightsAgree(r) /\ Unverified
        \/ WeightsAgree(r) /\ cmd.op = "list" /\ SayRow(r, TRUE)
        \/ /\ WeightsAgree(r)
           /\ cmd.op = "sign"
           /\ IF r.status = "open" /\ ~r.isSign THEN Goto("multisig.authorize") ELSE Claim("none")
    /\ UNCHANGED <<cmd, left, mem, net>>

\* The user's bytes: unsigned to open a collection.
MultisigImported ==
    /\ pc = "multisig.read"
    /\ cmd.op \in {"create", "checked", "offline"}
    /\ ~Expired
    /\ \E sigs \in SUBSET Cosigners :
        /\ mem' = [mem EXCEPT !.record = [sigs |-> sigs]]
        /\ IF cmd.op = "create" /\ sigs # {} THEN Claim("none")
           ELSE Goto(IF cmd.op = "offline" THEN "multisig.sign" ELSE "multisig.authorize")
    /\ UNCHANGED <<cmd, left, net>>

\* approvals: what the node says of the bytes.
MultisigApprovals ==
    /\ pc = "multisig.read"
    /\ cmd.op = "approvals"
    /\ ~Expired
    /\ Claim("silent")
    /\ UNCHANGED <<cmd, left, mem, net>>

\* watch: until the user stops it, the socket closes or the deadline passes.
MultisigWatched ==
    /\ pc = "multisig.read"
    /\ cmd.op = "watch"
    /\ Claim("silent")
    /\ UNCHANGED <<cmd, left, mem, net>>

\* A read fails, nothing is found, the record or the transaction has expired,
\* the reference block is another chain's, or the signer refuses.
MultisigRefused ==
    /\ pc \in {"multisig.read", "multisig.verify", "multisig.weights", "multisig.authorize",
               "multisig.sign", "multisig.recheck", "multisig.submit"}
    /\ Claim("none")
    /\ UNCHANGED <<cmd, left, mem, net>>

-----------------------------------------------------------------------------
(* signChecked *)

\* assertTronSignerAuthorized: before a key is decrypted or a device asked.
MultisigAuthorize ==
    /\ pc = "multisig.authorize"
    /\ ~Expired
    /\ LET sigs == mem.record.sigs
           authorized == NodeAccepts(sigs) /\ net.perm.weight["me"] > 0 /\ "me" \notin sigs
       IN IF authorized THEN Goto("multisig.sign") ELSE Claim("none")
    /\ UNCHANGED <<cmd, left, mem, net>>

\* The signer appends exactly one signature and keeps the others.
MultisigSigned ==
    /\ pc = "multisig.sign"
    /\ ~Expired
    /\ \E sigs \in SUBSET Cosigners :
        /\ Cardinality(sigs) = Cardinality(mem.record.sigs) + 1
        /\ mem.record.sigs \subseteq sigs
        /\ mem' = [mem EXCEPT !.sigs = sigs]
    /\ IF cmd.op = "offline" THEN Claim("silent") ELSE Goto("multisig.recheck")
    /\ UNCHANGED <<cmd, left, net>>

\* The node has to recognise the new signature as this account's.
MultisigRechecked ==
    /\ pc = "multisig.recheck"
    /\ ~Expired
    /\ IF ~NodeAccepts(mem.sigs) \/ "me" \notin mem.sigs THEN Claim("none")
       ELSE IF cmd.op = "checked" THEN Claim("silent") ELSE Goto("multisig.submit")
    /\ UNCHANGED <<cmd, left, mem, net>>

-----------------------------------------------------------------------------
(* #submit *)

MultisigSubmit ==
    /\ pc = "multisig.submit"
    /\ IF Admitted THEN Goto("multisig.reply") /\ net' = [net EXCEPT !.main = "asked"]
                   ELSE Claim("none") /\ UNCHANGED net
    /\ UNCHANGED <<cmd, left, mem>>

\* TronLink's own refusal, or HTTP 404.
MultisigDenied ==
    /\ pc = "multisig.reply"
    /\ net.main = "refused"
    /\ Claim("none")
    /\ UNCHANGED <<cmd, left, mem, net>>

\* No answer or another HTTP status: it may have been recorded.  An answer that
\* cannot be read passes for a refusal.
MultisigUnclear ==
    /\ pc = "multisig.reply"
    /\ \E c \in {"unknown"} \cup IF LooseReplies THEN {"none"} ELSE {} : Claim(c)
    /\ UNCHANGED <<cmd, left, mem, net>>

MultisigAccepted ==
    /\ pc = "multisig.reply"
    /\ ~Expired
    /\ net.main \in {"taken", "ok", "failed"}
    /\ Claim("submitted")
    /\ UNCHANGED <<cmd, left, mem, net>>

\* The account's permission is replaced.
PermissionReplaced ==
    /\ cmd.family = "multisig"
    /\ ~Done
    /\ net.perm = net.before
    /\ \E p \in Permissions \ {net.perm} : net' = [net EXCEPT !.perm = p]
    /\ UNCHANGED <<cmd, left, pc, mem, said>>

MultisigStep ==
    \/ MultisigPage \/ MultisigVerify \/ MultisigWeights \/ MultisigImported \/ MultisigApprovals
    \/ MultisigWatched \/ MultisigRefused \/ MultisigAuthorize \/ MultisigSigned
    \/ MultisigRechecked \/ MultisigSubmit \/ MultisigDenied \/ MultisigUnclear
    \/ MultisigAccepted \/ PermissionReplaced

MultisigPrompt == MultisigRefused \/ MultisigWatched \/ MultisigSubmit \/ MultisigUnclear

-----------------------------------------------------------------------------
\* A row listed as verified states the approvals as the chain counts them, by
\* one of the permissions it had meanwhile, and a row that asks for my
\* signature lacks it and can use it, whatever TronLink claims.
VerifiedRowIsTrue ==
    cmd.family = "multisig" /\ "row" \in DOMAIN said =>
        /\ said.row.verified =>
              \E p \in {net.before, net.perm} :
                  /\ said.row.current = Total(p.weight, said.row.sigs)
                  /\ said.row.threshold = p.threshold
        /\ said.row.awaiting =>
              /\ "me" \notin said.row.sigs
              /\ \E p \in {net.before, net.perm} : p.weight["me"] > 0
=============================================================================
