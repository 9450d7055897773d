# A verification development for the wallet-cli command line wallet

This directory holds TLA+ models of the TypeScript wallet in `src/ts`, TLC configurations that check
them on small instances, and theorems about them that TLAPS proves for every value of their
constants. Source paths below are relative to `src/ts/` (`fs/index.ts` is
`src/adapters/outbound/persistence/fs/index.ts`, `keystore/index.ts` is
`src/adapters/outbound/keystore/index.ts`). `PROJECT.json` maps every definition to the lines it
translates.

The wallet is a one-shot command: one process per command, no daemon (apart from a detached x402
server). Concurrency is therefore of two kinds. Several processes share a directory of files, and can
be killed between any two file operations. And within a process several awaits are outstanding — the
network, a device, an SDK, a person at a prompt — against one clock, the command deadline. Money is
lost when the process reports something that is not so: that nothing was sent when it was, that the
old password is in effect when it is not, that a payment settled when it did not. Most properties here
are of that form.

## 1. Inventory

| Part (code) | State | Operations | Talks to | What is hard | What makes it correct |
|---|---|---|---|---|---|
| File lock (`fs/index.ts` 26-47, 342-386) | `<path>.lock`: exists, pid, age | create, judge stale, take over, poll, release | all writers of stored files | several system calls per decision; killed owners; recycled pids | exclusion; a wait ends; takeover only from the dead |
| Journaled write (`fs/index.ts` 183-278) | published files, staged copies, journal | `writeJsonJournaled`, `recoverJournal` | keystore | a kill or an I/O error at any step, also during recovery | all or nothing; reports are true; recovery happens |
| Batch write and migration (`fs/index.ts` 80-180, `persistence/migration.ts`) | documents, permanent and rollback copies, locks | plan, consent, lock, commit, `writeJsonAll` | runner, prompts | a kill between two renames; files that change while a prompt is open; several migrations at once | the old document is never lost; the answer is true |
| Keystore (`keystore/index.ts`) | index, secrets, verifier | import, delete, change password, read secret | lock, journal, signers | readers outside the lock; multi-step writes | the index never dangles; one password; deleted stays deleted |
| Wallet index (`domain/wallet/transitions.ts`, `keystore/index.ts`) | wallets, accounts, labels, active account | register, select, derive, rename, remove, load | keystore, prompts | what was chosen or confirmed before the lock is stale under it | the active account exists; the index loads; one derivation template |
| Contacts, configuration | `contacts.json`, `config.yaml` | add, remove, set, load | lock | aliases of networks; entries under several keys | what was written loads and is in effect |
| Exported files (`backup-*.ts`, `keypair-writer.ts`, `transaction-artifact-writer.ts`, `--out`) | the user's files, `backup-records.json` | reserve, write, release, record | keystore, x402 | two commands on one path; a failure at any step | a done export is recorded; a failed one leaves no file |
| Shell (`shell/index.ts`, `input/`) | stdin, prompts, target, flags | gates, password, gap filling, dry-run guard | everything | gates in a fixed order; prompts that stop the clock | a refusal can be acted on; the command ends |
| Command deadline (`command-deadline.ts`) | remaining time, pauses, signal | assertActive, admission, pause, release | everything that awaits | a timer that is late; a pause around a prompt | nothing is sent unadmitted; what it cut is not blamed on others |
| Transaction pipeline (`services/pipeline`, `submit-and-stage.ts`, `broadcast-guard.ts`) | mode, deadline, transaction | build, estimate, sign, check, submit, wait | signers, gateways, pacer | deadline against lost, late and unclear answers | the outcome reported is the outcome |
| Signing and Ledger | keys, a device session | sign with key or device | pipeline, x402 | a device that answers after the deadline | nothing signed late is sent |
| HTTP dispatch and pacer (`http/request-pacer.ts`) | permits, queue, start slots | run, release, delay, abort | every TRON request | aborts racing grants; several waiters waking | no permit lost, none over the cap, starts spaced |
| TRON and EVM gateways, chain use cases, agents, portfolio | – | read, build, broadcast, classify replies | nodes | missing, partial and late reads; transactions TronWeb built | a read that the deadline cut is not taken for an answer; a confirmed transaction stays confirmed |
| Multi-signature, TronLink | records at a remote service, the permission on chain | list, open, sign, submit, approvals, watch | service, node, pipeline | claims of the service; a permission replaced between two reads | a verified row is true |
| x402 payment (`x402-service.ts`, `x402/payment-client.ts`, `x402-permit2-approval.ts`) | authorization, approval, deadline | request, limits, approve, sign, send, read reply | SDK, signers, pipeline, endpoint | an SDK that outlives the command; an approval in flight; a lost reply | status and evidence agree with the wire and the chain |
| x402 paywall (`x402-paywall.ts`, `paywall-server.ts`, `facilitator-client.ts`) | one request: phase, deadline, client | verify, settle, answer | facilitator, buyer | a buyer who leaves, a late settlement | settle only what can still be served |
| x402 server lifecycle (`x402-daemon.ts`, `x402-server-lifecycle.ts`) | child, ready message, signals | start, announce, stop | process, log | ready racing the start-up deadline | announced or stopped, never orphaned |
| B.AI recharge (`bai-recharge-flow.ts`, `bai-service.ts`) | order, payment, report | order, pay, report hash | B.AI, x402 | each of three remote steps may have acted unseen | one payment; its hash is kept; orders are accounted for |
| GasFree (`gasfree-service.ts`, `gasfree/client.ts`) | authorization with a nonce, trace | quote, sign, submit, poll | provider, node | the reply is lost; traces lag behind | an authorization that may act is never denied; the charge is the signed one |
| SunSwap, SunPump | plan, approvals, grants, main call | approve, sign, call, check; launch | pipeline, node, API | approvals that stand alone; a position or a pool that changes meanwhile | allowances first; approvals named; confirmation stands |

Interaction in one line: the runner resolves a deadline and a scope, the shell gates and fills the
input, a use case asks the gateways, signers and the keystore through them, every remote call runs
under a dispatch check of the deadline and (for TRON) a permit of the pacer, every stored change under
the file lock.

`PROJECT.json` lists these parts with their files and status. The Java client in `src/java` is a
separate legacy program and is not covered.

## 2. Modules

```
FileLock      <- MCFileLock, FileLockProofs
AtomicWrite   <- (refined by) Journal
Vault         <- (refined by) Keystore
Effect        <- (refined by) TxPipeline, X402Payment (twice), MCServices
                                Journal <- Keystore <- MCKeystore
                                Journal <- MCJournal, JournalProofs
                                Keystore, JournalProofs <- KeystoreProofs
TxPipeline    <- MCTxPipeline, TxPipelineProofs
RequestPacer  <- MCRequestPacer, RequestPacerProofs
X402Paywall   <- X402Payment <- BaiRecharge <- MCX402, X402Proofs
Command       <- GasFree, SunTrade, Multisig, Daemon                <- MCServices
Command, CommandTable <- Shell                                      <- MCServices
Command, CommandTable <- ChainTable <- ChainUse                     <- MCServices
MCServices    <- ServicesProofs
LocalStore    <- WalletIndex, Migration, Books, Exports             <- MCLocal
MCLocal       <- LocalProofs
```

*Files*

- **FileLock** — `withLock` and `isStaleLock`. One action is one system call on the lock file, so
  every interleaving of processes at the file is a behaviour. `owner` is a ghost: who created the
  file; `pid` is what the file says, empty until it is written. `DirWritable`, `MayAge`, `MayDie` and
  `StaleStart` switch on what the environment may do.
- **AtomicWrite** — what a multi-file write promises: a batch is installed in one step or not at all.
- **Journal** — `writeJsonJournaled` and `recoverJournal`: staged copies, the journal file and its
  switch to `committed`, the replay, the `catch` that decides what happened. Before every file
  operation the process may be killed, and every operation may throw. `View` is what recovery would
  make of the files: the committed staged copies over the published files. `Journal` implements
  `AtomicWrite` with `view <- View`.
- **Vault** — what the keystore promises: wallets come and go as a whole under one master password,
  which changes for all of them in one step and, once fixed, is never lost.
- **Keystore** — extends Journal with the index, the secrets and the verifier. A mutation (import,
  delete, change of password) takes the lock, recovers, and does its file operations one by one;
  readers test the journal, read the blob and the verifier in separate steps without the lock. A file
  is the password it opens with. `Keystore` implements `Vault` with `opens <- [b \in index |-> View[b]]`
  and `master <- View[Verifier]` (`OneVault`).
- **LocalStore** — the three variables (files, tasks of running commands, a count of bounded events)
  that the four models of files under the wallet's root share; one run checks all four.
- **WalletIndex** — every command that changes `wallets.json`, and its load. A mutation under the lock
  is one step (what Keystore and Journal show to be justified); `derive` and `delete` decide before
  they take the lock, and other commands run in between. Typed references are ids, addresses and
  labels, resolved as the code resolves them.
- **Migration** — plan, consent, password, the nested locks, the second reading under them, and
  `writeJsonAll`: old file out, new file in, roll back on an error, remove the rollback copies. Each
  file operation may fail or be the last one; commands of the new version may create first documents
  meanwhile.
- **Books** — `contacts.json` (names unique across families, limit, older books) and the networks of
  `config.yaml` (aliases, entries under any key of a network, folding, load).
- **Exports** — what commands write for the user: reserve (`open` exclusive), write, release on
  failure, and the log of exported secrets with its limit and its setting aside when unreadable.

*One command and its time*

- **Effect** — what every command promises of the one thing it does to the world outside, a
  transaction, an approval, a payment, an order: it asks for it at most once and never behind its
  answer; it answers once; what the answer says (nothing happened, unknown, submitted, confirmed,
  failed) is true when it is given and is not contradicted by what the other side does later
  (`Uncontradicted`, `AnswerIsFinal`). `TxPipeline` (`OneTransaction`), `X402Payment` (`OnePayment` and
  `OneApproval`) and all families of `MCServices` (`OneEffect`) implement it, each with a mapping from
  its own words to Effect's: an error code to "none", a node that may or may not have a request to
  "asked", a delivery without a receipt to "unknown".
- **TxPipeline** — one transaction from the build to the confirmation, in the four modes, with or
  without device, pacer, wait and prior signature. The clock ticks anywhere; the abort of the signal is
  a step of its own, after the clock, as the timer may be late. The node takes, rejects or never sees
  the transaction; its answer may be unclear or lost.
- **RequestPacer** — permits, FIFO queue, start slots and aborts. One step is one turn of the event
  loop between two awaits.
- **Command** — what the models below share: the request (`cmd`), the time left, the await (`pc`), what
  was learnt (`mem`), the world outside (`net`, with the one effect the command is for) and the answer
  (`said`). `ClaimIsTrue` and `ConfirmationStands` are stated here once, for all of them; `OneEffect` in
  MCServices says the first of whole behaviours.
- **CommandTable**, **Shell** — every registered command with the traits the shell acts on (target
  families, whether it sends, waits, asks, takes an account, needs a password or a terminal), and the
  shell that runs any of them: stdin, migration gate, dispatch, flags, modes, the gate for secrets, the
  master password and its three tries, gap filling, the command's own questions, the dry-run guard.
- **ChainTable**, **ChainUse** — a TRON, EVM or ERC-8004 command is a row: the reads it needs and what
  each has to say, the reads it may miss (`tries`; `waits`, if it waits for its confirmation; `drops`,
  if they are given up even when the deadline cut them), those made while building, the transaction it
  makes and who makes it, the signer, what is read after the receipt. `TronNode` and `EvmNode` say what
  the gateways can answer to each read. ChainUse is the engine that runs a row; `tx status` is modelled
  with it. `UsesFitTheShell` and `NeedsCanBeMet` tie the rows to the shell's table and to the nodes;
  `DropsComeBeforeABuild` says that what is dropped is followed by reads that mind the deadline.
- **GasFree** — `info`, `transfer`, `trace`: fees and balances as small numbers, the signed
  authorization, the provider's record and its lagging traces, the wait.
- **SunTrade** — swaps, curve trades, deposits, withdrawals, collections, launches: plan, approvals one
  by one, Permit2 grants, the checks right before the call, the call, the reads after it.
- **Multisig** — TronLink's records (claims and the signatures really in the bytes), the two readings
  of the permission, the signature checked by the node, the submission.
- **Daemon** — `x402 serve --daemon`: parent and detached child, their messages on the way, heard or
  lost.

*Payments*

- **X402Paywall** and **X402Payment** — the two ends of one x402 payment. The SDK is a process of its
  own (`sdk`), because `untilPaymentSent` ends the command while the SDK goes on and only the dispatch
  checks stop it. The Permit2 approval is a transaction the chain may execute at any time after its
  broadcast. The paywall has its own deadline, or the payer's in a roundtrip; the buyer's
  disconnection is noticed late; the facilitator settles whether or not it is still waited for.
  `foreign` endpoints may answer and settle as they like, except that their receipts are honest.
- **BaiRecharge** — order, payment and report of `bai recharge`. It implements `X402Payment`: a
  recharge is one payment (`RechargeIsAPayment`).

Operators whose comment begins with "Defect:" are not part of a model. They are plausible bugs of the
code; each breaks the property it is paired with in `PROJECT.json` when it replaces the definition
that follows it.

### Correspondence of state

| Variable | Code |
|---|---|
| FileLock `lock`, `seen`, `waitOver`, `expired` | the lock file; what `isStaleLock` has read; `Date.now() > waitUntil`; the command deadline |
| Journal `disk`, `next`, `jnl`, `jtmp`, `todo`, `goal` | `<file>`, `<file>.next`, the journal, its `.tmp`, the loop variable, the caller of `recoverJournal` |
| Keystore `index`, `kop`/`kpc`, `rpc`/`got` | `wallets.json`; the mutation and its next file operation; a reader's position and the blob it read |
| LocalStore `disk`, `task`, `spent` | the files of one family; what each running command has read and its next operation; bounded events so far |
| TxPipeline `asked`, `left`, `aborted`, `marked`, `pc`, `outcome` | the request's options; the deadline's remaining time; its signal; `context.dispatched`; the await; the stage or error reported |
| RequestPacer `queue`, `active`, `nextStart`, `st`, `wake` | `#queue`, `#active`, `#nextStartAt`, where a call of `run` stands, its delay |
| Command `cmd`, `left`, `pc`, `mem`, `net`, `said` | the parsed request; the remaining time; the await; local variables of the use case; node, service, others on the chain, a child; the result or error |
| X402Payment `auth`, `ppc`, `sdk`, `result` | `PaymentAuthorization`; the command; the SDK; the result or the error with its details |
| X402Paywall `spc`, `sleft`, `gone`, `reply` | `handlePaymentRequest`; its deadline; `clientGone.aborted`; the response |
| BaiRecharge `bpc`, `order`, `credit`, `report` | `execute`; the order and the credit at B.AI; the output or the error's details |

## 3. What the runs check

| Run | Instance | Question and answer |
|---|---|---|
| `lock` | 2 processes, kills, fair | Do locked functions overlap, is a lock in use removed, does a wait not end? No (`MutualExclusion`, `LockWaitEnds`). |
| `lock_race` | 3 processes | Finding: the lock of a third, live process can be taken over (`TakeOverOnlyFromDead` violated). |
| `journal` | 3 files, 2 contents, kills and errors anywhere | A batch is atomic (refinement of AtomicWrite), reports are true, interrupted writes are finished. |
| `journal_unreadable` | the same | Finding: one path reports failure after the commit. |
| `keystore` | 2 secrets and the verifier, 2 passwords, 1 reader | The files are a vault (refinement of Vault): one password at every instant, for all wallets. The index never dangles, readers fail only for a reason, deleted secrets stay deleted. |
| `tx_pipeline` | limit 3, reserve 2, all requests | One transaction and a true answer (refinement of Effect) in all modes; nothing is sent unasked; commands with a limit end. |
| `request_pacer` | 3 requests, 2 permits, interval 2 | Permits are exact, none is lost, slots are spaced, waiters are served. |
| `x402_payment` | limit 3, reserve 2, all requests | Payment and approval each implement Effect; status, orders and credits are as reported; recharge implements payment; both ends finish. |
| `services` | limit 3, reserve 2; amounts 0 to 3; every row and every command's traits; 2 cosigners, 3 permissions | Each command implements Effect and answers; a confirmation stands; charges are those signed; allowances precede the call and approvals are named; a stale target stops it; verified rows are true; no result or transaction is made without a read that the deadline cut; refusals can be acted on; no server is left. |
| `gasfree_receipt` | the same, malformed trace ids | Finding: a receipt's bad id is reported as a usage error although the transfer stands. |
| `local` | 3 wallets, indices to 2; 3 commands, 2 faults; 2 contacts a family; 2 export paths, log of 2 | The active account exists, one template a seed, old documents survive, the migration's answer is true, what was written loads, exports are accounted for. |
| `wallet_active` | the same, any well-formed id | Finding: `use` publishes the id of no wallet as the active account (`ActiveIsKnown` violated). |

Each property says in its comment which behaviour of the code it is about. Where two facts are of one
kind they are one property: `StoredLoads` joins the load of the index with that of the books.

**Bounds.** *Lock*: overlap and takeover involve two processes and, in the race, a third that comes
in between; no process interacts with more. With three processes, or two that meet at a lock left by
a third, exclusion does not hold, which is what `lock_race` reports. *Journal*: three files give a
first file, a last file and a file between, which is all that the loops distinguish; two contents are
enough to see old and new; the proofs remove both bounds. *Keystore*: the two blobs are needed for a
change that has re-encrypted one and not the other, the passwords for old and new; symmetric in the
passwords. *Clock*: the code compares the time left with 0 and with the reserve only; a limit of 3
with a reserve of 2 gives time that is plenty, just enough, too short to submit, and over. A command
without a limit (`--timeout 0`) is `Limited = FALSE` in TxPipeline and elsewhere one whose clock does
not tick; every safety property covers it. *Pacer*: three requests with two permits give a holder that
hands over while another still holds and one queues; `Slack` bounds how far the clock runs past the
next slot, so that time is finite. *Services*: amounts 0 to 3 are the least for which a fee, a part of
it, a maximum above it and a balance below it are different numbers; one permission that is mine
alone, one that needs both cosigners and one that is no longer mine are the cases the code tells
apart. *Wallet index*: three registrations give a wallet to delete, one to keep and one that comes in
between; indices 0 to 2 let the highest wrap, as 2^31 − 1 does. *Migration*: three commands are one
that is rolled back, one that waits at its locks and one that finds the result; two faults are a
failed rename and a failed restoration, or either and a kill. *Books and exports*: two contacts reach
the limit; two paths and three commands give two on one path and one elsewhere, and a log of two
overflows.

**Deadlock** checking is off in every configuration, because a command ends, and with it its process.

**Fairness.** Assumed is only what the process and its machine do themselves.
`FileLock`: the operating system schedules each process, and its 5 s pass. `Journal`: someone runs a
next command and the recovery it starts proceeds; kills and errors are assumed to stop eventually,
inside the property and not in the specification. `TxPipeline`: code between two awaits runs, the
clock goes on, the timer fires, an abort ends the await it is attached to; no node, device, slot or
user is assumed to answer. `RequestPacer`: the event loop runs what is due, and a request on the
network ends (every request carries a signal or a connection that closes); deadlines need not pass.
`MCX402`: the same as TxPipeline for the payer's and the paywall's deadlines, and roundtrip closes
its server (`finally` of `X402Service.roundtrip`). `MCServices`: the clock goes on unless a prompt
stops it (`Tick`), what runs by itself once the deadline has passed does (`Expired /\ Prompt`), and a
child that was sent SIGTERM, or that is closing, ends (`ChildStops`). A person may never answer, so
`CommandAnswers` has the form `<>Done \/ []<>Asking`. Fairness is stated over these actions and not
over `Next`, so a remote party may stay silent for ever.

## 4. Findings

Four places where the code does something that a document or a comment of the repository says it
does not; each is a run whose counterexample shows the steps.

1. *Takeover from the living by a race* (`lock_race`). `fs/index.ts` reads the pid, tests it, and only
   then unlinks the path; if the owner exits and another command locks in between, that command's lock
   is removed. `docs/dev/rules/architecture.md:156` says a lock is taken over only from a dead process.
2. *Failure reported after the commit* (`journal_unreadable`). If the directory fsync after the commit
   throws and the journal cannot be read back, the user is told that the old password remains.
3. *A receipt taken for a refusal* (`gasfree_receipt`). A receipt with a malformed trace id makes
   `traceIdentifier` throw a usage error (`gasfree/client.ts:291`), which `uncertainSubmit` passes on
   unchanged; the comment at `gasfree-service.ts:427` says every other failure after dispatch may have
   been accepted.
4. *An active account of no wallet* (`wallet_active`). `use wlt_…` writes the id under the lock without
   looking it up (`keystore/index.ts:604`) and fails afterwards: in the trace one wallet is registered and
   the id of another becomes active. `docs/dev/rules/architecture.md:149` says a committed index never
   references missing data (`ActiveIsKnown`), and line 146 that a change is validated and published under
   one lock. An id without an index, of a seed wallet with one account, is no such case: it is resolved to
   that account, and `ActiveExists` speaks of what the active account is resolved to.

Other disagreements met while modelling, left out of the runs because their inputs are excluded by a
constant or a bound, or because they concern what the models abstract:

- `fs/index.ts:44`: a lock whose file is still empty is taken over after 30 s, dead owner or not
  (`architecture.md:156`); `MayAge = TRUE` shows it.
- `fs/index.ts:361`: when a stale lock cannot be unlinked, `continue` skips both the time check and the
  sleep (`docs/machine-interface.md:28` promises at most 5 s); `DirWritable = FALSE` shows it.
- `multisig-collaboration-service.ts:199-203`: a reply of TronLink that is malformed, too large or
  carries a business code is reported as definite, the comment at 182 notwithstanding;
  `LooseReplies = TRUE` shows it.
- TRON `tx status` takes a failed lookup by id for absence, and a contract call whose receipt has no
  result yet for confirmed; an empty `balanceOf` is zero on TRON and a failure on EVM.
- `backup-writer.ts` unlinks its path on any failed `open` but EEXIST, so also a file it did not create;
  `keypair-writer.ts:61` closes a second time after a failed close and then skips the unlink
  (`transaction-artifact-writer.ts:41` says a failed close must not be retried).
- `backup-records.ts` sets an unreadable log aside outside its lock, and may rename one that another
  command has just written (the model keeps this; the log set aside still counts).
- `wallet-service.ts:301,304`: `backup` resolves its account twice, so that a label moved in between
  pairs one wallet's key with another's metadata.
- `contactbook/index.ts:148`: the 4 MiB limit is checked on load only (`architecture.md:103`); the
  comment at 52 limits the uniqueness of names to a family, the code does not.
- `config/index.ts:84-98`: an alias named like a built-in id is not looked up, and a chain of three
  aliases, or a circle of them, is folded only once: a `config set` acknowledged for one network then
  lands on another, or makes the file refuse to load. `FoldsOut` in Books keeps such aliases out; without
  it TLC finds both with two aliases of the user's.
- `x402-daemon.ts:50`: the log is closed before anybody listens to the child and outside the `try`, so
  that a close that fails leaves a child nobody stops.

## 5. What is proved

Every safety invariant and every action property of the passing runs is the consequence of a theorem,
for every value of the constants that satisfies the named assumptions of the module: any number of
processes, wallets, readers, passwords, contacts, paths, requests, any limit and any amounts. A
theorem is proved from an inductive invariant: Init implies it, each step keeps it, and it implies
the property.

*Files*

- **FileLockProofs** (`LockAssumption`: the owner of a leftover, the empty pid and "no file" are not
  processes). `Owned` says that whoever is between its `open` and its `unlink` owns the file at the path.
  With it, `ExclusionUnlessTakenOver` shows for any number of processes that exclusion can fail only
  through a takeover from the living; that takeover is the finding `lock_race`, so with three processes
  nothing more is true. `PairTakesFromDead` and `PairExclusion` show that two commands with no
  leftover file and no suspension of 30 s (`Pair`) never do it: `Judgement` says that the pid a waiter
  has read is its rival's, who is in its lock or gone for good, and that whoever concluded "stale" has
  no rival left; there is no third process to put another file in the place of the one judged.
- **JournalProofs** (`JournalAssumption`: the special values are distinct). `IInv` adds to the type
  invariant: which staged copies can exist with which journal (`StagedCopies`), how far the lock
  holder's loop has come against the files (`Progress`), and whether the old or the new contents are
  in effect at each step (`CommitPoint`). Truthful reports, clean bodies and "no torn copy is
  committed" follow; `Refinement` shows each step to be a stutter, a request, one commit or an abort
  of `AtomicWrite`. The strengthening is needed because "batch is atomic" says nothing of a copy
  that is staged but not committed, on which the next step relies.
- **KeystoreProofs** (`KeystoreAssumption`). A step of the keystore is a step of the journal, or a body
  that writes one file while there is no journal (`KStep`), so the journal's invariant is reused as
  it is and says what happens to the contents in effect. `KInv` adds: the batch of a password change
  covers the index and the verifier up to the commit point (`OneBatch`), a mutation lives no longer
  than its body or its write (`InProgress`), where each body stands against the files (`BodyStages`),
  only passwords are staged (`StagedSecrets`), and what a reader has read was in effect when it read it
  (`ReaderSees`). From these: the index never dangles, one password, no resurrection, and a reader is
  refused only for a reason. `OneVaultHolds` maps each step to a step of Vault or a stutter: the index
  grows by one wallet that opens with the verifier's password (`IndexAdds`), shrinks by one (`IndexShrinks`),
  or stays, and then `PasswordMoves` leaves a commit point, the first verifier or nothing. The index in
  `OneBatch` is not empty, so that a verifier without wallets cannot change. `OneBatch` is why the commit point changes every password at once;
  `ReaderSees` is why one test of the journal before two unlocked reads is enough.
- **LocalProofs** (`LocalAssumption`, `IndexAssumption`, `BooksAssumption`, `ExportsAssumption`: the
  bounds are naturals, the highest index is not 0, names are finitely many). `LocalInv` is the
  disjunction, over the kind of files, of five invariants. *Exports*: a command that holds its path has its
  own bytes there, whole or torn by its place (`Holding`); an export is in the log, or was cut off by its
  limit, exactly when it is done (`InLog`); the user's files stay and so does a log set aside
  (`NothingLost`). *Migration*: locks are held by whom
  they name (`OwnLocks`), a batch lies within the plan its prompts were about (`InScope`), each entry of
  a batch is as far as the command's position says, with its rollback copy or without (`Batched`), what
  was found before is still there (`Found`), and an old document is at its path, in its permanent copy or in a rollback
  copy (`Kept`); so the roll back of one command never touches what another has committed. *Index*: `IsIndex` (ids
  unique, one template a seed, finitely many labels) for all references, and `Fits` (a label for each
  account and no other, labels distinct, the active account one of them) only when the ids that `use` is
  given exist (`~LooseRefs`), as `wallet_active` shows it to be false otherwise. That a default label
  is found is shown by counting: there are more candidates than labels (`DefaultLabelFree`).
  *Contacts*: what is written is a book the load accepts. *Configuration*: whatever was acknowledged
  and not overwritten is in effect on load (`Held`), by the lemma `ResolvedKey`: the registry finds
  a network under a key exactly when the loader takes the entry to be that network's.

*One command and its time*

- **TxPipelineProofs** (`DeadlineAssumption`: a natural limit, a positive reserve). `BeforeSend`
  (nothing left the process before the send), `Allowed` (only a permitted broadcast gets there) and
  `AfterSend` (a command that polls has an accepted transaction) are inductive together; they give
  the agreement of outcome and network, and the action property that no send happens unadmitted. `OneTransactionHolds` is the refinement of
  Effect: the invariant says that an answer is true when given (`AnswerTrue`), and each step asks, is
  the other side's, or leaves the transaction alone. `PromiseKept` shows, of Effect alone, that such
  answers are never contradicted, taken back or followed by a send.
- **RequestPacerProofs** (`PacerAssumption`: finitely many requests). The counter equals the
  cardinality of the holders, which needs the finite-set theorems, and the queue holds each waiter
  once (`QueueIsWaiters`), without which a permit could be handed to a request that has left. For
  start slots `SlotsBehind` relates every claimed slot to the next free one.
- **ServicesProofs** (`TimeAssumption`, `GasFreeAssumption`, `MultisigAssumption`, and the two tables'
  assumptions). A command is of one family and stays in its stages, so `ServiceInv` has one part for
  each family and only that family's steps and the world's can disturb it.
  *GasFree*: what the authorization, the record and the traces can be at each stage, and that fees add
  up. *Trades and launches*: `AllowancesComing` (what the chain does not allow yet is still to do, until nothing is), `ApprovalsComing` (each approval
  the chain may have taken is noted, or is the one awaited), `EarlyStops` (a target lost before the
  last check is never called) and `ConfirmedStands`. *Multisig*: what the two readings of the permission and the
  signatures in the bytes support. *Shell*: a command whose secrets need the
  master password reaches its own stages only with it (`PrimedFirst`); that whatever a command asks can
  be given in some way is a fact of the table, proved row by row (`TraitsAskable`). *Chain*: a read that
  the deadline cut is behind a command only where `approveRows` dropped it, which is before a build, and
  then its time is over and the reads of the build are refused (`CutIsLate`); that a query drops nothing is
  a fact of the table (`DropsComeBeforeABuild`). `OneEffectHolds` shows
  every family to implement Effect: the invariant has each answer true when given, each family has
  one step that sends and takes no step of its own after the answer that says more
  (`GasFreeSends` ... `DaemonSends`). It and `ClaimIsTrue` have the
  hypothesis `Legible` (no malformed ids, no loose replies): `gasfree_receipt` and section 4 say
  what happens without it. The other properties hold without hypothesis.

*Payments*

- **X402Proofs** (`LimitAssumption`). `Stages` says that command and SDK agree until time is up, and
  that an SDK left behind has no time left, so that its send is refused; `Approval` follows the
  approval through the SDK's stages; `Receipts` ties the response to the settlement. The action
  property `SettleStartsServed` follows from the guards of the one step that settles, whatever the
  buyer and the clock do between `/verify` and it. For recharges, `BaiSpec => Spec`: each step is a step
  of its payment or leaves it alone, so all these theorems hold of recharges too. `OnePaymentHolds` and
  `OneApprovalHolds` are refinements of Effect, from an invariant that adds what a command
  that did not try to pay has left alone (`Untried`) and what becomes of an approval that the answer
  leaves out (`ApprovalDenied`); that an SDK left behind cannot send is what keeps the payment from
  leaving behind the answer. On top of it,
  `RechargeStages` and `RechargeEvidence` give the truth of what is said of order, payment, hash and
  credit.

*Only model-checked.* Liveness — `LockWaitEnds`, `RecoveryHappens`, `WaitersServed`, both `CommandEnds`,
`CommandAnswers`, `AnnouncedOrStopped` — rests on fairness and on ENABLED, which are outside the
prover's reach. What a fold computes for every input would take an induction over data: the two
folds of the models stay opaque in the proofs: over the aliases of a configuration (`Aliases` in Books;
`FoldsOut` says of its result all that is used) and the sum of the cosigners' weights (`Total` in
Multisig; both sides of a comparison use the same sum). TLC evaluates them over the bounded inputs. The four runs that expect a violation are counterexamples and need no proof.

## 6. What is not modelled

- *Power loss.* Kills end processes; what was written stays written. `fsync` has no effect in the
  models except that it may throw.
- *Cryptography and encodings.* A secret is the password it opens with; signatures are events; the
  codecs of TRON and EVM transactions, ABIs and typed data are what they bind, not how.
- *The insides of the x402 SDK, the Ledger transport, TronWeb, nodes, facilitators, TronLink, GasFree
  providers, SunPump and B.AI*: each is external and modelled by what it may do to the code.
- *Quotes, routes, tick and price arithmetic* of SunSwap and SunPump: a plan is found or not, fits its
  limits or does not.
- *The Ledger session* (`ledger/index.ts`, `hid-handle.ts`): a device answers, late or never; that its
  transport is closed when the deadline ends the wait is not shown.
- *The token book and the scalars of `config.yaml`*: one locked read-modify-write each.
- *The limit on concurrent paywall requests, the choice of an x402 route, the binding of a wallet at
  B.AI, the standalone `bai report-recharge` and the B.AI lists.*
- *The wall clock of the pacer.* Its slots are kept in `Date.now()`; the model's clock does not go
  back. *A provider wrapped twice* by the pacer would take two permits per request: the wrapping is
  keyed by object identity and a request acquires once in the model.
- *A command killed while its detached server starts.* Nobody is left to stop the child.
- *What an answer shows of a read that failed by itself* differs by use case (null, a raw amount, an
  address in place of a name, a nonce check that is skipped, a new proposal without its id) and is left
  out; the reads that a command may miss are in the table. Prices an estimate could not read, and what is
  read after the receipt, are missing from the answer whatever the cause, the deadline included; no
  property is about them.
- Parsing, help, rendering, tables, and the Java client.

## 7. What could be added

The components are modelled as far as section 6 says; the safety and action properties of the runs, the
refinements of `AtomicWrite`, `Vault`, `Effect` and of a payment by a recharge among them, are proved.
What a further version of this project could add:

1. *The lock under the stores.* `Keystore` and `LocalStore` take exclusion of their bodies for granted;
   composing them with `FileLock` would carry the finding `lock_race` to what it does to the files.
2. *Power loss* as a fault of `Journal`: what is not followed by a directory fsync may be undone.
3. *More of the abstract layer*: a mutex that `FileLock` implements under `Pair`, a FIFO semaphore that
   `RequestPacer` implements, an address book that `Books` implements.

## 8. Running

```
tlc -config MCJournal.cfg MCJournal      # every other run alike; see PROJECT.json for the pairs
tlapm JournalProofs.tla                  # and the other seven *Proofs modules
```

The proofs need no more than the SMT and Zenon backends and LS4. `ServicesProofs` and `LocalProofs`
take some minutes, the others less.
