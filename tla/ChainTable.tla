------------------------------ MODULE ChainTable ------------------------------
(***************************************************************************)
(* What the commands on a TRON or an EVM chain ask of the node before they *)
(* answer or sign: the reads each use case makes, the answers it goes on   *)
(* with, the key it needs, and what it reads after its receipt; and what   *)
(* the gateways can answer to each read.  The amounts, names and layouts   *)
(* the reads carry are left out: an answer fits what the use case requires *)
(* of it, does not, or says that there is no such thing.                   *)
(***************************************************************************)
EXTENDS CommandTable, TLC

Answers == {"fits", "unfit", "absent"}

\* What a use case needs of one read.  Reads: whatever it says; Has: that it is there; Suits: that it
\* also passes the rules of the use case; Lacks: that it is not there.
Need(r, ok) == {[read |-> r, ok |-> ok]}
Reads(r) == Need(r, Answers)
Has(r) == Need(r, {"fits", "unfit"})
Suits(r) == Need(r, {"fits"})
Lacks(r) == Need(r, {"absent"})

\* The kind of transaction a use case asks for, and who makes it: TronWeb, or a codec of the
\* wallet, which asks the node for the reference block at most.
Tx(maker, kind) == [maker |-> maker, kind |-> kind]
NoTx == Tx("none", "none")
ByTronWeb(kind) == Tx("tronweb", kind)
ByCodec(kind) == Tx("codec", kind)

\* needs: read first; pays: binding only in a mode that pays now; builds: read
\* while the transaction is built; tries: reads that may fail; gaps: the same, in a dry
\* run only; waits: the same, if the confirmation is waited for; drops: reads that may fail
\* even for the deadline; prices, lean: what an estimate needs, and may miss; after: what
\* follows the receipt; key: the account that has to sign; makes: the transaction.
Lookup ==
    [sends |-> FALSE, key |-> "none", makes |-> NoTx, needs |-> {}, pays |-> {}, builds |-> {}, tries |-> {},
     gaps |-> {}, waits |-> {}, drops |-> {}, prices |-> {}, lean |-> {}, after |-> "nothing"]
Write(tx) == [Lookup EXCEPT !.sends = TRUE, !.key = "any", !.makes = tx]
\* Ledger has no app for these contracts.
SoftwareWrite(tx) == [Write(tx) EXCEPT !.key = "software"]

On(family, paths, use) == {[on |-> family, path |-> p, is |-> use] : p \in paths}
TronUse(path, use) == On("tron", {path}, use)
EvmUse(path, use) == On("evm", {path}, use)
Look(needs) == [Lookup EXCEPT !.needs = needs]
Sends(tx, needs) == [Write(tx) EXCEPT !.needs = needs]

-----------------------------------------------------------------------------
(* What a TRON node answers; what else it says is a failed read. *)

Always == {"fits", "unfit"}

NativeBalanceAnswers == [r \in {"native"} |-> Always]
AccountAnswers == [r \in {"account"} |-> Answers]
AccountByIdAnswers == [r \in {"accountById"} |-> Answers]
ResourceAnswers == [r \in {"resources"} |-> Always]
\* An account that is not activated has none, and says so by its error.
PermissionAnswers == [r \in {"permissions"} |-> Answers]
BlockAnswers == [r \in {"block"} |-> Answers]
\* No head is a failure, an unknown height is not.
HeadAnswers == [r \in {"head"} |-> Always]
TxAnswers == [r \in {"tx"} |-> Always]
\* Before it is in a block a transaction has no info.
TxInfoAnswers == [r \in {"txInfo"} |-> Answers]
\* A revert, and a result that says no, are failures.
CallAnswers == [r \in {"call"} |-> Always]
\* No data is a balance of zero.
Trc20BalanceAnswers == [r \in {"trc20Balance"} |-> Always]
\* Empty returns are absent metadata.
TokenInfoAnswers == [r \in {"tokenInfo"} |-> Answers]
Trc10BalanceAnswers == [r \in {"trc10Balance"} |-> Always]
Trc10InfoAnswers == [r \in {"trc10Info"} |-> Always]
AssetByIdAnswers == [r \in {"assetById"} |-> Answers]
\* Several assets may have the name.
AssetsByNameAnswers == [r \in {"assetsByName"} |-> Answers]
AssetByIssuerAnswers == [r \in {"assetByIssuer"} |-> Answers]
AssetListAnswers == [r \in {"assets"} |-> Always]
\* An answer about another exchange is a failure.
ExchangeAnswers == [r \in {"exchange"} |-> Answers]
ExchangeListAnswers == [r \in {"exchanges"} |-> Always]
EnergyAnswers == [r \in {"energy"} |-> Always]
WitnessListAnswers == [r \in {"witnesses"} |-> Always]
WitnessAnswers == [r \in {"witness"} |-> Answers]
ProposalListAnswers == [r \in {"proposals"} |-> Always]
ProposalAnswers == [r \in {"proposal"} |-> Answers]
\* A brokerage that is missing is a failure.
BrokerageAnswers == [r \in {"brokerage"} |-> Always]
RewardAnswers == [r \in {"reward"} |-> Always]
PriceAnswers == [r \in {"energyPrices", "bandwidthPrices"} |-> Always]
\* The list is there, the parameter may not be.
ParameterAnswers == [r \in {"params"} |-> Answers]
ParameterFee == Has("params")
NodeInfoAnswers == [r \in {"nodeInfo"} |-> Always]
DelegationAnswers == [r \in {"delegated", "delegatedIndex", "delegatable"} |-> Always]
UnfreezeAnswers == [r \in {"withdrawable", "unfreezeCount"} |-> Always]
\* The contract decides; its info is optional, unless the deadline cut it.
MetadataAnswers == [r \in {"metadata"} |-> Answers]
HistoryAnswers == [r \in {"history"} |-> Always]
QuoteAnswers == [r \in {"usdPrices"} |-> Always]

TronNode ==
    NativeBalanceAnswers @@ AccountAnswers @@ AccountByIdAnswers @@ ResourceAnswers
    @@ PermissionAnswers @@ BlockAnswers @@ HeadAnswers @@ TxAnswers @@ TxInfoAnswers @@ CallAnswers
    @@ Trc20BalanceAnswers @@ TokenInfoAnswers @@ Trc10BalanceAnswers @@ Trc10InfoAnswers
    @@ AssetByIdAnswers @@ AssetsByNameAnswers @@ AssetByIssuerAnswers @@ AssetListAnswers
    @@ ExchangeAnswers @@ ExchangeListAnswers @@ EnergyAnswers @@ WitnessListAnswers
    @@ WitnessAnswers @@ ProposalListAnswers @@ ProposalAnswers @@ BrokerageAnswers
    @@ RewardAnswers @@ PriceAnswers @@ ParameterAnswers @@ NodeInfoAnswers
    @@ DelegationAnswers @@ UnfreezeAnswers @@ MetadataAnswers @@ HistoryAnswers @@ QuoteAnswers

(* What an EVM node answers. *)

EvmBalanceAnswers == [r \in {"native"} |-> Always]
NonceAnswers == [r \in {"nonce", "minedNonce"} |-> Always]
CodeAnswers == [r \in {"code"} |-> Answers]
EvmHeadAnswers == [r \in {"head"} |-> Always]
EvmBlockAnswers == [r \in {"block", "finalized"} |-> Answers]
SyncAnswers == [r \in {"syncing", "peers", "version", "chainId"} |-> Always]
\* The tip is optional, unless the deadline cut it.
FeeDataAnswers == [r \in {"fee"} |-> Always]
GasAnswers == [r \in {"gas"} |-> Always]
ReceiptAnswers == [r \in {"receipt"} |-> Answers]
EvmTxAnswers == [r \in {"tx"} |-> Answers]
EvmCallAnswers == [r \in {"call"} |-> Always]
\* No data is no balance: it is a failure.
Erc20BalanceAnswers == [r \in {"erc20Balance"} |-> Always]
\* Empty returns and reverts are absent metadata; an unreachable node is a failure.
Erc20MetadataAnswers == [r \in {"erc20Metadata"} |-> Answers]

\* The registry of agents: an id it does not hold is told from another revert.
AgentAnswers == [r \in {"ownerOf", "tokenURI", "getApproved"} |-> Answers]
OperatorAnswers == [r \in {"isApprovedForAll"} |-> Always]
\* The document an agent's URI names, from anywhere; only the command's deadline ends it.
RegistrationAnswers == [r \in {"registration"} |-> Always]
AgentRegistry == AgentAnswers @@ OperatorAnswers @@ RegistrationAnswers

EvmNode ==
    EvmBalanceAnswers @@ NonceAnswers @@ CodeAnswers @@ EvmHeadAnswers @@ EvmBlockAnswers
    @@ SyncAnswers @@ FeeDataAnswers @@ GasAnswers @@ ReceiptAnswers @@ EvmTxAnswers @@ EvmCallAnswers
    @@ Erc20BalanceAnswers @@ Erc20MetadataAnswers @@ QuoteAnswers

NodeOf(family) == (IF family = "tron" THEN TronNode ELSE EvmNode) @@ AgentRegistry

-----------------------------------------------------------------------------
(* The transactions of TRON. *)

LocalAccountTransaction(kind) == ByCodec(kind)
BuildLocally(kind) == ByCodec(kind)
BuildLocalTransaction(kind) == ByCodec(kind)

AccountCreateTx == LocalAccountTransaction("AccountCreateContract")
AccountNameTxs == {LocalAccountTransaction(kind) : kind \in {"AccountUpdateContract", "SetAccountIdContract"}}
PermissionTx == ByTronWeb("AccountPermissionUpdateContract")
NativeTransferTx == ByTronWeb("TransferContract")
Trc20TransferTx == ByTronWeb("TriggerSmartContract")
Trc10TransferTx == ByTronWeb("TransferAssetContract")
\* Tranches and their release are what TronWeb cannot encode.
AssetIssueTx == BuildLocally("AssetIssueContract")
AssetUnfreezeTx == BuildLocally("UnfreezeAssetContract")
AssetUpdateTx == ByTronWeb("UpdateAssetContract")
AssetParticipateTx == ByTronWeb("ParticipateAssetIssueContract")
ExchangeCreateTx == ByTronWeb("ExchangeCreateContract")
ExchangeInjectTx == ByTronWeb("ExchangeInjectContract")
ExchangeWithdrawTx == ByTronWeb("ExchangeWithdrawContract")
ExchangeTradeTx == ByTronWeb("ExchangeTransactionContract")
FreezeTx == ByTronWeb("FreezeBalanceV2Contract")
UnfreezeTx == ByTronWeb("UnfreezeBalanceV2Contract")
WithdrawUnfrozenTx == ByTronWeb("WithdrawExpireUnfreezeContract")
CancelUnfreezeTx == ByTronWeb("CancelAllUnfreezeV2Contract")
DelegateTx == ByTronWeb("DelegateResourceContract")
UndelegateTx == ByTronWeb("UnDelegateResourceContract")
VoteTx == ByTronWeb("VoteWitnessContract")
WithdrawBalanceTx == ByTronWeb("WithdrawBalanceContract")
\* Values past 2^53 stay exact in the wallet's own encoding.
ProposalCreateTx == BuildLocalTransaction("ProposalCreateContract")
ProposalApproveTx == ByTronWeb("ProposalApproveContract")
ProposalDeleteTx == ByTronWeb("ProposalDeleteContract")
WitnessCreateTx == ByTronWeb("WitnessCreateContract")
WitnessUpdateTx == ByTronWeb("WitnessUpdateContract")
BrokerageTx == ByTronWeb("UpdateBrokerageContract")
TriggerTx == ByTronWeb("TriggerSmartContract")
DeployTx == ByTronWeb("CreateSmartContract")
ClearAbiTx == ByTronWeb("ClearABIContract")
OriginEnergyLimitTx == BuildLocalTransaction("UpdateEnergyLimitContract")
UserResourcePercentTx == ByTronWeb("UpdateSettingContract")

-----------------------------------------------------------------------------
(* TRON: accounts. *)

NativeUse == Look(Reads("native"))
BalanceUses == TronUse("account balance", NativeUse) \cup EvmUse("account balance", NativeUse)
\* The fees are chain parameters; who pays them now has to have them.
ActivateUse ==
    TronUse("account activate",
        [SoftwareWrite(AccountCreateTx) EXCEPT
            !.needs = Lacks("account") \cup ParameterFee, !.pays = Suits("native"), !.after = "check"])
\* Set once; a name may be signed on a Ledger, an id has to be free.
SetOnChainUse ==
    UNION {LET id == tx.kind = "SetAccountIdContract"
               use == IF id THEN SoftwareWrite(tx) ELSE Write(tx) IN
           TronUse("account set",
               [use EXCEPT !.needs = Suits("account") \cup IF id THEN Lacks("accountById") ELSE {},
                           !.after = "check"]) : tx \in AccountNameTxs}
InfoUse == TronUse("account info", Look(Reads("account") \cup Reads("resources") \cup Reads("permissions")))
HistoryUse == TronUse("account history", Look(Reads("history")))
PortfolioUse ==
    TronUse("account portfolio",
        [Look(Reads("native")) EXCEPT !.tries = Reads("trc20Balance") \cup Reads("trc10Balance") \cup Reads("usdPrices")])

(* TRC10 assets. *)

\* By its id, or by a name that only one asset has.
ResolvedAsset == {Has("assetById"), Suits("assetsByName")}
OwnAsset == Has("assetByIssuer")
AssetInfoUse ==
    UNION {TronUse("asset info", Look(asset)) : asset \in ResolvedAsset \cup {Has("assetByIssuer")}}
AssetListUse == TronUse("asset list", Look(Reads("assets")))
\* An account issues one asset.
IssueUse == TronUse("asset issue", [SoftwareWrite(AssetIssueTx) EXCEPT !.needs = Lacks("assetByIssuer")])
UpdateUse == TronUse("asset update", [SoftwareWrite(AssetUpdateTx) EXCEPT !.needs = OwnAsset])
\* Somebody else's, in its window, for at least one unit.
ParticipateUse ==
    LET InWindow(need) == {[f EXCEPT !.ok = {"fits"}] : f \in need} IN
    UNION {TronUse("asset participate", [SoftwareWrite(AssetParticipateTx) EXCEPT !.needs = InWindow(asset)]) :
              asset \in ResolvedAsset}
\* With a tranche that has matured.
UnfreezeUse == TronUse("asset unfreeze", [SoftwareWrite(AssetUnfreezeTx) EXCEPT !.needs = Suits("assetByIssuer")])

(* The exchange. *)

\* TRX is known without a read.
TokenMeta == Has("assetById")
RequireExchange == Has("exchange")
\* One of the pair, and neither side is empty.
Sides == Suits("exchange")
ExchangeShowUse == TronUse("exchange show", Look(RequireExchange \cup TokenMeta))
ExchangeListUse == TronUse("exchange list", Look(Reads("exchanges")))
ExchangeCreateUse == TronUse("exchange create", Sends(ExchangeCreateTx, TokenMeta))
\* Its creator's; the amounts follow from the reserves.
LiquidityUse ==
    TronUse("exchange inject", Sends(ExchangeInjectTx, Sides \cup TokenMeta))
    \cup TronUse("exchange withdraw", Sends(ExchangeWithdrawTx, Sides \cup TokenMeta))
ExchangeTradeUse == TronUse("exchange trade", Sends(ExchangeTradeTx, Sides \cup TokenMeta))

(* Proposals. *)

Witnesses27 == Reads("witnesses")
AssertWitness == Has("witness")
RequireProposal == Has("proposal")
ProposalListUse == TronUse("proposal list", Look(Reads("proposals") \cup Witnesses27))
ProposalShowUse == TronUse("proposal show", Look(RequireProposal \cup Witnesses27))
\* The proposals there are before, best effort, are what the new one is told from, once
\* it is confirmed.
ProposalCreateUse ==
    TronUse("proposal create",
        [Sends(ProposalCreateTx, Suits("params") \cup AssertWitness) EXCEPT
            !.waits = Reads("proposals"), !.after = "find"])
\* Pending, and not approved (approved, to cancel) by this account.
ProposalApproveUse ==
    TronUse("proposal approve", Sends(ProposalApproveTx, Suits("proposal") \cup Witnesses27 \cup AssertWitness))
ProposalDeleteUse == TronUse("proposal delete", Sends(ProposalDeleteTx, Suits("proposal") \cup AssertWitness))

(* Votes. *)

VotingPower == Suits("account")
VoteCastUse == TronUse("vote cast", [Sends(VoteTx, VotingPower) EXCEPT !.after = "interval"])
VoteListUse == TronUse("vote list", [Look(Reads("witnesses")) EXCEPT !.tries = Reads("brokerage")])
VoteStatusUse ==
    TronUse("vote status",
        [Look(Reads("account") \cup Reads("reward")) EXCEPT !.tries = Reads("witnesses") \cup Reads("brokerage")])

(* Stake: what is short is found while the transaction is built. *)

Transact(tx, builds) == [Write(tx) EXCEPT !.builds = builds]
StakeInfoUse ==
    TronUse("stake info",
        Look(Reads("account") \cup Reads("resources") \cup Reads("withdrawable") \cup Reads("unfreezeCount")))
DelegatedUse ==
    TronUse("stake delegated", Look(Reads("delegatedIndex") \cup Reads("delegated") \cup Reads("delegatable")))
FreezeUse == TronUse("stake freeze", Transact(FreezeTx, Suits("native")))
StakeUnfreezeUse == TronUse("stake unfreeze", Transact(UnfreezeTx, Suits("account")))
StakeWithdrawUse == TronUse("stake withdraw", Transact(WithdrawUnfrozenTx, Suits("withdrawable")))
CancelUnfreezeUse == TronUse("stake cancel-unfreeze", SoftwareWrite(CancelUnfreezeTx))
DelegateUse == TronUse("stake delegate", Write(DelegateTx))
UndelegateUse == TronUse("stake undelegate", Transact(UndelegateTx, Suits("delegated")))

(* Witnesses, rewards, permissions. *)

RequireWitness == Has("witness")
\* Not yet one, active, and with the fee.
WitnessCreateUse ==
    TronUse("witness create", Sends(WitnessCreateTx, Lacks("witness") \cup Suits("account") \cup ParameterFee))
WitnessUpdateUse == TronUse("witness update", Sends(WitnessUpdateTx, RequireWitness))
SetBrokerageUse == TronUse("witness set-brokerage", Sends(BrokerageTx, RequireWitness))
RewardBalanceUse == TronUse("reward balance", Look(Reads("reward") \cup Reads("account")))
\* Something to claim, and a day since the last claim.
RewardWithdrawUse == TronUse("reward withdraw", Sends(WithdrawBalanceTx, Suits("reward") \cup Suits("account")))
PermissionShowUse == TronUse("permission show", Look(Has("permissions")))
PermissionUpdateUse ==
    TronUse("permission update",
        [Sends(PermissionTx, ParameterFee) EXCEPT !.pays = Suits("native"), !.after = "check"])

(* Contracts. *)

ContractCallUse == TronUse("contract call", Look(Reads("call")))
EnergyEstimate == [prices |-> Reads("energy"), lean |-> Reads("energyPrices") \cup Reads("resources")]
Estimated(use, e) == [use EXCEPT !.prices = e.prices, !.lean = e.lean]
\* The token, if it is an approval that is to be shown: raw if it cannot be read.
ApprovalRows(metadata) == {{}, Reads(metadata)}
ContractSendUse ==
    UNION {TronUse("contract send", [Estimated(Write(TriggerTx), EnergyEstimate) EXCEPT !.drops = rows]) :
              rows \in ApprovalRows("tokenInfo")}
DeployUse == TronUse("contract deploy", SoftwareWrite(DeployTx))
ContractInfoUse == TronUse("contract info", Look(Has("metadata")))
\* Its deployer's.
Governs(tx) == Sends(tx, Suits("metadata"))
ClearAbiUse == TronUse("contract clear-abi", Governs(ClearAbiTx))
SetOriginEnergyLimitUse == TronUse("contract set-origin-energy-limit", Governs(OriginEnergyLimitTx))
SetUserResourcePercentUse ==
    TronUse("contract set-user-resource-percent", Governs(UserResourcePercentTx))

(* Tokens, transfers, the chain. *)

TokenBalanceUse ==
    TronUse("token balance", [Look(Reads("trc20Balance")) EXCEPT !.tries = Reads("tokenInfo")])
    \cup TronUse("token balance", [Look(Reads("trc10Balance")) EXCEPT !.tries = Reads("trc10Info")])
TokenInfoUse == TronUse("token info", Look(Reads("tokenInfo"))) \cup TronUse("token info", Look(Reads("trc10Info")))
\* Only what names itself, and a TRC20 its decimals.
FetchEntry == {Suits("tokenInfo"), Suits("trc10Info")}
TokenAddUse == UNION {TronUse("token add", Look(entry)) : entry \in FetchEntry}
TokenListUse == On("tron", {"token list", "token remove"}, Lookup)
\* The decimals are in the book, or asked for, unless the amount is raw.
ResolveTransfer ==
    {Write(NativeTransferTx), Write(Trc10TransferTx), Sends(Trc10TransferTx, Has("trc10Info"))}
    \cup {[Estimated(Write(Trc20TransferTx), EnergyEstimate) EXCEPT !.needs = decimals] : decimals \in {{}, Suits("tokenInfo")}}
AssertTokenBalance == Suits("trc20Balance")
TxSendUse ==
    UNION {TronUse("tx send", [use EXCEPT !.builds = IF use.prices = {} THEN {} ELSE AssertTokenBalance]) :
              use \in ResolveTransfer}
EnrichParties == {{}, Reads("tokenInfo")}
HeadTry == Reads("head")
TxInfoUse ==
    UNION {TronUse("tx info", [Look(Reads("tx")) EXCEPT !.tries = Reads("txInfo") \cup HeadTry \cup token]) :
              token \in EnrichParties}
ParamsUse == TronUse("chain params", Look(Reads("params"))) \cup TronUse("chain params", Look(Suits("params")))
PricesUse ==
    TronUse("chain prices", Look(Reads("energyPrices") \cup Reads("bandwidthPrices") \cup Reads("params")))
NodeUse == TronUse("chain node", Look(Reads("nodeInfo") \cup Reads("head")))
BlockUse == TronUse("block", Look(Has("block"))) \cup EvmUse("block", Look(Has("block")))

-----------------------------------------------------------------------------
(* EVM. *)

EvmTx == ByCodec("evm")

\* A chosen nonce asks for the pending one only to warn, and in a dry run for the mined
\* one, which it may not be under.
EvmBuild(use) ==
    {[use EXCEPT !.builds = @ \cup Reads("nonce") \cup Reads("fee") \cup Reads("gas")],
     [use EXCEPT !.builds = @ \cup Reads("fee") \cup Reads("gas"), !.tries = @ \cup Reads("nonce"),
                 !.gaps = Suits("minedNonce")]}
EvmSends(path, use) == UNION {EvmUse(path, built) : built \in EvmBuild(use)}
\* No decimals, no transfer.
EvmTransfers ==
    {Write(EvmTx)} \cup {[Write(EvmTx) EXCEPT !.needs = decimals, !.builds = Suits("erc20Balance")] :
                    decimals \in {{}, Suits("erc20Metadata")}}
EvmSendUse == UNION {EvmSends("tx send", use) : use \in EvmTransfers}
\* The transaction is the user's; the node is asked about it in a dry run only.
EvmBroadcastUse ==
    EvmUse("tx broadcast",
        [Write(EvmTx) EXCEPT !.key = "none", !.gaps = Suits("nonce") \cup Suits("minedNonce") \cup Suits("native")])
Erc20Parties == {{}, Reads("erc20Metadata")}
EvmTxInfoUse ==
    UNION {EvmUse("tx info", [Look(Has("tx") \cup Reads("receipt")) EXCEPT !.tries = HeadTry \cup Reads("block") \cup token]) :
              token \in Erc20Parties}
EvmPortfolioUse ==
    EvmUse("account portfolio", [Look(Reads("native")) EXCEPT !.tries = Reads("erc20Balance") \cup Reads("usdPrices")])
EvmInfoUse == EvmUse("account info", Look(Reads("native") \cup Reads("nonce") \cup Reads("code")))
EvmCallUse == EvmUse("contract call", Look(Reads("call")))
EvmContractSendUse ==
    UNION {EvmSends("contract send", [Write(EvmTx) EXCEPT !.drops = rows]) : rows \in ApprovalRows("erc20Metadata")}
EvmDeployUse == EvmSends("contract deploy", Write(EvmTx))
EvmTokenBalanceUse ==
    EvmUse("token balance", [Look(Reads("erc20Balance")) EXCEPT !.tries = Reads("erc20Metadata")])
EvmTokenInfoUse == EvmUse("token info", Look(Suits("erc20Metadata")))
EvmTokenAddUse == EvmUse("token add", Look(Suits("erc20Metadata")))
EvmTokenRemoveUse == On("evm", {"token list", "token remove"}, Lookup)
EvmPricesUse == EvmUse("chain prices", Look(Reads("fee")))
EvmNodeUse ==
    EvmUse("chain node",
        [Look(Has("block")) EXCEPT !.tries = Reads("version") \cup Reads("syncing") \cup Reads("peers")
                                              \cup Reads("finalized") \cup Reads("chainId")])

-----------------------------------------------------------------------------
(* ERC-8004 agents, on both: a write is a call of the registry's contract. *)

SendTron(path, use) == TronUse(path, Estimated([use EXCEPT !.makes = TriggerTx], EnergyEstimate))
SendEvm(path, use) == EvmSends(path, [use EXCEPT !.makes = EvmTx])
AgentWrite(path, needs, after) ==
    LET use == [Sends(NoTx, needs) EXCEPT !.after = after] IN SendTron(path, use) \cup SendEvm(path, use)
AgentLook(path, use) == On("tron", {path}, use) \cup On("evm", {path}, use)

ShowUse ==
    AgentLook("8004 show",
        [Look(Has("ownerOf") \cup Has("tokenURI") \cup Has("getApproved")) EXCEPT !.tries = Reads("registration")])
\* The id is in the receipt's logs; the document's, the owner's and the operator's new
\* state is read again.
RegisterUse == AgentWrite("8004 register", {}, "check")
UpdateURIUse == AgentWrite("8004 update", Has("tokenURI"), "check")
TransferUse == AgentWrite("8004 transfer", Has("ownerOf"), "check")
ApproveUse == AgentWrite("8004 approve", {}, "nothing")
SetOperatorUse ==
    UNION {AgentWrite(path, {}, "check") : path \in {"8004 operator-add", "8004 operator-remove"}}
OperatorCheckUse == AgentLook("8004 operator-check", Look(Reads("isApprovedForAll")))

AgentUses ==
    UNION {ShowUse, RegisterUse, UpdateURIUse, TransferUse, ApproveUse, SetOperatorUse, OperatorCheckUse}

-----------------------------------------------------------------------------
TronUses ==
    UNION {ActivateUse, SetOnChainUse, InfoUse, HistoryUse, PortfolioUse, AssetInfoUse, AssetListUse, IssueUse,
           UpdateUse, ParticipateUse, UnfreezeUse, ExchangeShowUse, ExchangeListUse, ExchangeCreateUse,
           LiquidityUse, ExchangeTradeUse, ProposalListUse, ProposalShowUse, ProposalCreateUse,
           ProposalApproveUse, ProposalDeleteUse, VoteCastUse, VoteListUse, VoteStatusUse, StakeInfoUse,
           DelegatedUse, FreezeUse, StakeUnfreezeUse, StakeWithdrawUse, CancelUnfreezeUse, DelegateUse,
           UndelegateUse, WitnessCreateUse, WitnessUpdateUse, SetBrokerageUse, RewardBalanceUse,
           RewardWithdrawUse, PermissionShowUse, PermissionUpdateUse, ContractCallUse, ContractSendUse,
           DeployUse, ContractInfoUse, ClearAbiUse, SetOriginEnergyLimitUse, SetUserResourcePercentUse,
           TokenBalanceUse, TokenInfoUse, TokenAddUse, TokenListUse, TxSendUse, TxInfoUse, ParamsUse,
           PricesUse, NodeUse}

EvmUses ==
    UNION {EvmSendUse, EvmBroadcastUse, EvmTxInfoUse, EvmPortfolioUse, EvmInfoUse, EvmCallUse,
           EvmContractSendUse, EvmDeployUse, EvmTokenBalanceUse, EvmTokenInfoUse, EvmTokenAddUse,
           EvmTokenRemoveUse, EvmPricesUse, EvmNodeUse}

Uses == TronUses \cup EvmUses \cup BalanceUses \cup BlockUse \cup AgentUses

\* A use case is bound where its command is, sends where the shell lets it, and has no
\* needs that no answer of its node meets.  What it reads without minding the deadline
\* is followed by a build, which does.
ASSUME UsesFitTheShell ==
    \A u \in Uses : \E c \in Registry :
        c.path = u.path /\ u.on \in c.is.on /\ u.is.sends = c.is.sends

ASSUME DropsComeBeforeABuild ==
    \A u \in Uses : u.is.drops # {} => u.is.sends /\ u.is.key # "none"

ASSUME NeedsCanBeMet ==
    \A u \in Uses :
        /\ \A f \in u.is.needs \cup u.is.pays \cup u.is.builds \cup u.is.prices :
            f.ok \cap NodeOf(u.on)[f.read] # {}
        /\ \A f \in UNION {u.is.tries, u.is.gaps, u.is.waits, u.is.drops, u.is.lean} : f.read \in DOMAIN NodeOf(u.on)
=============================================================================
