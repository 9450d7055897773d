----------------------------- MODULE CommandTable -----------------------------
(***************************************************************************)
(* The commands the CLI registers, with the traits the shell acts on.  The *)
(* fields of a command, its texts and its renderer are left out: whether   *)
(* an input passes a command's own schema is the shell's free choice.      *)
(***************************************************************************)
(* Traits.  on: the families that bind it, none if it is neutral;          *)
(* network, wallet: the shell resolves one; auth: its code may use the     *)
(* master password; sends: it broadcasts; modes: the flags that make it    *)
(* submit nothing; wait, account: it takes --wait, --account; password:    *)
(* what is primed, and if late, by its own code; asks: interactive; typed: *)
(* secretsTtyOnly; prompt: what its own code asks - a secret it needs, a   *)
(* confirmation --yes replaces, a choice with a default.                   *)
Neutral ==
    [on |-> {}, network |-> FALSE, wallet |-> FALSE, auth |-> FALSE, sends |-> FALSE, modes |-> {},
     wait |-> FALSE, account |-> TRUE, password |-> "none", asks |-> FALSE, typed |-> FALSE,
     prompt |-> "none"]

Tron == {"tron"}
Both == {"tron", "evm"}

View(on) == [Neutral EXCEPT !.on = on, !.network = TRUE]
Mine(on) == [View(on) EXCEPT !.wallet = TRUE]
TxModes == {"dryRun", "signOnly", "buildOnly"}
Unsigned == {"dryRun", "buildOnly"}
Sign(on) == [Mine(on) EXCEPT !.auth = TRUE]
Send(on, modes) == [Sign(on) EXCEPT !.sends = TRUE, !.wait = TRUE, !.modes = modes]

Named(paths, traits) == {[path |-> p, is |-> traits] : p \in paths}

-----------------------------------------------------------------------------
(* Accounts, blocks and the chain. *)

AccountActivate == Named({"account activate"}, Send(Tron, TxModes))
AccountSet == Named({"account set"}, Send(Tron, TxModes))
AccountReads == Named({"account balance", "account info", "account portfolio"}, Mine(Both))
AccountHistory == Named({"account history"}, Mine(Tron))
BlockShow == Named({"block"}, View(Both))
ChainReads == Named({"chain prices", "chain node"}, View(Both))
ChainParams == Named({"chain params"}, View(Tron))

-----------------------------------------------------------------------------
(* TRC10 assets, the built-in exchange, votes, rewards, stake. *)

AssetIssue == Named({"asset issue"}, Send(Tron, TxModes))
AssetWrites == Named({"asset update", "asset participate", "asset unfreeze"}, Send(Tron, TxModes))
AssetReads == Named({"asset info", "asset list"}, View(Tron))
ExchangeWrites ==
    Named({"exchange create", "exchange inject", "exchange withdraw"}, Send(Tron, TxModes))
ExchangeTrade == Named({"exchange trade"}, Send(Tron, TxModes))
ExchangeReads == Named({"exchange show", "exchange list"}, View(Tron))
StakeWrites ==
    Named({"stake freeze", "stake unfreeze", "stake withdraw", "stake cancel-unfreeze",
           "stake delegate", "stake undelegate"}, Send(Tron, TxModes))
StakeReads == Named({"stake info", "stake delegated"}, Mine(Tron))
VoteCast == Named({"vote cast"}, Send(Tron, TxModes))
VoteReads == Named({"vote list"}, View(Tron)) \cup Named({"vote status"}, Mine(Tron))
RewardCommands ==
    Named({"reward balance"}, Mine(Tron)) \cup Named({"reward withdraw"}, Send(Tron, TxModes))
ProposalReads == Named({"proposal list", "proposal show"}, View(Tron))
ProposalWrites ==
    Named({"proposal create", "proposal approve", "proposal delete"}, Send(Tron, TxModes))
WitnessWrites ==
    Named({"witness create", "witness update", "witness set-brokerage"}, Send(Tron, TxModes))
PermissionCommands ==
    Named({"permission show"}, Mine(Tron)) \cup Named({"permission update"}, Send(Tron, TxModes))

-----------------------------------------------------------------------------
(* Contracts and ERC-8004 agents. *)

ContractCall == Named({"contract call"}, View(Both))
ContractSend == Named({"contract send"}, Send(Both, TxModes))
ContractDeploy == Named({"contract deploy"}, Send(Both, TxModes))
ContractInfo == Named({"contract info", "contract create2"}, View(Tron))
ContractGovernance ==
    Named({"contract clear-abi", "contract set-origin-energy-limit",
           "contract set-user-resource-percent"}, Send(Tron, TxModes))
AgentWrites ==
    Named({"8004 register", "8004 update", "8004 transfer", "8004 approve", "8004 operator-add",
           "8004 operator-remove"}, Send(Both, TxModes))
AgentReads == Named({"8004 show", "8004 operator-check"}, View(Both))

-----------------------------------------------------------------------------
(* Tokens, transactions, messages. *)

TokenBalance == Named({"token balance"}, Mine(Both))
TokenInfo == Named({"token info"}, View(Both))
TokenBookCommands == Named({"token add", "token list", "token remove"}, Mine(Both))
TxSend == Named({"tx send"}, Send(Both, TxModes))
TxBroadcast == Named({"tx broadcast"}, [Send(Both, {"dryRun"}) EXCEPT !.wallet = FALSE, !.auth = FALSE])
TxApprovals == Named({"tx approvals"}, View(Tron))
TxSign == Named({"tx sign"}, Sign(Both))
\* It submits to the TronLink service, and has no transaction of its own to wait for.
TxMultisig == Named({"tx multisig"}, Sign(Tron))
TxReads == Named({"tx status", "tx info"}, View(Both))
MessageSign == Named({"message sign"}, Sign(Both))
TypedDataSign == Named({"typed-data sign"}, Sign(Both))

-----------------------------------------------------------------------------
(* GasFree, SunSwap, SunPump. *)

GasFreeReads == Named({"gasfree info"}, Mine(Tron)) \cup Named({"gasfree trace"}, View(Tron))
GasFreeTransferRow == Named({"gasfree transfer"}, Send(Tron, {"dryRun"}))
AddLiquidity == Named({"sunswap add-liquidity"}, Send(Tron, Unsigned))
RemoveLiquidity == Named({"sunswap remove-liquidity"}, Send(Tron, Unsigned))
CollectFees == Named({"sunswap collect-fees"}, Send(Tron, Unsigned))
\* The account is resolved by the command, and not for a quote.
Trader == [Send(Tron, Unsigned \cup {"quote"}) EXCEPT !.wallet = FALSE]
SunSwapSwap == Named({"sunswap swap"}, Trader)
SunPumpBuy == Named({"sunpump buy"}, Trader)
SunPumpSell == Named({"sunpump sell"}, Trader)
Public == [View(Tron) EXCEPT !.account = FALSE]
PoolList == Named({"sunswap pool-list"}, Public)
PoolSearch == Named({"sunswap pool-search"}, Public)
TokenList == Named({"sunswap token-list"}, Public)
TokenSearch == Named({"sunswap token-search"}, Public)
TokenPrice == Named({"sunswap price"}, Public)
PositionList == Named({"sunswap position-list"}, Mine(Tron))
PositionInfo == Named({"sunswap position-info"}, Public)
PumpTokenInfo == Named({"sunpump token-info"}, Public)
PumpTokenList == Named({"sunpump token-list"}, Public)
PumpTokenSearch == Named({"sunpump token-search"}, Public)
\* The token is created by the service: no account, and nothing to wait for.
SunPumpLaunch == Named({"sunpump launch"}, [Public EXCEPT !.modes = {"dryRun"}])

-----------------------------------------------------------------------------
(* x402 and B.AI. *)

\* A payment follows its own workflow: there is nothing to wait for.
Payer(on) == [Send(on, {"dryRun"}) EXCEPT !.wait = FALSE]
X402Pay == Named({"x402 pay"}, Payer({}))
X402Serve == Named({"x402 serve"}, [Neutral EXCEPT !.network = TRUE])
X402Roundtrip == Named({"x402 roundtrip"}, [Payer({}) EXCEPT !.modes = {}])
X402Catalog ==
    Named({"x402 provider-list", "x402 provider-show", "x402 endpoint-list", "x402 update-catalog"},
          Neutral)
BaiRechargeRow == Named({"bai recharge"}, Payer(Both))
BaiReads ==
    Named({"bai report-recharge", "bai usage-summary", "bai usage-records", "bai recharge-orders"},
          Neutral)

-----------------------------------------------------------------------------
(* Local commands. *)

Asks == [Neutral EXCEPT !.asks = TRUE]
ConfigCommand == Named({"config"}, Asks)
ContactCommands == Named({"contact add", "contact list", "contact remove"}, Neutral)
NetworksCommand == Named({"networks"}, Neutral)
EncodingConvert == Named({"encoding convert"}, Neutral)
AddressGenerate == Named({"address generate"}, Neutral)

Created == [Asks EXCEPT !.auth = TRUE, !.password = "establish"]
Pasted == [Created EXCEPT !.typed = TRUE, !.prompt = "secret"]
WalletCreate == Named({"create"}, Created)
\* Defect: registered with secretsTtyOnly and without interactive.
ImportQuiet == Named({"import mnemonic"}, [Pasted EXCEPT !.asks = FALSE])
ImportMnemonic == Named({"import mnemonic"}, Pasted)
ImportPrivateKey == Named({"import private-key"}, Pasted)
\* It reads the file before it primes the password.
ImportKeystoreRow == Named({"import keystore"}, [Pasted EXCEPT !.password = "late establish"])
ImportLedger == Named({"import ledger"}, [Asks EXCEPT !.prompt = "choice"])
ImportWatch == Named({"import watch"}, Asks)
WalletList == Named({"list"}, [Neutral EXCEPT !.network = TRUE])
WalletUse == Named({"use"}, Neutral)
WalletCurrent == Named({"current"}, [Neutral EXCEPT !.network = TRUE, !.wallet = TRUE])
WalletRename == Named({"rename"}, Neutral)
WalletDerive == Named({"derive"}, [Neutral EXCEPT !.auth = TRUE])
WalletDelete == Named({"delete"}, [Asks EXCEPT !.prompt = "confirm"])
\* Whether the account can be exported, and the format, come before the password.
WalletBackup ==
    Named({"backup"}, [Asks EXCEPT !.network = TRUE, !.auth = TRUE, !.prompt = "choice",
                                   !.password = "late verify"])
ChangePassword == Named({"change-password"}, [Pasted EXCEPT !.password = "verify"])

-----------------------------------------------------------------------------
\* registerEvmChainCommands: no command is bound on EVM networks only.
EvmCommands ==
    UNION {AccountReads, BlockShow, ChainReads, ContractCall, ContractSend, ContractDeploy, AgentWrites,
           AgentReads, TokenBalance, TokenInfo, TokenBookCommands, TxSend, TxBroadcast, TxSign, TxReads,
           MessageSign, TypedDataSign, BaiRechargeRow}

\* registerTronChainCommands
TronCommands ==
    EvmCommands \cup
    UNION {AccountActivate, AccountSet, AccountHistory, ChainParams, AssetIssue, AssetWrites, AssetReads,
           ExchangeWrites, ExchangeTrade, ExchangeReads, StakeWrites, StakeReads, VoteCast, VoteReads,
           RewardCommands, ProposalReads, ProposalWrites, WitnessWrites, PermissionCommands, ContractInfo,
           ContractGovernance, TxApprovals, TxMultisig, GasFreeReads, GasFreeTransferRow, AddLiquidity,
           RemoveLiquidity, CollectFees, SunSwapSwap, SunPumpBuy, SunPumpSell, PoolList, PoolSearch,
           TokenList, TokenSearch, TokenPrice, PositionList, PositionInfo, PumpTokenInfo, PumpTokenList,
           PumpTokenSearch, SunPumpLaunch}

\* composeCliRuntime
NeutralCommands ==
    UNION {X402Pay, X402Serve, X402Roundtrip, X402Catalog, BaiReads, ConfigCommand,
           ContactCommands, NetworksCommand, EncodingConvert, AddressGenerate, WalletCreate,
           ImportMnemonic, ImportPrivateKey, ImportKeystoreRow, ImportLedger, ImportWatch, WalletList,
           WalletUse, WalletCurrent, WalletRename, WalletDerive, WalletDelete, WalletBackup,
           ChangePassword}

Registry == TronCommands \cup NeutralCommands

\* CommandRegistry.add and addChain refuse a path registered twice.
ASSUME NoDuplicates == \A c, d \in Registry : c.path = d.path => c = d
=============================================================================
