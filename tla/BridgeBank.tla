----------------------------- MODULE BridgeBank -----------------------------
(***************************************************************************)
(* The BridgeBank contract: it holds the ether and ERC20 tokens locked for *)
(* Furynet (EthereumBank), controls the ERC20 tokens that stand for        *)
(* Furynet coins (CosmosBank), and maps the lower-case symbols that claims *)
(* carry to the symbols of the contracts.                                  *)
(*                                                                         *)
(* A reverted transaction writes nothing and is not an action.  The roles  *)
(* (operator, owner, pauser) are not told apart.  Unlocking and minting    *)
(* are called by CosmosBridge only, and are operators here.                *)
(***************************************************************************)
EXTENDS Integers, FiniteSets, Sequences

CONSTANTS
    Zero,           \* address(0): ether, and the value of an unset address
    Tokens,         \* ERC20 contracts that may be locked
    Existing,       \* ERC20 contracts that addExistingBridgeToken may take
    Symbols,
    Lower,          \* toLower
    SymbolOf,       \* the symbol of every contract in Tokens and Existing
    Unset,          \* the empty string
    Users,          \* Ethereum addresses
    Recipients,     \* what users give as a Furynet address: [prefix, length]
    GenesisHeld,    \* what the bank holds at first: [Assets -> Nat]
    MaxHeld,        \* bound: locked amount of a token
    MaxNonce        \* bound: lock and burn events

\* A contract that createNewBridgeToken deploys, which has an address of its own.
Deployed(s) == <<"deployed", s>>

ASSUME AddressAssumption ==
    /\ Zero \notin Tokens \cup Existing
    /\ SymbolOf \in [Tokens \cup Existing -> Symbols]
ASSUME DeployedAssumption ==
    \A s \in Symbols : Deployed(s) \notin Tokens \cup Existing \cup {Zero}
ASSUME SymbolAssumption ==
    /\ {"eth", "efury"} \subseteq Symbols /\ Unset \notin Symbols
    /\ Lower \in [Symbols -> Symbols] /\ \A s \in Symbols : Lower[Lower[s]] = Lower[s]
    /\ Lower["eth"] = "eth" /\ Lower["efury"] = "efury"
ASSUME BankBoundsAssumption == MaxHeld \in Nat /\ MaxNonce \in Nat

Assets == Tokens \cup {Zero}
ASSUME HeldAssumption == GenesisHeld \in [Assets -> Nat]

VARIABLES
    ethWhiteList,       \* assets that may be locked
    lockedTokenList,    \* symbol -> asset last locked under it
    lowerToUpperTokens, \* lower-case symbol -> symbol
    controlledBridgeTokens, \* symbol -> bridge token
    cosmosWhiteList,    \* bridge tokens that may be burned
    bankPaused,
    blocklist,          \* blocked users; empty while no blocklist is set
    lockBurnNonce,
    held,               \* external: what the bank holds of each asset
    minted              \* external: supply of each bridge token

bridgeBankVars == <<ethWhiteList, lockedTokenList, lowerToUpperTokens, controlledBridgeTokens,
              cosmosWhiteList, bankPaused, blocklist, lockBurnNonce, held, minted>>
listVars == <<ethWhiteList, lockedTokenList, lowerToUpperTokens, controlledBridgeTokens,
              cosmosWhiteList>>
fundVars == <<lockBurnNonce, held, minted>>

BridgeTokens == Existing \cup {Deployed(s) : s \in Symbols}
AssetSymbol(t) == IF t = Zero THEN "eth" ELSE SymbolOf[t]

safeLowerToUpperTokens(map, s) == IF map[s] = Unset THEN s ELSE map[s]

\* The prefix the contract asks for is 0x736966.
validFuryAddress(r) == r.length = 42 /\ r.prefix = "sif"

-----------------------------------------------------------------------------
\* Ether needs a positive msg.value; a token transfer may be of zero.
lock(u, r, t, n) ==
    LET s == AssetSymbol(t) IN
    /\ t \in ethWhiteList /\ validFuryAddress(r) /\ u \notin blocklist /\ ~bankPaused
    /\ t = Zero => n > 0
    /\ held[t] + n <= MaxHeld /\ lockBurnNonce < MaxNonce
    /\ held' = [held EXCEPT ![t] = @ + n]
    /\ lockedTokenList' = [lockedTokenList EXCEPT ![s] = t]
    /\ lockBurnNonce' = lockBurnNonce + 1
    /\ UNCHANGED <<ethWhiteList, lowerToUpperTokens, controlledBridgeTokens, cosmosWhiteList,
                   bankPaused, blocklist, minted>>

burn(u, r, t, n) ==
    /\ t \in cosmosWhiteList /\ validFuryAddress(r) /\ u \notin blocklist /\ ~bankPaused
    /\ n <= minted[t] /\ lockBurnNonce < MaxNonce
    /\ minted' = [minted EXCEPT ![t] = @ - n]
    /\ lockBurnNonce' = lockBurnNonce + 1
    /\ UNCHANGED <<listVars, bankPaused, blocklist, held>>

\* Mutant: the symbol of the token is not recorded under its lower case.
whitelistTokenOnly(t, inList) ==
    /\ ethWhiteList' = IF inList THEN ethWhiteList \cup {t} ELSE ethWhiteList \ {t}
    /\ UNCHANGED <<lockedTokenList, lowerToUpperTokens, controlledBridgeTokens, cosmosWhiteList,
                   bankPaused, blocklist, fundVars>>

whitelistToken(t, inList) ==
    /\ ethWhiteList' = IF inList THEN ethWhiteList \cup {t} ELSE ethWhiteList \ {t}
    /\ lowerToUpperTokens' = [lowerToUpperTokens EXCEPT ![Lower[SymbolOf[t]]] = SymbolOf[t]]
    /\ UNCHANGED <<lockedTokenList, controlledBridgeTokens, cosmosWhiteList, bankPaused,
                   blocklist, fundVars>>

updateEthWhiteList(t, inList) ==
    /\ inList <=> lockedTokenList[SymbolOf[t]] = Zero
    /\ whitelistToken(t, inList)

\* One turn of the loop; no turn can fail.
bulkWhitelistUpdateLimits(t) == whitelistToken(t, TRUE)

addExistingBridgeToken(t) ==
    /\ cosmosWhiteList' = cosmosWhiteList \cup {t}
    /\ controlledBridgeTokens' = [controlledBridgeTokens EXCEPT ![SymbolOf[t]] = t]
    /\ lowerToUpperTokens' = [lowerToUpperTokens EXCEPT ![Lower[SymbolOf[t]]] = SymbolOf[t]]
    /\ UNCHANGED <<ethWhiteList, lockedTokenList, bankPaused, blocklist, fundVars>>

togglePause ==
    /\ bankPaused' = ~bankPaused
    /\ UNCHANGED <<listVars, blocklist, fundVars>>

setBlocklist(us) ==
    /\ blocklist' = us
    /\ UNCHANGED <<listVars, bankPaused, fundVars>>

-----------------------------------------------------------------------------
(***************************************************************************)
(* Called by CosmosBridge.  createNewBridgeToken gives the lists after     *)
(* deploying a token; unlock and mintBridgeTokens pay asset t under them.  *)
(***************************************************************************)
Lists ==
    [ltu |-> lowerToUpperTokens, tokens |-> controlledBridgeTokens, white |-> cosmosWhiteList]

createNewBridgeToken(s) ==
    [ltu    |-> [lowerToUpperTokens EXCEPT ![Lower[s]] = s],
     tokens |-> [controlledBridgeTokens EXCEPT ![s] = Deployed(s)],
     white  |-> cosmosWhiteList \cup {Deployed(s)}]

MayPay(u) == ~bankPaused /\ u \notin blocklist

unlockedAsset(lists, symbol) == lockedTokenList[safeLowerToUpperTokens(lists.ltu, symbol)]
mintedToken(lists, symbol) == lists.tokens[safeLowerToUpperTokens(lists.ltu, symbol)]

unlock(t, n) ==
    /\ n <= held[t]
    /\ held' = [held EXCEPT ![t] = @ - n]
    /\ UNCHANGED minted

mintBridgeTokens(t, n) ==
    /\ t # Zero
    /\ minted' = [minted EXCEPT ![t] = @ + n]
    /\ UNCHANGED held

-----------------------------------------------------------------------------
BankInit ==
    /\ ethWhiteList = {Zero}
    /\ lockedTokenList = [s \in Symbols |-> Zero]
    /\ lowerToUpperTokens = [s \in Symbols |-> IF s \in {"eth", "efury"} THEN s ELSE Unset]
    /\ controlledBridgeTokens = [s \in Symbols |-> Zero]
    /\ cosmosWhiteList = {}    \* address(0) is in it too, but has no symbol() to call
    /\ bankPaused = FALSE
    /\ blocklist = {}
    /\ lockBurnNonce = 0
    /\ held = GenesisHeld
    /\ minted = [t \in BridgeTokens |-> 0]

BankUser ==
    \E u \in Users, r \in Recipients :
        \/ \E t \in Assets, n \in 0 .. MaxHeld : lock(u, r, t, n)
        \/ \E t \in BridgeTokens : \E n \in 0 .. minted[t] : burn(u, r, t, n)

BankAdmin ==
    \/ \E t \in Tokens, b \in BOOLEAN : updateEthWhiteList(t, b)
    \/ \E t \in Tokens : bulkWhitelistUpdateLimits(t)
    \/ \E t \in Existing : addExistingBridgeToken(t)
    \/ togglePause
    \/ \E us \in SUBSET Users : setBlocklist(us)

BankNext == BankUser \/ BankAdmin

BankTypeOK ==
    /\ ethWhiteList \subseteq Assets
    /\ lockedTokenList \in [Symbols -> Assets]
    /\ lowerToUpperTokens \in [Symbols -> Symbols \cup {Unset}]
    /\ controlledBridgeTokens \in [Symbols -> BridgeTokens \cup {Zero}]
    /\ cosmosWhiteList \subseteq BridgeTokens
    /\ bankPaused \in BOOLEAN
    /\ blocklist \subseteq Users
    /\ lockBurnNonce \in Nat
    /\ held \in [Assets -> Nat]
    /\ minted \in [BridgeTokens -> Nat]

\* The contracts that the two lists admit or that were locked, and their symbols.
Admitted == ethWhiteList \cup cosmosWhiteList \cup {lockedTokenList[s] : s \in Symbols}
ContractSymbol(u) == IF u \in Assets \cup Existing THEN AssetSymbol(u) ELSE u[2]

\* No two admitted symbols have the lower case l.
OneSymbol(l) ==
    \A u, w \in Admitted :
        Lower[ContractSymbol(u)] = l /\ Lower[ContractSymbol(w)] = l
            => ContractSymbol(u) = ContractSymbol(w)

\* What has been locked can be paid back: the lower-case symbol that a burn
\* claim carries leads through lowerToUpperTokens and lockedTokenList to the
\* asset held, whatever is whitelisted, removed, deployed or locked meanwhile,
\* unless another admitted contract has the same symbol in lower case.
\* updateEthWhiteList and bulkWhitelistUpdateLimits do not keep such a contract
\* out, and the two then share an entry.
LockedIsRetrievable ==
    \A t \in Assets :
        /\ held[t] > 0
        /\ \A u \in Admitted : Lower[ContractSymbol(u)] = Lower[AssetSymbol(t)] => u = t
        => lockedTokenList[safeLowerToUpperTokens(lowerToUpperTokens, Lower[AssetSymbol(t)])] = t
=============================================================================
