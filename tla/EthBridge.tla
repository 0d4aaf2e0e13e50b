----------------------------- MODULE EthBridge -----------------------------
(***************************************************************************)
(* x/ethbridge on top of x/oracle: validators claim what they saw on       *)
(* Ethereum; the claim that decides a prophecy mints and pays in the same  *)
(* transaction.  Users lock native coins or burn pegged coins, paying a    *)
(* ceth fee, and the emitted event asks Ethereum to pay them there.        *)
(*                                                                         *)
(* A transaction whose handler returns an error or panics is reverted, so  *)
(* a handler that would fail is an action that is not enabled: a claim     *)
(* whose payment fails does not even leave its vote.                       *)
(***************************************************************************)
EXTENDS Oracle, Functions

CONSTANTS
    Accounts,       \* account addresses, the bridge's module account among them
    Module,         \* the ethbridge module account
    Blocked,        \* accounts the bank refuses to pay: the module accounts
    NoAccount,      \* no ceth receiver is set
    Denoms,
    Ceth,           \* the denom of pegged ether
    Pegged,         \* Pegged[s]: the symbol s with the pegged coin prefix
    EthReceivers,   \* Ethereum addresses
    Fees,           \* ceth amounts of lock and burn messages
    GenesisBalance, \* [Accounts \X Denoms -> Nat]
    GenesisSupply,  \* [Denoms -> Nat]
    GenesisPeggy    \* the peggy token list of the genesis state

\* A content is receiver, amount, symbol and claim type.  The decoder accepts
\* any claim type; only LOCK and BURN can be paid.
ClaimTypes == {"LOCK", "BURN", "UNSPECIFIED"}

\* ProcessSuccessfulClaim mints the pegged coin for a lock, the coin itself
\* for a burn.
ClaimDenom(c) == IF c.claimType = "LOCK" THEN Pegged[c.symbol] ELSE c.symbol

ClaimAmount(c) == c.amount

\* The denoms that begin with the pegged coin prefix.
PeggedDenoms == {Pegged[s] : s \in DOMAIN Pegged}

ASSUME ContentAssumption ==
    \A c \in Claims :
        /\ c.receiver \in Accounts
        /\ c.amount \in Nat
        /\ c.claimType \in ClaimTypes
        /\ ClaimDenom(c) \in Denoms

ASSUME AccountAssumption ==
    /\ IsFiniteSet(Accounts)
    /\ Module \in Blocked
    /\ Blocked \subseteq Accounts
    /\ NoAccount \notin Accounts
    /\ Ceth \in Denoms
    /\ Fees \subseteq Nat \ {0}

ASSUME GenesisAssumption ==
    /\ GenesisBalance \in [Accounts \X Denoms -> Nat]
    /\ GenesisSupply \in [Denoms -> Nat]
    /\ GenesisPeggy \subseteq Denoms
    /\ \A d \in Denoms \ {Ceth} : GenesisBalance[<<Module, d>>] = 0
    /\ \A d \in Denoms :
           GenesisSupply[d] >= SumFunctionOnSet([a \in Accounts |-> GenesisBalance[<<a, d>>]], Accounts)

VARIABLES
    balance,        \* external: x/bank
    supply,         \* external: x/bank
    peggyTokens,    \* tokens that have been minted for a lock on Ethereum
    cethReceiver,   \* where lock and burn fees go, or NoAccount
    paused,
    blacklist,      \* Ethereum addresses that may not be sent to
    released        \* per denom, the total of the lock and burn events emitted

bankVars == <<balance, supply>>
adminVars == <<cethReceiver, paused, blacklist>>
bridgeVars == <<oracleVars, bankVars, adminVars, peggyTokens, released>>

-----------------------------------------------------------------------------
(***************************************************************************)
(* External: x/bank.                                                       *)
(***************************************************************************)

\* Move n of d; from and to may be the same account.
Move(b, from, to, d, n) ==
    [x \in Accounts \X Denoms |->
        b[x] - (IF x = <<from, d>> THEN n ELSE 0) + (IF x = <<to, d>> THEN n ELSE 0)]

\* MsgSend between users.
BankSend(from, to, d, n) ==
    /\ from \notin Blocked /\ to \notin Blocked
    /\ balance[<<from, d>>] >= n
    /\ balance' = Move(balance, from, to, d, n)
    /\ UNCHANGED <<oracleVars, supply, adminVars, peggyTokens, released>>

-----------------------------------------------------------------------------
(***************************************************************************)
(* Claims.                                                                 *)
(***************************************************************************)

\* The payment goes through: a known claim type, a receiver the bank pays.
Deliverable(c) == c.claimType \in {"LOCK", "BURN"} /\ c.receiver \notin Blocked

\* Mutant: coins are minted to the module account and stay there.
ProcessSuccessfulClaimUnsent(c) ==
    /\ Deliverable(c)
    /\ peggyTokens' = IF c.claimType = "LOCK" THEN peggyTokens \cup {ClaimDenom(c)}
                      ELSE peggyTokens
    /\ supply' = [supply EXCEPT ![ClaimDenom(c)] = @ + c.amount]
    /\ balance' = [balance EXCEPT ![<<Module, ClaimDenom(c)>>] = @ + c.amount]

\* Mutant: a payment that fails is logged and the vote is kept.
ProcessSuccessfulClaimSkips(c) ==
    IF Deliverable(c)
    THEN /\ peggyTokens' = IF c.claimType = "LOCK" THEN peggyTokens \cup {ClaimDenom(c)}
                           ELSE peggyTokens
         /\ supply' = [supply EXCEPT ![ClaimDenom(c)] = @ + c.amount]
         /\ balance' = [balance EXCEPT ![<<c.receiver, ClaimDenom(c)>>] = @ + c.amount]
    ELSE UNCHANGED <<bankVars, peggyTokens>>

\* Mint to the module account and send on to the receiver.
ProcessSuccessfulClaim(c) ==
    /\ Deliverable(c)
    /\ peggyTokens' = IF c.claimType = "LOCK" THEN peggyTokens \cup {ClaimDenom(c)}
                      ELSE peggyTokens
    /\ supply' = [supply EXCEPT ![ClaimDenom(c)] = @ + c.amount]
    /\ balance' = [balance EXCEPT ![<<c.receiver, ClaimDenom(c)>>] = @ + c.amount]

\* Mutant: the content of this claim is paid, not the prophecy's final claim,
\* and whenever the prophecy is no longer pending.
CreateEthBridgeClaimPaysOwn(v, id, c) ==
    /\ ProcessClaim(v, id, c)
    /\ IF prophecy'[id].status.text # "PENDING"
       THEN ProcessSuccessfulClaim(c)
       ELSE UNCHANGED <<bankVars, peggyTokens>>
    /\ UNCHANGED <<adminVars, released>>

\* The claim, and the payment when it decides the prophecy.
CreateEthBridgeClaim(v, id, c) ==
    /\ ProcessClaim(v, id, c)
    /\ IF prophecy'[id].status.text = "SUCCESS"
       THEN ProcessSuccessfulClaim(prophecy'[id].status.finalClaim)
       ELSE UNCHANGED <<bankVars, peggyTokens>>
    /\ UNCHANGED <<adminVars, released>>

-----------------------------------------------------------------------------
(***************************************************************************)
(* Lock and burn.                                                          *)
(***************************************************************************)

FeeAccount == IF cethReceiver = NoAccount THEN Module ELSE cethReceiver
PayFee(sender, fee) == Move(balance, sender, FeeAccount, Ceth, fee)

\* Mutant: the coins are taken but not burned.
TakeOnly(sender, d, n, fee) ==
    LET b == PayFee(sender, fee) IN
    /\ balance[<<sender, Ceth>>] >= fee
    /\ b[<<sender, d>>] >= n
    /\ balance' = Move(b, sender, Module, d, n)
    /\ UNCHANGED supply
    /\ released' = [released EXCEPT ![d] = @ + n]

\* The fee is paid, the amount goes to the module account and is burned
\* there, and the event is emitted.
TakeAndBurn(sender, d, n, fee) ==
    LET b == PayFee(sender, fee) IN
    /\ balance[<<sender, Ceth>>] >= fee
    /\ b[<<sender, d>>] >= n
    /\ balance' = [b EXCEPT ![<<sender, d>>] = @ - n]
    /\ supply' = [supply EXCEPT ![d] = @ - n]
    /\ released' = [released EXCEPT ![d] = @ + n]

\* With no receiver set, fee and amount are one list of coins, which must not
\* name a denom twice: ProcessBurn adds the amounts up, ProcessLock does not.
Lock(sender, to, d, n, fee) ==
    /\ ~paused
    /\ d \notin peggyTokens
    /\ to \notin blacklist
    /\ d = Ceth => cethReceiver # NoAccount
    /\ TakeAndBurn(sender, d, n, fee)
    /\ UNCHANGED <<oracleVars, adminVars, peggyTokens>>

Burn(sender, to, d, n, fee) ==
    /\ ~paused
    /\ d \in PeggedDenoms
    /\ d \in peggyTokens
    /\ to \notin blacklist
    /\ TakeAndBurn(sender, d, n, fee)
    /\ UNCHANGED <<oracleVars, adminVars, peggyTokens>>

-----------------------------------------------------------------------------
(***************************************************************************)
(* Messages of the admin accounts.                                         *)
(***************************************************************************)
UpdateCethReceiverAccount(a) ==
    /\ cethReceiver' = a
    /\ UNCHANGED <<oracleVars, bankVars, paused, blacklist, peggyTokens, released>>

RescueCeth(to, n) ==
    /\ to \notin Blocked
    /\ balance[<<Module, Ceth>>] >= n
    /\ balance' = Move(balance, Module, to, Ceth, n)
    /\ UNCHANGED <<oracleVars, supply, adminVars, peggyTokens, released>>

SetPause(b) ==
    /\ paused' = b
    /\ UNCHANGED <<oracleVars, bankVars, cethReceiver, blacklist, peggyTokens, released>>

\* The message replaces the whole list.
SetBlacklist(addrs) ==
    /\ blacklist' = addrs
    /\ UNCHANGED <<oracleVars, bankVars, cethReceiver, paused, peggyTokens, released>>

\* UpdateWhiteListValidator, and staking.
OracleStep ==
    /\ Staking \/ \E v \in Validators : AddOracleWhiteList(v) \/ RemoveOracleWhiteList(v)
    /\ UNCHANGED <<bankVars, adminVars, peggyTokens, released>>

-----------------------------------------------------------------------------

BridgeInit ==
    /\ Init
    /\ balance = GenesisBalance
    /\ supply = GenesisSupply
    /\ peggyTokens = GenesisPeggy
    /\ cethReceiver \in Accounts \cup {NoAccount}
    /\ paused = FALSE
    /\ blacklist = {}
    /\ released = [d \in Denoms |-> 0]

EthClaim == \E v \in Validators, id \in Prophecies, c \in Claims : CreateEthBridgeClaim(v, id, c)

UserStep ==
    \E a \in Accounts \ Blocked, d \in Denoms : \E n \in 1 .. balance[<<a, d>>] :
        \/ \E to \in EthReceivers, fee \in Fees : Lock(a, to, d, n, fee) \/ Burn(a, to, d, n, fee)
        \/ \E b \in Accounts : BankSend(a, b, d, n)

AdminStep ==
    \/ \E a \in Accounts : UpdateCethReceiverAccount(a)
    \/ \E a \in Accounts : \E n \in 1 .. balance[<<Module, Ceth>>] : RescueCeth(a, n)
    \/ \E b \in BOOLEAN : SetPause(b)
    \/ \E s \in SUBSET EthReceivers : SetBlacklist(s)

BridgeNext == EthClaim \/ UserStep \/ AdminStep \/ OracleStep

BridgeSpec == BridgeInit /\ [][BridgeNext]_bridgeVars

-----------------------------------------------------------------------------
(***************************************************************************)
(* Properties.                                                             *)
(***************************************************************************)

\* Balances, supply and the bridge's settings are well formed.
BridgeTypeOK ==
    /\ TypeOK
    /\ balance \in [Accounts \X Denoms -> Nat]
    /\ supply \in [Denoms -> Int]
    /\ released \in [Denoms -> Nat]
    /\ peggyTokens \in SUBSET Denoms
    /\ cethReceiver \in Accounts \cup {NoAccount}
    /\ paused \in BOOLEAN
    /\ blacklist \in SUBSET EthReceivers

Ledger == INSTANCE BridgeLedger WITH
    Events <- Prophecies, Payouts <- Claims, Unpaid <- NoClaim,
    PayoutDenom <- ClaimDenom, PayoutAmount <- ClaimAmount,
    paid <- [id \in Prophecies |-> prophecy[id].status.finalClaim]

\* The bridge implements the ledger: each prophecy is paid once, with its final
\* claim, in the step that decides it; nothing else mints, and coins are burned
\* only against an emitted event.
ImplementsLedger == Ledger!Spec

\* The module account never keeps anything but ceth fees: what is minted is
\* passed on and what is taken is burned within the transaction.
ModuleHoldsOnlyFees ==
    \A d \in Denoms \ {Ceth} : balance[<<Module, d>>] = 0

\* A prophecy that succeeded with a claim type or receiver that cannot be paid
\* does not exist: the vote that would decide it is reverted with the payment.
SuccessIsPayable ==
    \A id \in Prophecies :
        prophecy[id].status.text = "SUCCESS" => Deliverable(prophecy[id].status.finalClaim)

=============================================================================
