---------------------------- MODULE CosmosBridge ----------------------------
(***************************************************************************)
(* The CosmosBridge contract with the contracts it inherits: Valset (the   *)
(* validators and their powers), Oracle (votes on prophecies) and the      *)
(* payment of a prophecy by BridgeBank in the transaction of the vote that *)
(* reaches the threshold.                                                  *)
(*                                                                         *)
(* The mappings of Valset are indexed by valset version, and only the      *)
(* current version is read or written; resetValset starts a new version,   *)
(* which is empty.  The model keeps the current version only.              *)
(***************************************************************************)
EXTENDS BridgeValidators, BridgeBank, Functions

CONSTANTS
    EthProphecies,      \* [id, type, symbol, receiver, amount]: what is hashed to the id
    Threshold,          \* consensusThreshold, per cent
    InitialPowers,      \* powers given to initialize
    MaxCount            \* bound: validatorCount, which re-adding a validator raises

ASSUME ThresholdAssumption == Threshold \in 1 .. 100
ASSUME InitialPowersAssumption == InitialPowers \in [Validators -> 0 .. MaxPower]
ASSUME ProphecyAssumption ==
    \A p \in EthProphecies :
        /\ p.type \in {"Burn", "Lock"} /\ p.symbol \in Symbols
        /\ p.receiver \in Users /\ p.amount \in Nat

VARIABLES
    active,             \* validators[_][currentValsetVersion]
    ethPower,           \* powers[_][currentValsetVersion]
    validatorCount,
    totalPower,
    hasMadeClaim,       \* per prophecy, the validators that voted
    signedPower,        \* oracleClaimValidators: power that voted, at the time
    completed           \* per prophecy, the assets paid by LogProphecyCompleted

valsetVars == <<active, ethPower, validatorCount, totalPower>>
voteVars == <<hasMadeClaim, signedPower, completed>>
contractVars == <<bridgeBankVars, valsetVars, voteVars>>

-----------------------------------------------------------------------------
(* Valset; SafeMath reverts instead of wrapping around. *)

addValidator(v, n) ==
    /\ validatorCount' = validatorCount + 1
    /\ totalPower' = totalPower + n
    /\ active' = active \cup {v}
    /\ ethPower' = [ethPower EXCEPT ![v] = n]
    /\ UNCHANGED <<bridgeBankVars, voteVars>>

\* Mutant: the prior power stays in the total.
updateValidatorPowerAdds(v, n) ==
    /\ v \in active
    /\ totalPower' = totalPower + n
    /\ ethPower' = [ethPower EXCEPT ![v] = n]
    /\ UNCHANGED <<active, validatorCount, bridgeBankVars, voteVars>>

updateValidatorPower(v, n) ==
    /\ v \in active
    /\ ethPower[v] <= totalPower
    /\ totalPower' = totalPower - ethPower[v] + n
    /\ ethPower' = [ethPower EXCEPT ![v] = n]
    /\ UNCHANGED <<active, validatorCount, bridgeBankVars, voteVars>>

removeValidator(v) ==
    /\ v \in active
    /\ validatorCount > 0 /\ ethPower[v] <= totalPower
    /\ validatorCount' = validatorCount - 1
    /\ totalPower' = totalPower - ethPower[v]
    /\ active' = active \ {v}
    /\ ethPower' = [ethPower EXCEPT ![v] = 0]
    /\ UNCHANGED <<bridgeBankVars, voteVars>>

\* The new set lists each validator once.
updateValset(powers) ==
    /\ active' = DOMAIN powers
    /\ ethPower' = [v \in Validators |-> IF v \in DOMAIN powers THEN powers[v] ELSE 0]
    /\ validatorCount' = Cardinality(DOMAIN powers)
    /\ totalPower' = SumFunctionOnSet(powers, DOMAIN powers)
    /\ UNCHANGED <<bridgeBankVars, voteVars>>

\* Any earlier version passes the check (version 0 always does), but it is the
\* current version's entries that are deleted.
recoverGas(v) ==
    /\ active' = active \ {v}
    /\ ethPower' = [ethPower EXCEPT ![v] = 0]
    /\ UNCHANGED <<validatorCount, totalPower, bridgeBankVars, voteVars>>

-----------------------------------------------------------------------------
(* Oracle *)

\* getProphecyThreshold
Reached(signed) == 100 * signed >= Threshold * totalPower

-----------------------------------------------------------------------------
(* CosmosBridge *)

\* Mutant: a burn claim for a symbol never locked is accepted.
MayOpenAny(p, s) == TRUE

\* The check on the first claim of a prophecy, for the resolved symbol s.
MayOpen(p, s) == p.type = "Burn" => lockedTokenList[s] # Zero \/ s = "eth"

\* Mutant: a payment that fails does not revert the vote.
completeIfPossible(p, lists) ==
    LET t == IF p.type = "Burn" THEN unlockedAsset(lists, p.symbol)
             ELSE mintedToken(lists, p.symbol)
    IN IF MayPay(p.receiver)
       THEN /\ IF p.type = "Burn" THEN unlock(t, p.amount) ELSE mintBridgeTokens(t, p.amount)
            /\ completed' = [completed EXCEPT ![p] = Append(@, t)]
       ELSE UNCHANGED <<held, minted, completed>>

completeProphecyClaim(p, lists) ==
    LET t == IF p.type = "Burn" THEN unlockedAsset(lists, p.symbol)
             ELSE mintedToken(lists, p.symbol)
    IN /\ MayPay(p.receiver)
       /\ IF p.type = "Burn" THEN unlock(t, p.amount) ELSE mintBridgeTokens(t, p.amount)
       /\ completed' = [completed EXCEPT ![p] = Append(@, t)]

\* Mutant: the check for a completed prophecy is gone.
newProphecyClaimAgain(v, p) ==
    LET s == safeLowerToUpperTokens(lowerToUpperTokens, p.symbol)
        first == signedPower[p] = 0
        lists == IF first /\ p.type = "Lock" /\ controlledBridgeTokens[s] = Zero
                 THEN createNewBridgeToken(s) ELSE Lists
        signed == signedPower[p] + ethPower[v]
    IN /\ v \in active
       /\ first => MayOpen(p, s)
       /\ v \notin hasMadeClaim[p]
       /\ hasMadeClaim' = [hasMadeClaim EXCEPT ![p] = @ \cup {v}]
       /\ signedPower' = [signedPower EXCEPT ![p] = signed]
       /\ lowerToUpperTokens' = lists.ltu
       /\ controlledBridgeTokens' = lists.tokens
       /\ cosmosWhiteList' = lists.white
       /\ IF Reached(signed) THEN completeProphecyClaim(p, lists)
          ELSE UNCHANGED <<held, minted, completed>>
       /\ UNCHANGED <<ethWhiteList, lockedTokenList, bankPaused, blocklist, lockBurnNonce,
                      valsetVars>>

newProphecyClaim(v, p) ==
    LET s == safeLowerToUpperTokens(lowerToUpperTokens, p.symbol)
        first == signedPower[p] = 0
        lists == IF first /\ p.type = "Lock" /\ controlledBridgeTokens[s] = Zero
                 THEN createNewBridgeToken(s) ELSE Lists
        signed == signedPower[p] + ethPower[v]
    IN /\ v \in active
       /\ ~Reached(signedPower[p])
       /\ first => MayOpen(p, s)
       /\ v \notin hasMadeClaim[p]
       /\ hasMadeClaim' = [hasMadeClaim EXCEPT ![p] = @ \cup {v}]
       /\ signedPower' = [signedPower EXCEPT ![p] = signed]
       /\ lowerToUpperTokens' = lists.ltu
       /\ controlledBridgeTokens' = lists.tokens
       /\ cosmosWhiteList' = lists.white
       /\ IF Reached(signed) THEN completeProphecyClaim(p, lists)
          ELSE UNCHANGED <<held, minted, completed>>
       /\ UNCHANGED <<ethWhiteList, lockedTokenList, bankPaused, blocklist, lockBurnNonce,
                      valsetVars>>

-----------------------------------------------------------------------------
ContractInit ==
    /\ BankInit
    /\ active = Validators
    /\ ethPower = InitialPowers
    /\ validatorCount = Cardinality(Validators)
    /\ totalPower = SumFunctionOnSet(InitialPowers, Validators)
    /\ hasMadeClaim = [p \in EthProphecies |-> {}]
    /\ signedPower = [p \in EthProphecies |-> 0]
    /\ completed = [p \in EthProphecies |-> <<>>]

Vote == \E v \in Validators, p \in EthProphecies : newProphecyClaim(v, p)
Bank == BankNext /\ UNCHANGED <<valsetVars, voteVars>>

Powers == 0 .. MaxPower

\* Everything the operator can do to the validator set.
ManageValset ==
    \/ \E v \in Validators, n \in Powers : validatorCount < MaxCount /\ addValidator(v, n)
    \/ \E v \in Validators, n \in Powers : updateValidatorPower(v, n)
    \/ \E v \in Validators : removeValidator(v)
    \/ \E vs \in SUBSET Validators \ {{}} : \E powers \in [vs -> Powers] : updateValset(powers)
    \/ \E v \in Validators : recoverGas(v)

OperatorNext == Vote \/ ManageValset
OperatorSpec == ContractInit /\ [][OperatorNext]_contractVars

\* The operator lets the total power grow only while no prophecy has been paid.
Steady ==
    /\ ManageValset
    /\ totalPower' > totalPower => \A p \in EthProphecies : completed[p] = <<>>

SteadyNext == Vote \/ Bank \/ Steady
SteadySpec == ContractInit /\ [][SteadyNext]_contractVars

-----------------------------------------------------------------------------
(* Properties *)

\* The types of the contracts' storage: no payment takes more than the bank
\* holds, no burn more than a bridge token's supply (unlockFunds, SafeMath).
ContractTypeOK ==
    /\ BankTypeOK
    /\ active \subseteq Validators
    /\ ethPower \in [Validators -> Nat]
    /\ validatorCount \in Nat
    /\ totalPower \in Nat
    /\ hasMadeClaim \in [EthProphecies -> SUBSET Validators]
    /\ signedPower \in [EthProphecies -> Nat]
    /\ completed \in [EthProphecies -> Seq(Assets \cup BridgeTokens)]

\* validatorCount and totalPower never fall short of the active validators, and
\* the total power is exact while the count is.  They are wrong together, by what
\* addValidator of an active validator and recoverGas leave behind, until
\* updateValset starts anew; every other operation, which adjusts them by
\* differences, keeps them as right as they were.
TotalsCover ==
    /\ \A v \in Validators \ active : ethPower[v] = 0
    /\ Cardinality(active) <= validatorCount
    /\ SumFunctionOnSet(ethPower, active) <= totalPower
    /\ validatorCount = Cardinality(active) => totalPower = SumFunctionOnSet(ethPower, active)
LeftBehind == validatorCount - Cardinality(active)
DriftsOnlyBy ==
    LeftBehind' > LeftBehind =>
        \E v \in active : recoverGas(v) \/ \E n \in Powers : addValidator(v, n)
TotalsMatch == [][TotalsCover' /\ DriftsOnlyBy]_contractVars

\* A prophecy is paid at most once.  No flag says that it was paid:
\* newProphecyClaim compares the power signed so far with the total power.
PaidOnce == \A p \in EthProphecies : Len(completed[p]) <= 1

\* A burn prophecy is paid in its own asset: ether only for "eth", although
\* lockedTokenList of an unknown symbol is the address that stands for ether
\* and only the first claim of a prophecy is checked against that.  Only two
\* admitted contracts whose symbols differ in nothing but case can break it: the
\* second takes the first one's entry in lowerToUpperTokens between two claims.
PaidInOwnAsset ==
    \A p \in EthProphecies : \A i \in DOMAIN completed[p] :
        p.type = "Burn" /\ OneSymbol(Lower[p.symbol])
            => Lower[AssetSymbol(completed[p][i])] = Lower[p.symbol]

\* A prophecy that has the power the threshold asks for has been paid: the
\* vote that gives it that power reverts when the payment does.  Otherwise it
\* would stay unpaid, for newProphecyClaim refuses it as completed.
EnoughMeansPaid ==
    \A p \in EthProphecies : signedPower[p] > 0 /\ Reached(signedPower[p]) => completed[p] # <<>>

Payable(p) ==
    /\ p.receiver \notin blocklist
    /\ IF p.type = "Lock"
       THEN signedPower[p] > 0 => mintedToken(Lists, p.symbol) # Zero
       ELSE LET t == unlockedAsset(Lists, p.symbol) IN
              held[t] >= p.amount /\ Lower[AssetSymbol(t)] = Lower[p.symbol]
=============================================================================
