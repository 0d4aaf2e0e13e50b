---------------------------- MODULE RelayerProofs ----------------------------
(***************************************************************************)
(* The bridge from end to end: every step of Relayer keeps what the        *)
(* goroutines rely on, whichever side of the bridge it is a step of, and   *)
(* nothing is created or lost on the way across.                           *)
(*                                                                         *)
(* What concerns Ethereum's logs is in EthereumSubProofs, what concerns    *)
(* Furynet's messages and the contracts in CosmosSubProofs.                *)
(***************************************************************************)
EXTENDS CosmosSubProofs, EthereumSubProofs

\* The time that a leaf may take.
USE SMTT(30)

\* A lock or burn on Furynet touches neither the prophecies nor the relayers.
LEMMA SendIsQuiet ==
    ASSUME NEW m \in FuryMessages, Send(m)
    PROVE  OnlySub /\ UNCHANGED <<heads, sub, cursor, since, txPool, dropped>>
BY Zenon DEF Send, Lock, Burn, OnlySub, relaySide, ethVars, dbVars, poolVars, oracleVars

\* Every step of the bridge keeps the invariant of EthereumSub's side.
LEMMA RelayerKeepsSub ==
    ASSUME SubInv, [RelayerNext]_vars
    PROVE  SubInv'
<1>1. CASE Ethereum /\ LockAndBurn
    BY Zenon, <1>1, EthereumKeeps
<1>2. CASE SubNext /\ UNCHANGED furySide
    BY Zenon, <1>2, SubNextKeeps
<1>3. CASE FuryNext /\ UNCHANGED ethereumSide
    <2>1. OnlySub /\ UNCHANGED <<heads, sub, cursor, since, txPool, dropped>>
        BY Zenon, <1>3 DEF ethereumSide, relaySide, ethVars, dbVars, poolVars, bridgeVars, oracleVars, OnlySub
    <2> QED BY Zenon, <2>1, SubUnchanged
<1>4. CASE \E m \in FuryMessages : Send(m)
    BY Zenon, <1>4, SendIsQuiet, SubUnchanged
<1>5. CASE TogglePause
    <2>1. OnlySub /\ UNCHANGED <<heads, sub, cursor, since, txPool, dropped>>
        BY Zenon, <1>5 DEF TogglePause, ethereumSide, relaySide, ethVars, dbVars, poolVars, bridgeVars,
                    oracleVars, OnlySub
    <2> QED BY Zenon, <2>1, SubUnchanged
<1>6. ASSUME NEW v \in Validators, StartRelayer(v) PROVE SubInv'
    BY Zenon, <1>6, StartKeeps DEF StartRelayer
<1>7. ASSUME NEW v \in Validators, Crash(v) PROVE SubInv'
    BY Zenon, <1>7, StopKeeps DEF Crash
<1>8. CASE UNCHANGED vars
    <2>1. OnlySub /\ UNCHANGED <<heads, sub, cursor, since, txPool, dropped>>
        BY Zenon, <1>8 DEF vars, ethereumSide, relaySide, ethVars, dbVars, poolVars, bridgeVars, oracleVars,
                    OnlySub
    <2> QED BY Zenon, <2>1, SubUnchanged
<1> QED BY Zenon, <1>1, <1>2, <1>3, <1>4, <1>5, <1>6, <1>7, <1>8 DEF RelayerNext

\* A validator's claim names an event of a block that can no longer be replaced.
THEOREM ClaimsStayFinal == RelayerSpec => []ClaimsAreFinal
<1>1. RelayerInit => SubInv
    BY Zenon, SubStart DEF RelayerInit
<1>2. SubInv /\ [RelayerNext]_vars => SubInv'
    BY Zenon, RelayerKeepsSub
<1>3. SubInv => ClaimsAreFinal
    BY Zenon, SubInvMeans
<1> QED BY <1>1, <1>2, <1>3, PTL DEF RelayerSpec

\* Nothing that EthereumSub has read and saved its cursor past goes unclaimed,
\* unless it was in a transaction that failed.
THEOREM CursorsPassNothing == RelayerSpec => []BehindCursorHandled
<1>1. RelayerInit => SubInv
    BY Zenon, SubStart DEF RelayerInit
<1>2. SubInv /\ [RelayerNext]_vars => SubInv'
    BY Zenon, RelayerKeepsSub
<1>3. SubInv => BehindCursorHandled
    BY Zenon, SubInvMeans
<1> QED BY <1>1, <1>2, <1>3, PTL DEF RelayerSpec

-----------------------------------------------------------------------------
(***************************************************************************)
(* Across the bridge.  Ether and fury are conserved: no step changes what  *)
(* the bank has beyond ceth, locks that are not paid and burns that are    *)
(* not paid, nor the sum of all the fury there is.                         *)
(***************************************************************************)
LogsOfType(chain, type) == {e \in LogsOf(chain) : e.type = type}
Amounts == [p \in EthProphecies |-> p.amount]
InFlight(type) == SumFunctionOnSet(Amounts, Unpaid(type))
Minted == SumFunctionOnSet(minted, DOMAIN minted)

SpareEther == held[Zero] - supply[Ceth] - (Logged(ethChain, "LOCK") - PaidValue(Ceth)) - InFlight("Burn")
AllFury == supply["fury"] + Minted + (Logged(ethChain, "BURN") - PaidValue("fury")) + InFlight("Lock")

\* The value of logs is a natural number.
LEMMA LoggedIs ==
    ASSUME NEW chain \in Seq(SUBSET LogEvents), NEW type
    PROVE  /\ Logged(chain, type) = Value(LogsOfType(chain, type))
           /\ Logged(chain, type) \in Int
<1>1. LogsOfType(chain, type) \in SUBSET LogEvents
    BY DEF LogsOfType, LogsOf
<1>2. Logged(chain, type) = Value(LogsOfType(chain, type))
    BY Zenon DEF Logged, Value, Values, LogsOfType
<1> QED BY <1>1, <1>2, ValueIs

\* What is in flight is finite and has a value.
LEMMA InFlightIs ==
    ASSUME BridgeInv, NEW type
    PROVE  /\ IsFiniteSet(Unpaid(type)) /\ InFlight(type) \in Int
           /\ \A p \in Unpaid(type) : Amounts[p] \in Int
<1> DEFINE h == [m \in FuryMessages |-> ClaimOf(m)]
           R == {h[m] : m \in FuryMessages}
<1>1. Unpaid(type) \subseteq EthProphecies /\ Unpaid(type) \subseteq {ClaimOf(m) : m \in FuryMessages}
    BY Zenon, MessagesAreApart, UnpaidTypes DEF BridgeInv, FuryInv
<1>2. IsFiniteSet(R)
    <2> HIDE DEF h
    <2> QED BY Zenon, FiniteAssumption, FiniteImage
<1>3. {ClaimOf(m) : m \in FuryMessages} = R
    BY Zenon
<1>4. IsFiniteSet(Unpaid(type))
    BY Zenon, <1>1, <1>2, <1>3, FS_Subset
<1>5. \A p \in Unpaid(type) : Amounts[p] \in Int
    BY <1>1, ProphecyAssumption DEF Amounts
<1> QED BY Zenon, <1>4, <1>5, SumInt DEF InFlight

\* The terms of the two sums are integers.
LEMMA TermsAre ==
    ASSUME SubInv, BridgeInv, supply \in [Denoms -> Int]
    PROVE  /\ held \in [Assets -> Int] /\ Zero \in Assets
           /\ minted \in [BridgeTokens -> Int] /\ IsFiniteSet(BridgeTokens) /\ Minted \in Int
           /\ supply[Ceth] \in Int /\ supply["fury"] \in Int
           /\ \A d \in Denoms : PaidValue(d) \in Int
           /\ \A type : Logged(ethChain, type) \in Int /\ InFlight(type) \in Int
<1>1. held \in [Assets -> Int] /\ minted \in [BridgeTokens -> Int]
    BY Zenon DEF BridgeInv, ContractsOK, FundsOK
<1>2. Zero \in Assets
    BY Zenon DEF Assets
<1>3. IsFiniteSet(BridgeTokens)
    <2> DEFINE h == [s \in Symbols |-> Deployed(s)]
               R == {h[s] : s \in Symbols}
    <2>1. IsFiniteSet(R)
        <3> HIDE DEF h
        <3> QED BY Zenon, FiniteAssumption, FiniteImage
    <2>2. BridgeTokens = R \cup Existing
        BY Zenon DEF BridgeTokens
    <2> QED BY Zenon, <2>1, <2>2, FiniteAssumption, FS_Union
<1>4. Minted \in Int
    BY Zenon, <1>1, <1>3, SumInt DEF Minted
<1>5. supply[Ceth] \in Int /\ supply["fury"] \in Int
    BY Zenon, AccountAssumption, CrossingAssumption
<1>6. \A d \in Denoms : PaidValue(d) \in Int
    BY ValueIs DEF PaidValue, PaidEvents, FixedEvents
<1>7. \A type : Logged(ethChain, type) \in Int
    BY Zenon, LoggedIs DEF SubInv, ChainOK
<1> QED BY Zenon, <1>1, <1>2, <1>3, <1>4, <1>5, <1>6, <1>7, InFlightIs

\* What is in flight stays so when no message is sent and nothing is paid.
LEMMA FlightSame ==
    ASSUME NEW type, Unpaid(type)' = Unpaid(type)
    PROVE  InFlight(type)' = InFlight(type)
BY Zenon DEF InFlight, Amounts

\* The value of the logs that are paid depends on the prophecies and the blocks.
LEMMA PaidSame ==
    ASSUME UNCHANGED <<ethChain, highest, prophecy>>, NEW d
    PROVE  PaidValue(d)' = PaidValue(d)
<1>1. FixedEvents' = FixedEvents
    BY Zenon DEF FixedEvents
<1>2. PaidEvents(d)' = PaidEvents(d)
    BY Zenon, <1>1 DEF PaidEvents, PaidFor, Parses, Paying, EthereumEventToEthBridgeClaim, EthereumToFurynet,
        ClaimDenom, Success
<1> QED BY Zenon, <1>2 DEF PaidValue, Value, Values

\* A step that leaves all that counts alone.
LEMMA NothingCrosses ==
    ASSUME UNCHANGED <<ethChain, highest, prophecy, supply, held, minted>>,
           \A type : Unpaid(type)' = Unpaid(type)
    PROVE  SpareEther' = SpareEther /\ AllFury' = AllFury
<1>1. \A type : Logged(ethChain, type)' = Logged(ethChain, type)
    BY Zenon DEF Logged, LogsOf
<1>2. \A d : PaidValue(d)' = PaidValue(d)
    BY Zenon, PaidSame
<1>3. \A type : InFlight(type)' = InFlight(type)
    BY Zenon, FlightSame
<1>4. Minted' = Minted
    BY Zenon DEF Minted
<1> QED BY Zenon, <1>1, <1>2, <1>3, <1>4 DEF SpareEther, AllFury

\* What is asked for and not paid depends on the blocks and the payments.
LEMMA UnpaidSame ==
    ASSUME UNCHANGED <<furyChain, furyNext, completed>>
    PROVE  \A type : Unpaid(type)' = Unpaid(type)
BY DEF Unpaid, Asked, ProphecyClaims, Blocks, Emitted, In, BurnLockEventToCosmosMsg,
       FurynetToEthereum

\* Blocks of Ethereum, added or replaced, bring ether and burn efury as they log
\* it, and the amounts stay integers.
LEMMA EthereumConserves ==
    ASSUME SubInv, BridgeInv, supply \in [Denoms -> Int], Ethereum, LockAndBurn
    PROVE  FundsOK' /\ supply' = supply /\ SpareEther' = SpareEther /\ AllFury' = AllFury
<1> DEFINE efury == controlledBridgeTokens["efury"]
           lockedNow == Logged(ethChain', "LOCK")
           burnedNow == Logged(ethChain', "BURN")
<1>1. SubInv'
    BY Zenon, EthereumKeeps
<1>2. lockedNow \in Int /\ burnedNow \in Int
    BY Zenon, <1>1, LoggedIs DEF SubInv, ChainOK
<1>3. prophecy' = prophecy /\ supply' = supply
    BY Zenon DEF Ethereum, MineBlock, Reorg, bridgeVars, oracleVars, bankVars
<1>4. FixedEvents \subseteq FixedEvents'
    <2>1. ChainOK' /\ Keeps /\ ChainOK
        BY Zenon, MineKeeps, ReorgKeeps DEF SubInv, Ethereum
    <2> QED BY Zenon, <2>1, FixedStays
<1>5. \A d : PaidValue(d)' = PaidValue(d)
    BY Zenon, <1>1, <1>3, <1>4, EthereumPaysNone
<1>6. UNCHANGED <<furyChain, furyNext, completed, cosmosWhiteList, controlledBridgeTokens>>
    BY Zenon DEF LockAndBurn, listSide
<1>7. \A type : InFlight(type)' = InFlight(type)
    BY Zenon, <1>6, UnpaidSame, FlightSame
<1>8. \A type : Logged(ethChain, type)' = Logged(ethChain', type)
    BY Zenon DEF Logged, LogsOf
<1>9. /\ held \in [Assets -> Int] /\ Zero \in Assets
      /\ minted \in [BridgeTokens -> Int] /\ IsFiniteSet(BridgeTokens) /\ Minted \in Int
      /\ supply[Ceth] \in Int /\ supply["fury"] \in Int
      /\ PaidValue(Ceth) \in Int /\ PaidValue("fury") \in Int
      /\ \A type : Logged(ethChain, type) \in Int /\ InFlight(type) \in Int
    BY Zenon, TermsAre, AccountAssumption, CrossingAssumption
<1>10. held' = [held EXCEPT ![Zero] = @ + lockedNow - Logged(ethChain, "LOCK")]
    BY Zenon DEF LockAndBurn
<1>11. held' \in [Assets -> Int] /\ held'[Zero] = held[Zero] + lockedNow - Logged(ethChain, "LOCK")
    BY <1>2, <1>9, <1>10
<1>12. minted' \in [BridgeTokens -> Int] /\ Minted' = Minted + Logged(ethChain, "BURN") - burnedNow
    <2>1. CASE efury \in cosmosWhiteList
        <3>1. efury \in BridgeTokens
            BY Zenon, <2>1 DEF BridgeInv, ContractsOK, ListsOK
        <3>2. minted' = [minted EXCEPT ![efury] = @ - (burnedNow - Logged(ethChain, "BURN"))]
            BY Zenon, <2>1 DEF LockAndBurn
        <3>3. PICK t \in BridgeTokens, x \in Int :
                  t = efury /\ x = burnedNow - Logged(ethChain, "BURN")
            BY <1>2, <1>9, <3>1
        <3>4. minted' = [minted EXCEPT ![t] = @ - x]
            BY Zenon, <3>2, <3>3
        <3>5. minted' \in [BridgeTokens -> Int] /\ minted'[t] = minted[t] - x
              /\ \A y \in BridgeTokens \ {t} : minted'[y] = minted[y]
            BY <1>9, <3>4
        <3>6. SumFunctionOnSet(minted', BridgeTokens)
                  = SumFunctionOnSet(minted, BridgeTokens) - minted[t] + minted'[t]
            BY <1>9, <3>5, SumChange
        <3>7. DOMAIN minted = BridgeTokens /\ DOMAIN minted' = BridgeTokens
            BY Zenon, <1>9, <3>5
        <3>8. Minted' = Minted - x
            BY <1>9, <3>5, <3>6, <3>7 DEF Minted
        <3> QED BY <1>2, <1>9, <3>3, <3>5, <3>8
    <2>2. CASE efury \notin cosmosWhiteList
        <3>1. minted' = minted /\ burnedNow - Logged(ethChain, "BURN") = 0
            BY Zenon, <2>2 DEF LockAndBurn
        <3>2. Minted' = Minted
            BY Zenon, <3>1 DEF Minted
        <3> QED BY <1>2, <1>9, <3>1, <3>2
    <2> QED BY Zenon, <2>1, <2>2
<1>13. FundsOK'
    BY Zenon, <1>11, <1>12 DEF FundsOK, Assets, BridgeTokens, Deployed
<1>14. SpareEther' = SpareEther
    <2>1. SpareEther' = held'[Zero] - supply[Ceth] - (lockedNow - PaidValue(Ceth)) - InFlight("Burn")
        BY Zenon, <1>3, <1>5, <1>7, <1>8 DEF SpareEther
    <2> QED BY <1>2, <1>9, <1>11, <2>1 DEF SpareEther
<1>15. AllFury' = AllFury
    <2>1. AllFury' = supply["fury"] + Minted' + (burnedNow - PaidValue("fury")) + InFlight("Lock")
        BY Zenon, <1>3, <1>5, <1>7, <1>8 DEF AllFury
    <2> QED BY <1>2, <1>9, <1>12, <2>1 DEF AllFury
<1> QED BY Zenon, <1>3, <1>13, <1>14, <1>15

\* EthereumSub and Furynet's blocks: what is minted is what comes to be paid.
LEMMA SubConserves ==
    ASSUME SubInv, BridgeInv, supply \in [Denoms -> Int], SubNext, UNCHANGED furySide
    PROVE  supply' \in [Denoms -> Int] /\ SpareEther' = SpareEther /\ AllFury' = AllFury
<1>1. UNCHANGED <<held, minted, furyChain, furyNext, completed>>
    BY Zenon DEF furySide, listSide
<1>2. \A type : Unpaid(type)' = Unpaid(type)
    BY Zenon, <1>1, UnpaidSame
<1>3. ASSUME NEW tx \in txPool, DeliverTx(tx)
      PROVE  supply' \in [Denoms -> Int] /\ SpareEther' = SpareEther /\ AllFury' = AllFury
    <2>1. Ceth \in Denoms /\ "fury" \in Denoms
        BY Zenon, AccountAssumption, CrossingAssumption
    <2>2. /\ supply' \in [Denoms -> Int]
          /\ supply'[Ceth] - PaidValue(Ceth)' = supply[Ceth] - PaidValue(Ceth)
          /\ supply'["fury"] - PaidValue("fury")' = supply["fury"] - PaidValue("fury")
        BY Zenon, <1>3, <2>1, DeliverPays
    <2>3. \A type : Logged(ethChain, type)' = Logged(ethChain, type)
        BY Zenon, <1>3 DEF DeliverTx, ethVars, Logged, LogsOf
    <2>4. \A type : InFlight(type)' = InFlight(type)
        BY Zenon, <1>2, FlightSame
    <2>5. Minted' = Minted
        BY Zenon, <1>1 DEF Minted
    <2>6. /\ held[Zero] \in Int /\ Minted \in Int /\ supply[Ceth] \in Int /\ supply["fury"] \in Int
          /\ PaidValue(Ceth) \in Int /\ PaidValue("fury") \in Int
          /\ \A type : Logged(ethChain, type) \in Int /\ InFlight(type) \in Int
        BY Zenon, <2>1, TermsAre
    <2>7. supply'[Ceth] \in Int /\ supply'["fury"] \in Int
        BY Zenon, <2>1, <2>2
    <2>8. \A d : PaidValue(d)' \in Int
        BY ValueIs DEF PaidValue, PaidEvents, FixedEvents, Value, Values
    <2>9. SpareEther' = SpareEther
        <3>1. SpareEther' = held[Zero] - supply'[Ceth] - (Logged(ethChain, "LOCK") - PaidValue(Ceth)')
                                - InFlight("Burn")
            BY Zenon, <1>1, <2>3, <2>4 DEF SpareEther
        <3> QED BY <2>2, <2>6, <2>7, <2>8, <3>1 DEF SpareEther
    <2>10. AllFury' = AllFury
        <3>1. AllFury' = supply'["fury"] + Minted + (Logged(ethChain, "BURN") - PaidValue("fury")')
                             + InFlight("Lock")
            BY Zenon, <2>3, <2>4, <2>5 DEF AllFury
        <3> QED BY <2>2, <2>6, <2>7, <2>8, <3>1 DEF AllFury
    <2> QED BY Zenon, <2>2, <2>9, <2>10
<1>4. CASE UNCHANGED <<ethChain, highest, prophecy, supply>>
    BY Zenon, <1>1, <1>2, <1>4, NothingCrosses
<1>5. ASSUME NEW v \in Validators, EthereumRelayer(v) \/ BroadcastTimeout(v) \/ LostSubscription(v)
      PROVE  UNCHANGED <<ethChain, highest, prophecy, supply>>
    BY Zenon, <1>5 DEF EthereumRelayer, NewHead, RelayToCosmos, Put, BroadcastTimeout, LostSubscription, Stop,
        ethVars, bridgeVars, oracleVars, bankVars
<1>6. ASSUME NEW v \in setup.operators, Replay(v)
      PROVE  UNCHANGED <<ethChain, highest, prophecy, supply>>
    BY Zenon, <1>6 DEF Replay, ethVars, bridgeVars, oracleVars, bankVars
<1> QED BY Zenon, <1>3, <1>4, <1>5, <1>6 DEF SubNext

\* A vote that pays takes its prophecy out of what is in flight.
LEMMA PaymentConserves ==
    ASSUME SubInv, BridgeInv, supply \in [Denoms -> Int],
           UNCHANGED <<ethChain, highest, prophecy, supply, furyChain, furyNext>>,
           NEW p \in EthProphecies, p \in Asked, completed[p] = <<>>, NEW t, Pays(p, t)
    PROVE  SpareEther' = SpareEther /\ AllFury' = AllFury
<1>1. MessagesOK /\ completed \in [EthProphecies -> Seq(Assets \cup BridgeTokens)]
    BY Zenon DEF BridgeInv, FuryInv, ContractsOK, PaidOK
<1>2. Asked' = Asked
    BY DEF Asked, ProphecyClaims, Blocks, Emitted, In, BurnLockEventToCosmosMsg,
           FurynetToEthereum
<1>3. \A type : /\ Unpaid(type)' = Unpaid(type) \ {p}
                /\ p.type = type => p \in Unpaid(type)
                /\ p.type # type => p \notin Unpaid(type)
    BY Zenon, <1>1, <1>2, MessagesAreApart, PaymentLands
<1>4. p.type \in {"Burn", "Lock"} /\ p.amount \in Int /\ Amounts[p] = p.amount
    BY ProphecyAssumption DEF Amounts
<1>5. /\ held \in [Assets -> Int] /\ Zero \in Assets
      /\ minted \in [BridgeTokens -> Int] /\ IsFiniteSet(BridgeTokens) /\ Minted \in Int
      /\ supply[Ceth] \in Int /\ supply["fury"] \in Int
      /\ PaidValue(Ceth) \in Int /\ PaidValue("fury") \in Int
      /\ \A type : Logged(ethChain, type) \in Int /\ InFlight(type) \in Int
    BY Zenon, TermsAre, AccountAssumption, CrossingAssumption
<1>6. ASSUME NEW type, p.type = type
      PROVE  InFlight(type)' = InFlight(type) - p.amount
    <2>1. SumFunctionOnSet(Amounts, Unpaid(type))
              = Amounts[p] + SumFunctionOnSet(Amounts, Unpaid(type) \ {p})
        BY <1>3, <1>6, InFlightIs, SumRemove
    <2>2. SumFunctionOnSet(Amounts, Unpaid(type) \ {p}) \in Int
        BY Zenon, InFlightIs, FS_Subset, SumInt
    <2>3. InFlight(type)' = SumFunctionOnSet(Amounts, Unpaid(type) \ {p})
        BY Zenon, <1>3 DEF InFlight, Amounts
    <2> QED BY <1>4, <2>1, <2>2, <2>3 DEF InFlight
<1>7. ASSUME NEW type, p.type # type
      PROVE  InFlight(type)' = InFlight(type)
    <2>1. Unpaid(type)' = Unpaid(type)
        BY Zenon, <1>3, <1>7
    <2> QED BY Zenon, <2>1, FlightSame
<1>8. \A type : Logged(ethChain, type)' = Logged(ethChain, type)
    BY Zenon DEF Logged, LogsOf
<1>9. \A d : PaidValue(d)' = PaidValue(d)
    BY Zenon, PaidSame
<1>10. CASE p.type = "Burn"
    <2>1. held' = [held EXCEPT ![Zero] = @ - p.amount] /\ minted' = minted
        BY Zenon, <1>10 DEF Pays
    <2>2. held'[Zero] = held[Zero] - p.amount /\ Minted' = Minted
        BY Zenon, <1>4, <1>5, <2>1 DEF Minted
    <2>3. InFlight("Burn")' = InFlight("Burn") - p.amount /\ InFlight("Lock")' = InFlight("Lock")
        BY Zenon, <1>6, <1>7, <1>10
    <2>4. AllFury' = AllFury
        BY Zenon, <1>8, <1>9, <2>2, <2>3 DEF AllFury
    <2>5. SpareEther' = (held[Zero] - p.amount) - supply[Ceth] - (Logged(ethChain, "LOCK") - PaidValue(Ceth))
                            - (InFlight("Burn") - p.amount)
        BY Zenon, <1>8, <1>9, <2>2, <2>3 DEF SpareEther
    <2> QED BY <1>4, <1>5, <2>4, <2>5 DEF SpareEther
<1>11. CASE p.type = "Lock"
    <2>0. t \in BridgeTokens
        BY Zenon, <1>11 DEF Pays
    <2>1. minted' = [minted EXCEPT ![t] = @ + p.amount] /\ held' = held
        BY Zenon, <1>11 DEF Pays
    <2>2. minted' \in [BridgeTokens -> Int] /\ minted'[t] = minted[t] + p.amount
          /\ \A y \in BridgeTokens \ {t} : minted'[y] = minted[y]
        BY <1>4, <1>5, <2>0, <2>1
    <2>3. SumFunctionOnSet(minted', BridgeTokens)
              = SumFunctionOnSet(minted, BridgeTokens) - minted[t] + minted'[t]
        BY <1>5, <2>0, <2>2, SumChange
    <2>4. DOMAIN minted = BridgeTokens /\ DOMAIN minted' = BridgeTokens
        BY Zenon, <1>5, <2>2
    <2>5. Minted' = Minted + p.amount
        BY <1>4, <1>5, <2>0, <2>2, <2>3, <2>4 DEF Minted
    <2>6. InFlight("Lock")' = InFlight("Lock") - p.amount /\ InFlight("Burn")' = InFlight("Burn")
        BY Zenon, <1>6, <1>7, <1>11
    <2>7. SpareEther' = SpareEther
        BY Zenon, <1>8, <1>9, <2>1, <2>6 DEF SpareEther
    <2>8. AllFury' = supply["fury"] + (Minted + p.amount) + (Logged(ethChain, "BURN") - PaidValue("fury"))
                         + (InFlight("Lock") - p.amount)
        BY Zenon, <1>8, <1>9, <2>5, <2>6 DEF AllFury
    <2> QED BY <1>4, <1>5, <2>7, <2>8 DEF AllFury
<1> QED BY Zenon, <1>4, <1>10, <1>11

\* CosmosSub, and the blocks of both chains on the way to Ethereum.
LEMMA FuryConserves ==
    ASSUME SubInv, BridgeInv, supply \in [Denoms -> Int], FuryNext, UNCHANGED ethereumSide
    PROVE  supply' = supply /\ SpareEther' = SpareEther /\ AllFury' = AllFury
<1>1. UNCHANGED <<ethChain, highest, prophecy, supply>>
    BY Zenon DEF ethereumSide, relaySide, ethVars, bridgeVars, oracleVars, bankVars
<1>2. MessagesOK
    BY Zenon DEF BridgeInv, FuryInv
<1>3. ASSUME UNCHANGED <<held, minted, completed>>, FuryBlock \/ UNCHANGED <<furyChain, furyNext>>
      PROVE  SpareEther' = SpareEther /\ AllFury' = AllFury
    <2>1. \A type : Unpaid(type)' = Unpaid(type)
        BY Zenon, <1>2, <1>3, MessagesAreApart, FlightKept
    <2> QED BY Zenon, <1>1, <1>3, <2>1, NothingCrosses
<1>4. ASSUME NEW q \in ethPool, newProphecyClaim(q[1], q[2]), UNCHANGED <<furyChain, furyNext>>
      PROVE  SpareEther' = SpareEther /\ AllFury' = AllFury
    <2>1. /\ q[2] \in Asked /\ q[2] \in EthProphecies /\ completed[q[2]] = <<>>
          /\ UNCHANGED <<held, minted, completed>> \/ \E t : Pays(q[2], t)
        BY Zenon, <1>4, VoteInPool
    <2>2. ASSUME NEW t, Pays(q[2], t)
          PROVE  SpareEther' = SpareEther /\ AllFury' = AllFury
        BY Zenon, <1>1, <1>4, <2>1, <2>2, PaymentConserves
    <2> QED BY Zenon, <1>3, <1>4, <2>1, <2>2
<1> QED BY Zenon, <1>1, <1>3, <1>4, FuryNextDoes DEF contracts

\* A lock or burn on Furynet takes from the supply what it puts in flight.
LEMMA SendConserves ==
    ASSUME SubInv, BridgeInv, supply \in [Denoms -> Int], NEW m \in FuryMessages, Send(m)
    PROVE  supply' \in [Denoms -> Int] /\ SpareEther' = SpareEther /\ AllFury' = AllFury
<1> DEFINE p == ClaimOf(m)
<1>1. UNCHANGED <<ethChain, highest, prophecy>> /\ supply' = [supply EXCEPT ![m.denom] = @ - m.amount]
    BY Zenon DEF Send, Lock, Burn, TakeAndBurn, relaySide, ethVars, oracleVars
<1>2. FuryMessage(m) /\ UNCHANGED <<held, minted, completed>>
    BY Zenon DEF Send, FuryMessage, contractVars, bridgeBankVars, voteVars
<1>3. MessagesOK /\ PoolOK
    BY Zenon DEF BridgeInv, FuryInv
<1>4. /\ p \in EthProphecies /\ p.amount = m.amount
      /\ \A type : /\ m.type = type => Unpaid(type)' = Unpaid(type) \cup {p} /\ p \notin Unpaid(type)
                   /\ m.type # type => Unpaid(type)' = Unpaid(type)
    BY Zenon, <1>2, <1>3, MessagesAreApart, MessageLeaves
<1>5. p.type = m.type
    BY Zenon DEF ClaimOf, BurnLockEventToCosmosMsg
<1>6. PICK x \in EthProphecies : x = p
    BY Zenon, <1>4
<1> HIDE DEF p
<1>7. m.type \in {"Burn", "Lock"} /\ m.amount \in Int /\ Amounts[p] = m.amount
    BY <1>4, <1>5, <1>6, ProphecyAssumption DEF Amounts
<1>8. /\ held[Zero] \in Int /\ Minted \in Int /\ supply[Ceth] \in Int /\ supply["fury"] \in Int
      /\ PaidValue(Ceth) \in Int /\ PaidValue("fury") \in Int
      /\ \A type : Logged(ethChain, type) \in Int /\ InFlight(type) \in Int
    BY Zenon, TermsAre, AccountAssumption, CrossingAssumption
<1>9. InFlight(m.type)' = InFlight(m.type) + m.amount
    <2>1. SumFunctionOnSet(Amounts, Unpaid(m.type) \cup {p})
              = SumFunctionOnSet(Amounts, Unpaid(m.type)) + Amounts[p]
        BY Zenon, <1>4, <1>7, InFlightIs, SumAdd
    <2>2. InFlight(m.type)' = SumFunctionOnSet(Amounts, Unpaid(m.type) \cup {p})
        BY Zenon, <1>4 DEF InFlight, Amounts
    <2> QED BY Zenon, <1>7, <2>1, <2>2 DEF InFlight
<1>10. \A type : m.type # type => InFlight(type)' = InFlight(type)
    BY Zenon, <1>4, FlightSame
<1>11. \A type : Logged(ethChain, type)' = Logged(ethChain, type)
    BY Zenon, <1>1 DEF Logged, LogsOf
<1>12. \A d : PaidValue(d)' = PaidValue(d)
    BY Zenon, <1>1, PaidSame
<1>13. held' = held /\ Minted' = Minted
    BY Zenon, <1>2 DEF Minted
<1>14. m.denom = (IF m.type = "Lock" THEN "fury" ELSE Ceth) /\ Ceth \in Denoms /\ "fury" \in Denoms \ {Ceth}
    BY Zenon, AccountAssumption, CrossingAssumption
<1>15. supply' \in [Denoms -> Int]
    BY <1>1, <1>7, <1>14
<1>16. CASE m.type = "Burn"
    <2>1. supply'[Ceth] = supply[Ceth] - m.amount /\ supply'["fury"] = supply["fury"]
        BY Zenon, <1>1, <1>14, <1>16
    <2>2. InFlight("Burn")' = InFlight("Burn") + m.amount /\ InFlight("Lock")' = InFlight("Lock")
        BY Zenon, <1>9, <1>10, <1>16
    <2>3. AllFury' = AllFury
        BY Zenon, <1>11, <1>12, <1>13, <2>1, <2>2 DEF AllFury
    <2>4. SpareEther' = held[Zero] - (supply[Ceth] - m.amount) - (Logged(ethChain, "LOCK") - PaidValue(Ceth))
                            - (InFlight("Burn") + m.amount)
        BY Zenon, <1>11, <1>12, <1>13, <2>1, <2>2 DEF SpareEther
    <2> QED BY <1>7, <1>8, <1>15, <2>3, <2>4 DEF SpareEther
<1>17. CASE m.type = "Lock"
    <2>1. supply'["fury"] = supply["fury"] - m.amount /\ supply'[Ceth] = supply[Ceth]
        BY Zenon, <1>1, <1>14, <1>17
    <2>2. InFlight("Lock")' = InFlight("Lock") + m.amount /\ InFlight("Burn")' = InFlight("Burn")
        BY Zenon, <1>9, <1>10, <1>17
    <2>3. SpareEther' = SpareEther
        BY Zenon, <1>11, <1>12, <1>13, <2>1, <2>2 DEF SpareEther
    <2>4. AllFury' = (supply["fury"] - m.amount) + Minted + (Logged(ethChain, "BURN") - PaidValue("fury"))
                         + (InFlight("Lock") + m.amount)
        BY Zenon, <1>11, <1>12, <1>13, <2>1, <2>2 DEF AllFury
    <2> QED BY <1>7, <1>8, <1>15, <2>3, <2>4 DEF AllFury
<1> QED BY Zenon, <1>7, <1>16, <1>17

\* The inductive invariant: both sides of the bridge, and what is conserved.
CrossingInv ==
    /\ SubInv /\ BridgeInv /\ supply \in [Denoms -> Int]
    /\ SpareEther = 0 /\ AllFury = GenesisSupply["fury"]

\* At first nothing is on its way.
LEMMA RelayerStartsCrossing ==
    ASSUME RelayerInit
    PROVE  CrossingInv
<1>1. SubInv /\ BridgeInv
    BY Zenon, SubStart, RelayerStartsBridge DEF RelayerInit
<1>2. supply = GenesisSupply /\ ethChain = <<>> /\ highest = 0
    BY Zenon DEF RelayerInit, SubInit
<1>3. GenesisSupply \in [Denoms -> Int] /\ Ceth \in Denoms /\ "fury" \in Denoms
    BY GenesisAssumption, AccountAssumption, CrossingAssumption
<1>4. \A type : Logged(ethChain, type) = 0
    <2>1. LogsOf(ethChain) = {}
        BY <1>2 DEF LogsOf
    <2> QED BY Zenon, <2>1, SumEmpty DEF Logged
<1>5. \A d : PaidValue(d) = 0
    <2>1. FixedEvents = {}
        BY <1>2, SetupAssumption DEF FixedEvents
    <2>2. \A d : PaidEvents(d) = {}
        BY Zenon, <2>1 DEF PaidEvents
    <2> QED BY Zenon, <2>2, SumEmpty DEF PaidValue, Value
<1>6. \A type : InFlight(type) = 0
    <2>1. Blocks = << <<>> >>
        BY DEF Blocks, RelayerInit, FuryInit
    <2>2. Emitted(Blocks) = {}
        BY <2>1 DEF Emitted, In
    <2>3. Asked = {}
        BY Zenon, <2>2 DEF Asked, ProphecyClaims
    <2>4. \A type : Unpaid(type) = {}
        BY Zenon, <2>3 DEF Unpaid
    <2> QED BY Zenon, <2>4, SumEmpty DEF InFlight
<1>7. held[Zero] = GenesisSupply[Ceth]
    BY Zenon, CrossingAssumption DEF RelayerInit, FuryInit, ContractInit, BankInit
<1>8. Minted = 0
    <2>1. minted = [t \in BridgeTokens |-> 0]
        BY Zenon DEF RelayerInit, FuryInit, ContractInit, BankInit
    <2>2. minted \in [BridgeTokens -> Int] /\ IsFiniteSet(BridgeTokens)
        BY Zenon, <1>1, <1>2, <1>3, TermsAre
    <2>3. IsFiniteSet(DOMAIN minted) /\ \A t \in DOMAIN minted : minted[t] = 0
        BY Zenon, <2>1, <2>2
    <2> QED BY Zenon, <2>3, SumZero DEF Minted
<1>9. SpareEther = 0
    BY <1>2, <1>3, <1>4, <1>5, <1>6, <1>7 DEF SpareEther
<1>10. AllFury = GenesisSupply["fury"]
    BY <1>2, <1>3, <1>4, <1>5, <1>6, <1>8 DEF AllFury
<1> QED BY Zenon, <1>1, <1>2, <1>3, <1>9, <1>10 DEF CrossingInv

\* Every step of the bridge keeps it.
LEMMA RelayerKeepsCrossing ==
    ASSUME CrossingInv, [RelayerNext]_vars
    PROVE  CrossingInv'
<1>1. SubInv /\ BridgeInv /\ supply \in [Denoms -> Int]
    BY Zenon DEF CrossingInv
<1>2. SubInv'
    BY Zenon, <1>1, RelayerKeepsSub
<1>3. BridgeInv'
    BY Zenon, <1>1, RelayerKeepsBridge, EthereumConserves
<1>4. supply' \in [Denoms -> Int] /\ SpareEther' = SpareEther /\ AllFury' = AllFury
    <2>0. ASSUME UNCHANGED <<ethChain, highest, prophecy, supply, held, minted, furyChain, furyNext, completed>>
          PROVE  supply' \in [Denoms -> Int] /\ SpareEther' = SpareEther /\ AllFury' = AllFury
        BY Zenon, <1>1, <2>0, UnpaidSame, NothingCrosses
    <2> USE DEF ethereumSide, relaySide, furySide, listSide, ethVars, bridgeVars, oracleVars, bankVars
    <2>1. CASE Ethereum /\ LockAndBurn
        BY Zenon, <1>1, <2>1, EthereumConserves
    <2>2. CASE SubNext /\ UNCHANGED furySide
        BY Zenon, <1>1, <2>2, SubConserves
    <2>3. CASE FuryNext /\ UNCHANGED ethereumSide
        BY Zenon, <1>1, <2>3, FuryConserves
    <2>4. ASSUME NEW m \in FuryMessages, Send(m)
          PROVE  supply' \in [Denoms -> Int] /\ SpareEther' = SpareEther /\ AllFury' = AllFury
        BY Zenon, <1>1, <2>4, SendConserves
    <2>5. CASE TogglePause
        BY Zenon, <2>0, <2>5 DEF TogglePause, togglePause, fundVars
    <2>6. ASSUME NEW v \in Validators, StartRelayer(v)
          PROVE  UNCHANGED <<ethChain, highest, prophecy, supply, held, minted, furyChain, furyNext, completed>>
        BY Zenon, <2>6 DEF StartRelayer, Start, FuryStart, contractVars, bridgeBankVars, voteVars
    <2>7. ASSUME NEW v \in Validators, Crash(v)
          PROVE  UNCHANGED <<ethChain, highest, prophecy, supply, held, minted, furyChain, furyNext, completed>>
        BY Zenon, <2>7 DEF Crash, Stop, FuryStop, contractVars, bridgeBankVars, voteVars
    <2>8. CASE UNCHANGED vars
        BY Zenon, <2>0, <2>8 DEF vars
    <2> QED BY Zenon, <2>0, <2>1, <2>2, <2>3, <2>4, <2>5, <2>6, <2>7, <2>8 DEF RelayerNext
<1> QED BY Zenon, <1>2, <1>3, <1>4 DEF CrossingInv

\* What is logged and not paid is what is logged without what is paid.
LEMMA UnpaidLogsAre ==
    ASSUME SubInv, NEW type, NEW d, <<type, d>> \in {<<"LOCK", Ceth>>, <<"BURN", "fury">>}
    PROVE  UnpaidLogs(type) = Logged(ethChain, type) - PaidValue(d)
<1> DEFINE A == {e \in LogsOf(ethChain) : e.type = type /\ ~PaidFor(e)}
<1>1. ethChain \in Seq(SUBSET LogEvents) /\ LogsOf(ethChain) \subseteq LogEvents
    BY DEF SubInv, ChainOK, LogsOf
<1>2. UnpaidLogs(type) = Value(A)
    BY Zenon DEF UnpaidLogs, Value, Values, PaidFor, Paying
<1>3. FixedEvents \subseteq LogsOf(ethChain)
    BY SetupAssumption DEF SubInv, ChainOK, FixedEvents, LogsOf
<1>4. ASSUME NEW e \in LogEvents
      PROVE  ClaimDenom(Paying(e)) = d <=> e.type = type
    <2>1. e.type \in {"LOCK", "BURN"} /\ e.symbol = (IF e.type = "LOCK" THEN "eth" ELSE "efury")
        BY Zenon, CrossingAssumption
    <2>2. ClaimDenom(Paying(e)) = IF e.type = "LOCK" THEN Ceth ELSE "fury"
        BY Zenon, <2>1, CrossingAssumption DEF ClaimDenom, Paying, EthereumEventToEthBridgeClaim
    <2>3. "fury" # Ceth
        BY Zenon, CrossingAssumption
    <2> QED BY Zenon, <2>1, <2>2, <2>3
<1>5. PaidEvents(d) = {e \in LogsOf(ethChain) : e.type = type /\ PaidFor(e)}
    BY Zenon, <1>1, <1>3, <1>4, PaidIsFixed DEF PaidEvents
<1>6. LogsOfType(ethChain, type) = A \cup PaidEvents(d) /\ A \cap PaidEvents(d) = {}
    BY Zenon, <1>5 DEF LogsOfType
<1>7. A \in SUBSET LogEvents /\ PaidEvents(d) \in SUBSET LogEvents
    BY Zenon, <1>1, <1>5
<1> HIDE DEF A
<1>8. Value(LogsOfType(ethChain, type)) = Value(A) + Value(PaidEvents(d))
    BY Zenon, <1>6, <1>7, ValueUnion
<1>9. Value(A) \in Int /\ Value(PaidEvents(d)) \in Int
    BY <1>7, ValueIs
<1>10. Logged(ethChain, type) = Value(LogsOfType(ethChain, type))
    BY Zenon, <1>1, LoggedIs
<1> QED BY <1>2, <1>8, <1>9, <1>10 DEF PaidValue

\* What is asked for and not paid, in the terms of the property.
LEMMA UnpaidMessagesAre ==
    ASSUME NEW type
    PROVE  UnpaidMessages(type) = InFlight(type)
BY Zenon DEF UnpaidMessages, InFlight, Amounts, Unpaid, Asked, Blocks

\* Nothing is created or lost across the two chains: all the ether in the bank is
\* ceth or on its way, and all fury is on Furynet, is efury or is on its way,
\* whatever blocks Ethereum replaces, relayers crash or operators replay.
THEOREM AlwaysBacked == RelayerSpec => []Backed
<1>1. RelayerInit => CrossingInv
    BY Zenon, RelayerStartsCrossing
<1>2. CrossingInv /\ [RelayerNext]_vars => CrossingInv'
    BY Zenon, RelayerKeepsCrossing
<1>3. CrossingInv => Backed
    <2> SUFFICES ASSUME CrossingInv PROVE Backed
        BY Zenon
    <2>1. SubInv /\ BridgeInv /\ supply \in [Denoms -> Int] /\ SpareEther = 0 /\ AllFury = GenesisSupply["fury"]
        BY Zenon DEF CrossingInv
    <2>2. /\ UnpaidLogs("LOCK") = Logged(ethChain, "LOCK") - PaidValue(Ceth)
          /\ UnpaidLogs("BURN") = Logged(ethChain, "BURN") - PaidValue("fury")
        BY <2>1, UnpaidLogsAre
    <2>3. /\ held[Zero] \in Int /\ Minted \in Int /\ supply[Ceth] \in Int /\ supply["fury"] \in Int
          /\ PaidValue(Ceth) \in Int /\ PaidValue("fury") \in Int
          /\ \A type : Logged(ethChain, type) \in Int /\ InFlight(type) \in Int
        BY Zenon, <2>1, TermsAre, AccountAssumption, CrossingAssumption
    <2>4. held[Zero] = supply[Ceth] + UnpaidLogs("LOCK") + InFlight("Burn")
        BY <2>1, <2>2, <2>3 DEF SpareEther
    <2>5. GenesisSupply["fury"] = supply["fury"] + Minted + UnpaidLogs("BURN") + InFlight("Lock")
        BY Zenon, <2>1, <2>2, <2>3 DEF AllFury
    <2> QED BY Zenon, <2>4, <2>5, UnpaidMessagesAre DEF Backed, Minted
<1> QED BY <1>1, <1>2, <1>3, PTL DEF RelayerSpec

\* A prophecy with the power the threshold asks for has been paid, in the vote
\* that gave it that power or not at all.
THEOREM EnoughIsPaid == RelayerSpec => []EnoughMeansPaid
<1>1. RelayerInit => CrossingInv
    BY Zenon, RelayerStartsCrossing
<1>2. CrossingInv /\ [RelayerNext]_vars => CrossingInv'
    BY Zenon, RelayerKeepsCrossing
<1>3. CrossingInv => EnoughMeansPaid
    BY Zenon, BridgeInvMeans DEF CrossingInv
<1> QED BY <1>1, <1>2, <1>3, PTL DEF RelayerSpec

=============================================================================
