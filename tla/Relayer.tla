------------------------------ MODULE Relayer ------------------------------
(***************************************************************************)
(* The bridge from end to end: x/ethbridge on Furynet, the contracts on    *)
(* Ethereum, and between them the processes of cmd/ebrelayer, one for each *)
(* validator: the goroutines EthereumSub and CosmosSub, which share the    *)
(* process and its LevelDB, and the operators' replay commands.            *)
(*                                                                         *)
(* A log that a relayer reads is the lock or burn of a user of the         *)
(* contracts, a message is the lock or burn of a user of Furynet.  Ether   *)
(* and fury are what crosses.                                              *)
(***************************************************************************)
EXTENDS EthereumSub, CosmosSub

\* Ether is locked for ceth and efury burned for fury, fury is locked for efury
\* and ceth burned for ether; at first all the ether in the bank is ceth.
ASSUME CrossingAssumption ==
    /\ \A e \in LogEvents :
           e.type \in {"LOCK", "BURN"} /\ e.symbol = IF e.type = "LOCK" THEN "eth" ELSE "efury"
    /\ \A m \in FuryMessages : m.denom = IF m.type = "Lock" THEN "fury" ELSE Ceth
    /\ Pegged[ToLower["eth"]] = Ceth /\ EthereumToFurynet("efury") = "fury"
    /\ "fury" \in Denoms \ {Ceth}
    /\ GenesisHeld[Zero] = GenesisSupply[Ceth]

\* Messages that differ ask for prophecies that differ: an id names a transaction
\* of Furynet, and no transaction locks or burns the same twice.
ASSUME MessageAssumption ==
    /\ \A m \in FuryMessages : BurnLockEventToCosmosMsg(m) \in EthProphecies
    /\ \A m, n \in FuryMessages :
           BurnLockEventToCosmosMsg(m) = BurnLockEventToCosmosMsg(n) => m = n

\* There are finitely many bridge tokens and messages.
ASSUME FiniteAssumption == IsFiniteSet(Existing) /\ IsFiniteSet(Symbols) /\ IsFiniteSet(FuryMessages)

relaySide == <<ethVars, dbVars, poolVars, heads, sub>>
ethereumSide == <<bridgeVars, relaySide>>
listSide == <<ethWhiteList, lockedTokenList, lowerToUpperTokens, controlledBridgeTokens,
              cosmosWhiteList, blocklist, active, ethPower, validatorCount, totalPower,
              hasMadeClaim, signedPower, completed, furyChain, furyNext, furySub, furyCursor,
              furySince, ethPool, sent, givenUp>>
furySide == <<listSide, bankPaused, lockBurnNonce, held, minted>>
vars == <<ethereumSide, furySide, faults>>

-----------------------------------------------------------------------------
(***************************************************************************)
(* Users.                                                                  *)
(***************************************************************************)

\* The value of a chain's logs of a type.
Logged(chain, type) ==
    SumFunctionOnSet([e \in LogEvents |-> e.value], {e \in LogsOf(chain) : e.type = type})

\* The locks and burns of the blocks: ether comes into the bank, efury is
\* burned.  Those of a block that is replaced are undone.  (validFuryAddress,
\* which looks at the length and the prefix of the Furynet address, is left
\* out: a log may name a receiver that is no account.)
LockAndBurn ==
    LET efury == controlledBridgeTokens["efury"]
        burned == Logged(ethChain', "BURN") - Logged(ethChain, "BURN")
    IN
    /\ bankPaused => LogsOf(ethChain') \subseteq LogsOf(ethChain)
    /\ held' = [held EXCEPT ![Zero] = @ + Logged(ethChain', "LOCK") - Logged(ethChain, "LOCK")]
    /\ IF efury \in cosmosWhiteList
       THEN minted[efury] >= burned /\ minted' = [minted EXCEPT ![efury] = @ - burned]
       ELSE burned = 0 /\ UNCHANGED minted
    /\ lockBurnNonce' = Cardinality(LogsOf(ethChain'))
    /\ UNCHANGED <<listSide, bankPaused>>

\* The operator of the contracts pauses them, and ends the pause.
TogglePause ==
    /\ IF bankPaused THEN UNCHANGED faults ELSE Fault("pause")
    /\ togglePause
    /\ UNCHANGED <<ethereumSide, listSide>>

\* A user of Furynet locks fury or burns ceth.
Send(m) ==
    /\ \E fee \in Fees :
           IF m.type = "Lock" THEN Lock(m.sender, m.receiver, m.denom, m.amount, fee)
           ELSE Burn(m.sender, m.receiver, m.denom, m.amount, fee)
    /\ FuryMessage(m)
    /\ UNCHANGED relaySide

-----------------------------------------------------------------------------
(***************************************************************************)
(* The processes.                                                          *)
(***************************************************************************)

\* The process starts both goroutines; EthereumSub also starts on its own when it
\* has lost its subscription.
StartRelayer(v) ==
    /\ Start(v)
    /\ IF furySub[v].pc = "down" THEN FuryStart(v) ELSE UNCHANGED furySide

\* The process is killed or exits: both goroutines stop.
Crash(v) ==
    /\ Fault("crash")
    /\ Stop(v)
    /\ FuryStop(v)

RelayerInit == SubInit /\ FuryInit

RelayerNext ==
    \/ Ethereum /\ LockAndBurn
    \/ SubNext /\ UNCHANGED furySide
    \/ FuryNext /\ UNCHANGED ethereumSide
    \/ \E m \in FuryMessages : Send(m)
    \/ TogglePause
    \/ \E v \in Validators : StartRelayer(v) \/ Crash(v)

\* Whose operator runs the replay commands again and again.
Operated(v) == v \in setup.operators

(***************************************************************************)
(* The goroutines run, each chain puts what it is sent into blocks, and    *)
(* the operators of the setup replay.  Nothing is assumed of requests,     *)
(* crashes, the users, Ethereum's blocks, or processes nobody looks after. *)
(***************************************************************************)
RelayerSpec ==
    /\ RelayerInit
    /\ [][RelayerNext]_vars
    /\ \A v \in Validators :
           /\ WF_vars(Operated(v) /\ StartRelayer(v))
           /\ WF_vars(Operated(v) /\ EthereumRelayer(v) /\ UNCHANGED furySide)
           /\ WF_vars(Operated(v) /\ (\E tx \in txPool : tx.from = v /\ DeliverTx(tx)) /\ UNCHANGED furySide)
           /\ WF_vars(Replay(v) /\ UNCHANGED furySide)
           /\ WF_vars(Operated(v) /\ FuryRelayer(v) /\ UNCHANGED ethereumSide)
           /\ WF_vars(Operated(v) /\ (\E q \in ethPool : q[1] = v /\ MineTx(v, q[2])) /\ UNCHANGED ethereumSide)
           /\ WF_vars(FuryReplay(v) /\ UNCHANGED ethereumSide)

-----------------------------------------------------------------------------
(***************************************************************************)
(* Properties.                                                             *)
(***************************************************************************)

\* What was logged on Ethereum and is not paid on Furynet.
UnpaidLogs(type) ==
    SumFunctionOnSet([e \in LogEvents |-> e.value],
        {e \in LogsOf(ethChain) :
             /\ e.type = type
             /\ prophecy[e.id].status # Success(EthereumEventToEthBridgeClaim(e).content)})

\* What was taken on Furynet and is not paid on Ethereum.
UnpaidMessages(type) ==
    SumFunctionOnSet([p \in EthProphecies |-> p.amount],
        {p \in ProphecyClaims(Append(furyChain, furyNext)) :
             p.type = type /\ completed[p] = <<>>})

\* Across both chains nothing is created or lost: all the ether in the bank is
\* ceth, or a lock still to be paid on Furynet, or a burn still to be paid on
\* Ethereum; and fury likewise is on Furynet, is efury, or is on its way.  A
\* log of a replaced block that is claimed, a vote counted twice or a replay
\* that pays again would show here.
Backed ==
    /\ held[Zero] = supply[Ceth] + UnpaidLogs("LOCK") + UnpaidMessages("Burn")
    /\ GenesisSupply["fury"] = supply["fury"] + SumFunctionOnSet(minted, DOMAIN minted)
                                 + UnpaidLogs("BURN") + UnpaidMessages("Lock")

\* When the operators of a quorum replay, every message that Ethereum can pay is
\* paid there in the end, whatever the relayers lost by crashing, giving up or
\* starting late, and although votes of theirs reverted in a pause that has ended:
\* Replay sends every message again.
EventuallyPaidOnEthereum == <>[](\A p \in EthProphecies : Due(p) => Settled(p))

=============================================================================
