---------------------------- MODULE EthereumSub ----------------------------
(***************************************************************************)
(* cmd/ebrelayer, from Ethereum to Furynet: every validator runs a process *)
(* whose EthereumSub goroutine reads the BridgeBank's logs of blocks that  *)
(* are Trailing blocks old, claims them on Furynet in one transaction per  *)
(* range of blocks, and keeps the next block to read in LevelDB.  The      *)
(* claims are those of EthBridge.                                          *)
(*                                                                         *)
(* External: Ethereum, which mines and reorganises blocks and announces    *)
(* its heads; the transaction pool of Furynet.                             *)
(***************************************************************************)
EXTENDS EthBridge, RelayerSetup

CONSTANTS
    LogEvents,      \* what BridgeBank may log: [id, to, symbol, token, value, type]
    ToLower,        \* strings.ToLower on symbols
    Trailing,       \* trailingBlocks
    FirstCursor     \* FirstCursor[v]: what LevelDB holds at first, 0 or a block

\* Whoever replays has a relayer's key.
ASSUME SetupAssumption ==
    /\ Trailing \in Nat
    /\ FirstCursor \in [Validators -> Nat]
    /\ \A s \in Setups : s.operators \subseteq s.relayers /\ s.relayers \subseteq Validators

VARIABLES
    ethChain,   \* external: the logs of every block, genesis (no logs) left out
    highest,    \* external: the greatest height there has been
    heads,      \* heads announced to a validator's relayer and not yet read
    sub,        \* the goroutine: [pc, last, ending, batch]
    cursor,     \* LevelDB: the last processed block, 0 when there is none
    txPool,     \* external: transactions sent and not yet in a block
    since,      \* history: the first block that the relayer has read
    dropped     \* history: claims that went down with a failed transaction

ethVars == <<ethChain, highest>>
dbVars == <<cursor, since, setup>>
poolVars == <<txPool, dropped>>
subVars == <<bridgeVars, ethVars, dbVars, poolVars, heads, sub, faults>>

-----------------------------------------------------------------------------
(***************************************************************************)
(* From a log to a claim.                                                  *)
(***************************************************************************)

\* GetInverseWithDefault
EthereumToFurynet(symbol) ==
    IF \E d \in DOMAIN SymbolTable : SymbolTable[d] = symbol
    THEN CHOOSE d \in DOMAIN SymbolTable : SymbolTable[d] = symbol
    ELSE symbol

\* The recipient must be a Furynet address, and "eth" must have no token.
Parses(e) ==
    /\ e.to \in Accounts
    /\ e.type = "LOCK" /\ ToLower[e.symbol] = "eth" => e.token = "null"

EthereumEventToEthBridgeClaim(e) ==
    [id      |-> e.id,
     content |-> [receiver |-> e.to, amount |-> e.value, claimType |-> e.type,
                  symbol   |-> IF e.type = "LOCK" THEN ToLower[e.symbol]
                               ELSE EthereumToFurynet(e.symbol)]]

\* The claims are those of EthBridge.
ASSUME LogAssumption ==
    /\ IsFiniteSet(LogEvents)
    /\ \A e \in LogEvents :
           /\ e.id \in Prophecies /\ e.value \in Nat
           /\ Parses(e) => EthereumEventToEthBridgeClaim(e).content \in Claims

\* The messages for some logs: those that cannot be converted are skipped.
ClaimsOf(events) == {EthereumEventToEthBridgeClaim(e) : e \in {x \in events : Parses(x)}}

-----------------------------------------------------------------------------
(***************************************************************************)
(* External: Ethereum.                                                     *)
(***************************************************************************)
Height == Len(ethChain)
LogsOf(chain) == UNION {chain[n] : n \in DOMAIN chain}

Announce(n) ==
    heads' = [v \in Validators |-> IF sub[v].pc \in {"none", "down", "dead"} THEN <<>>
                                   ELSE Append(heads[v], n)]

\* BridgeBank numbers its logs: an id is a lockBurnNonce.
Fits(chain, logs) ==
    LET all == LogsOf(chain) \cup logs
    IN  LogsOf(chain) \cap logs = {} /\ {e.id : e \in all} = 1 .. Cardinality(all)

MineBlock(logs) ==
    /\ Height < setup.heads
    /\ Fits(ethChain, logs)
    /\ ethChain' = Append(ethChain, logs)
    /\ highest' = IF Height + 1 > highest THEN Height + 1 ELSE highest
    /\ Announce(Height + 1)
    /\ UNCHANGED <<bridgeVars, dbVars, poolVars, sub, faults>>

\* The last k blocks are replaced; a block that Trailing others followed stays.
Reorg(k, logs) ==
    LET kept == SubSeq(ethChain, 1, Height - k) IN
    /\ Fault("reorg")
    /\ k <= Height /\ Height - k >= highest - Trailing
    /\ Fits(kept, logs)
    /\ ethChain' = Append(kept, logs)
    /\ Announce(Height - k + 1)
    /\ UNCHANGED <<bridgeVars, dbVars, poolVars, sub, highest>>

FilterLogs(from, to) == UNION {ethChain[n] : n \in (from .. to) \cap DOMAIN ethChain}

-----------------------------------------------------------------------------
(***************************************************************************)
(* The goroutine.                                                          *)
(***************************************************************************)
SetSub(v, pc, last, ending, batch) ==
    sub' = [sub EXCEPT ![v] = [pc |-> pc, last |-> last, ending |-> ending, batch |-> batch]]

\* The cursor is read from LevelDB and the heads are subscribed to.  When that
\* subscription fails the goroutine ends and nothing starts it again.
Start(v) ==
    /\ sub[v].pc = "down"
    /\ \/ SetSub(v, "idle", cursor[v], 0, {}) /\ UNCHANGED faults
       \/ Fault("request") /\ SetSub(v, "dead", 0, 0, {})
    /\ UNCHANGED <<bridgeVars, ethVars, dbVars, poolVars, heads>>

\* The process ends, between any two steps, and is started again.
Stop(v) ==
    /\ sub[v].pc \notin {"none", "down"}
    /\ SetSub(v, "down", 0, 0, {})
    /\ heads' = [heads EXCEPT ![v] = <<>>]
    /\ UNCHANGED <<bridgeVars, ethVars, dbVars, poolVars>>

\* A lost subscription starts the goroutine again.
LostSubscription(v) == sub[v].pc = "idle" /\ Fault("crash") /\ Stop(v)

\* lastProcessedBlock is saved as the block after the last one read.
SaveCursor(v, last, ending) ==
    /\ cursor' = [cursor EXCEPT ![v] = ending + 1]
    /\ since' = [since EXCEPT ![v] = IF cursor[v] = 0 THEN last ELSE @]
    /\ SetSub(v, "idle", ending + 1, 0, {})
    /\ UNCHANGED setup

\* Mutant: the cursor moves on although the search failed.
ReadBlocksRegardless(v, last, ending) ==
    \/ /\ ending < 0
       /\ UNCHANGED <<sub, dbVars, faults>>
    \/ /\ ending >= 0
       /\ Fault("request") \/ (last > ending /\ UNCHANGED faults)
       /\ SaveCursor(v, last, ending)
    \/ /\ ending >= 0
       /\ IF FilterLogs(last, ending) = {}
          THEN SaveCursor(v, last, ending)
          ELSE SetSub(v, "relay", last, ending, FilterLogs(last, ending)) /\ UNCHANGED dbVars
       /\ UNCHANGED faults

\* Mutant: the logs are searched up to the head.
ReadBlocksToHead(v, last, ending) ==
    LET logs == FilterLogs(last, ending + Trailing) IN
    IF ending < 0 THEN UNCHANGED <<sub, dbVars, faults>>
    ELSE /\ IF logs = {} THEN SaveCursor(v, last, ending)
            ELSE SetSub(v, "relay", last, ending, logs) /\ UNCHANGED dbVars
         /\ UNCHANGED faults

\* A head is read: the blocks from the cursor to Trailing below the head are
\* searched.  A failed search is left to the next head.  A head below the last
\* one (after a reorganisation) makes the range empty, which the node answers
\* with an error or with no logs; in the second case the cursor moves back.
ReadBlocks(v, last, ending) ==
    \/ /\ ending < 0
       /\ UNCHANGED <<sub, dbVars, faults>>
    \/ /\ ending >= 0
       /\ Fault("request") \/ (last > ending /\ UNCHANGED faults)
       /\ SetSub(v, "idle", last, 0, {})
       /\ UNCHANGED dbVars
    \/ /\ ending >= 0
       /\ IF FilterLogs(last, ending) = {}
          THEN SaveCursor(v, last, ending)
          ELSE SetSub(v, "relay", last, ending, FilterLogs(last, ending)) /\ UNCHANGED dbVars
       /\ UNCHANGED faults

NewHead(v) ==
    /\ sub[v].pc = "idle" /\ heads[v] # <<>>
    /\ heads' = [heads EXCEPT ![v] = Tail(@)]
    /\ LET ending == Head(heads[v]) - Trailing
       IN  ReadBlocks(v, IF sub[v].last = 0 /\ ending >= 0 THEN ending ELSE sub[v].last, ending)
    /\ UNCHANGED <<bridgeVars, ethVars, poolVars>>

Tx(v, events) == [from |-> v, claims |-> ClaimsOf(events)]

\* The claims that a transaction takes down with it.
Drop(tx) ==
    dropped' = [dropped EXCEPT ![tx.from] = @ \cup {c \in tx.claims : MayClaim(tx.from, c.id)}]

\* handleEthereumEvent: one transaction for all the events of the range.  An
\* error is logged and the range is left behind.
RelayToCosmos(v) ==
    LET tx == Tx(v, sub[v].batch) IN
    /\ sub[v].pc = "relay"
    /\ \/ /\ tx.claims # {}
          /\ txPool' = txPool \cup {tx}
          /\ sub' = [sub EXCEPT ![v].pc = "wait"]
          /\ UNCHANGED <<faults, dropped>>
       \/ /\ IF tx.claims = {} THEN UNCHANGED faults ELSE Fault("request")
          /\ sub' = [sub EXCEPT ![v].pc = "put"]
          /\ Drop(tx)
          /\ UNCHANGED txPool
    /\ UNCHANGED <<bridgeVars, ethVars, dbVars, heads>>

\* The broadcast times out; the transaction may still be delivered later.
BroadcastTimeout(v) ==
    /\ sub[v].pc = "wait"
    /\ Fault("request")
    /\ sub' = [sub EXCEPT ![v].pc = "put"]
    /\ UNCHANGED <<bridgeVars, ethVars, dbVars, poolVars, heads>>

Put(v) ==
    /\ sub[v].pc = "put"
    /\ SaveCursor(v, sub[v].last, sub[v].ending)
    /\ UNCHANGED <<bridgeVars, ethVars, poolVars, heads, faults>>

Final(e) == \E n \in 1 .. Height - Trailing : e \in ethChain[n]

\* Mutant: the last block of the range is left out.
ReplayShort(v) ==
    LET events == {e \in FilterLogs(1, Height - Trailing - 1) : Parses(e)} IN
    /\ v \in setup.operators
    /\ events # {}
    /\ \A tx \in txPool : tx.from # v
    /\ txPool' = txPool \cup {Tx(v, {e}) : e \in events}
    /\ UNCHANGED <<bridgeVars, ethVars, dbVars, heads, sub, faults, dropped>>

\* The replay command sends the events of a range of blocks again, each in a
\* transaction of its own.  Its list of the validator's claims is empty (the
\* validator's address is not set), so an event is sent whether or not it was
\* claimed.  The operator replays all blocks that are Trailing blocks old, when
\* no transaction of the relayer is pending.
Replay(v) ==
    LET events == {e \in LogEvents : Final(e) /\ Parses(e)} IN
    /\ v \in setup.operators
    /\ events # {}
    /\ \A tx \in txPool : tx.from # v
    /\ txPool' = txPool \cup {Tx(v, {e}) : e \in events}
    /\ UNCHANGED <<bridgeVars, ethVars, dbVars, heads, sub, faults, dropped>>

-----------------------------------------------------------------------------
(***************************************************************************)
(* A transaction in a Furynet block: its messages are CreateEthBridgeClaim *)
(* one after the other, and one that fails undoes them all.                *)
(***************************************************************************)
Voted(v, c) == AddClaim(prophecy[c.id], v, c.content)

\* The statuses that the message may leave the prophecy with; none if it fails.
Outcomes(v, c) ==
    {s \in processCompletion(Voted(v, c)) :
         MayClaim(v, c.id) /\ (s.text = "SUCCESS" => Deliverable(s.finalClaim))}

CreateEthBridgeClaims(v, claims, status) ==
    LET settled == {c \in claims : status[c].text = "SUCCESS"}
        final(c) == status[c].finalClaim
        due(d, receivers) ==
            SumFunctionOnSet([c \in settled |-> final(c).amount],
                             {c \in settled : ClaimDenom(final(c)) = d /\ final(c).receiver \in receivers})
    IN
    /\ \A c \in claims : status[c] \in Outcomes(v, c)
    /\ prophecy' = [id \in Prophecies |->
           IF \E c \in claims : c.id = id
           THEN LET c == CHOOSE c \in claims : c.id = id IN [Voted(v, c) EXCEPT !.status = status[c]]
           ELSE prophecy[id]]
    /\ supply' = [d \in Denoms |-> supply[d] + due(d, Accounts)]
    /\ balance' = [x \in Accounts \X Denoms |-> balance[x] + due(x[2], {x[1]})]
    /\ peggyTokens' = peggyTokens \cup
           {ClaimDenom(final(c)) : c \in {x \in settled : final(x).claimType = "LOCK"}}
    /\ UNCHANGED <<whitelist, power, bonded>>

Refused(tx) == \E c \in tx.claims : Outcomes(tx.from, c) = {}

\* The relayer learns that the transaction is in a block, not whether its
\* messages succeeded.
DeliverTx(tx) ==
    /\ tx \in txPool
    /\ \/ /\ \E status \in [tx.claims -> UNION {Outcomes(tx.from, c) : c \in tx.claims}] :
                 CreateEthBridgeClaims(tx.from, tx.claims, status)
          /\ UNCHANGED dropped
       \/ /\ Refused(tx)
          /\ Drop(tx)
          /\ UNCHANGED <<oracleVars, bankVars, peggyTokens>>
    /\ txPool' = txPool \ {tx}
    /\ sub' = [sub EXCEPT ![tx.from].pc =
                   IF @ = "wait" /\ tx = Tx(tx.from, sub[tx.from].batch) THEN "put" ELSE @]
    /\ UNCHANGED <<adminVars, released, ethVars, dbVars, heads, faults>>

-----------------------------------------------------------------------------

\* The relayers are about to start.
SubInit ==
    /\ setup \in Setups
    /\ prophecy = [id \in Prophecies |-> NewProphecy]
    /\ whitelist = setup.relayers
    /\ power = [v \in Validators |-> MaxPower]
    /\ bonded = Validators
    /\ balance = GenesisBalance
    /\ supply = GenesisSupply
    /\ peggyTokens = GenesisPeggy
    /\ cethReceiver = NoAccount
    /\ paused = FALSE
    /\ blacklist = {}
    /\ released = [d \in Denoms |-> 0]
    /\ ethChain = <<>>
    /\ highest = 0
    /\ heads = [v \in Validators |-> <<>>]
    /\ sub = [v \in Validators |-> [pc |-> IF v \in setup.relayers THEN "down" ELSE "none",
                                    last |-> 0, ending |-> 0, batch |-> {}]]
    /\ cursor = FirstCursor
    /\ since = FirstCursor
    /\ txPool = {}
    /\ dropped = [v \in Validators |-> {}]
    /\ faults = setup.faults

Ethereum ==
    \E logs \in SUBSET LogEvents : MineBlock(logs) \/ \E k \in 1 .. Trailing : Reorg(k, logs)

EthereumRelayer(v) == NewHead(v) \/ RelayToCosmos(v) \/ Put(v)

SubNext ==
    \/ \E v \in Validators : EthereumRelayer(v) \/ BroadcastTimeout(v) \/ LostSubscription(v)
    \/ \E tx \in txPool : DeliverTx(tx)
    \/ \E v \in setup.operators : Replay(v)

-----------------------------------------------------------------------------
(***************************************************************************)
(* Properties.                                                             *)
(***************************************************************************)

\* A validator claims an event only when it is in a block that Ethereum can no
\* longer replace, whatever reorganisations and restarts there were: the nonce
\* of a claim never comes to mean another event.
ClaimsAreFinal ==
    \A id \in Prophecies, v \in Validators, c \in Claims :
        prophecy[id].validatorClaims[v] = c
            => \E n \in 1 .. highest - Trailing : \E e \in ethChain[n] :
                   EthereumEventToEthBridgeClaim(e) = [id |-> id, content |-> c]

\* A claim of v is voted, on its way, or no longer needed.
Voiced(v, c) ==
    \/ prophecy[c.id].status.text # "PENDING"
    \/ prophecy[c.id].validatorClaims[v] = c.content
    \/ \E tx \in txPool : tx.from = v /\ c \in tx.claims

\* What the relayer has read and will not read again.
Behind(v) == ClaimsOf(FilterLogs(since[v], cursor[v] - 1))

\* No event is passed over: what lies behind the saved cursor is claimed, on its
\* way, or was in a transaction that failed.
BehindCursorHandled ==
    \A v \in Validators : \A c \in Behind(v) : Voiced(v, c) \/ c \in dropped[v]

\* A relayer that crashes picks up where it left off: every event behind its
\* saved cursor is claimed or on its way.
PicksUpWhereItLeftOff == \A v \in Validators : \A c \in Behind(v) : Voiced(v, c)

\* When every operator replays, every event that Ethereum can no longer replace
\* is paid in the end as it was logged, whatever the relayers lost by crashing,
\* by requests that failed or by transactions refused whole.
EventuallyRelayed ==
    <>[](whitelist \subseteq setup.operators =>
           \A e \in LogEvents :
               Final(e) /\ Parses(e)
                   => prophecy[e.id].status = Success(EthereumEventToEthBridgeClaim(e).content))

=============================================================================
