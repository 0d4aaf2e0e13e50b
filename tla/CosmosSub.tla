----------------------------- MODULE CosmosSub -----------------------------
(***************************************************************************)
(* cmd/ebrelayer, from Furynet to Ethereum: the CosmosSub goroutine of a   *)
(* validator's process reads every Furynet block, sends one transaction to *)
(* the CosmosBridge contract for each lock or burn event, and keeps the    *)
(* last block it has read in LevelDB.                                      *)
(*                                                                         *)
(* External: Furynet's blocks, the transaction pool of Ethereum.  The      *)
(* nonce of a transaction is read once per event, so that the retries of   *)
(* one event never put two transactions into blocks.                       *)
(***************************************************************************)
EXTENDS CosmosBridge, RelayerSetup

CONSTANTS
    FuryMessages,   \* lock and burn messages: [id, sender, type, denom, receiver, amount];
                    \* an id is the sender and the sequence of its account
    Unprefixed      \* Unprefixed[d]: d after its first "c", for the denoms that have one

VARIABLES
    furyChain,      \* external: the messages of every block
    furyNext,       \* external: those of the block being made
    furySub,        \* the goroutine: [pc, last, seen, pos, tx]
    furyCursor,     \* LevelDB: the last block read, 0 when there is none
    furySince,      \* history: the block after which the relayer reads
    ethPool,        \* external: transactions sent and not yet in a block
    sent,           \* external: <<v, id>> of the transactions in Ethereum blocks
    givenUp         \* history: messages that could not be sent

furyDbVars == <<furyCursor, furySince>>
ethPoolVars == <<ethPool, sent, givenUp>>
furyVars == <<contractVars, furyChain, furyNext, furySub, furyDbVars, ethPoolVars>>

-----------------------------------------------------------------------------
FurynetToEthereum(d) == IF d \in DOMAIN SymbolTable THEN SymbolTable[d] ELSE d

\* No message of x/ethbridge is one that cannot be converted: it checks the
\* receiver's address and that a burned coin has the prefix.
BurnLockEventToCosmosMsg(m) ==
    [id |-> m.id, type |-> m.type, receiver |-> m.receiver, amount |-> m.amount,
     symbol |-> IF m.type = "Lock" THEN FurynetToEthereum(m.denom) ELSE Unprefixed[m.denom]]

In(block) == {block[i] : i \in DOMAIN block}
Emitted(blocks) == UNION {In(blocks[n]) : n \in DOMAIN blocks}

\* The prophecies that the messages of some blocks ask for.
ProphecyClaims(blocks) == {BurnLockEventToCosmosMsg(m) : m \in Emitted(blocks)}

\* External: a message goes into the block being made, and the block is done.
FuryMessage(m) ==
    /\ Len(furyChain) < setup.blocks
    /\ m \notin Emitted(Append(furyChain, furyNext))
    /\ furyNext' = Append(furyNext, m)
    /\ UNCHANGED <<contractVars, furyChain, furySub, furyDbVars, ethPoolVars, faults>>

FuryBlock ==
    /\ Len(furyChain) < setup.blocks
    /\ furyChain' = Append(furyChain, furyNext)
    /\ furyNext' = <<>>
    /\ UNCHANGED <<contractVars, furySub, furyDbVars, ethPoolVars, faults>>

-----------------------------------------------------------------------------
(* The goroutine. *)

SetFury(v, pc, last, seen, pos, tx) ==
    furySub' = [furySub EXCEPT ![v] =
                    [pc |-> pc, last |-> last, seen |-> seen, pos |-> pos, tx |-> tx]]

\* Blocks are announced from now on.
FuryStart(v) ==
    /\ furySub[v].pc = "down"
    /\ SetFury(v, "idle", furyCursor[v], Len(furyChain), 1, "none")
    /\ UNCHANGED <<contractVars, furyChain, furyNext, furyDbVars, ethPoolVars>>

FuryStop(v) ==
    /\ SetFury(v, "down", 0, 0, 1, "none")
    /\ UNCHANGED <<contractVars, furyChain, furyNext, furyDbVars, ethPoolVars>>

\* The next block is announced.  Without a cursor it is where reading starts,
\* and its own messages are not read.
NewBlock(v) ==
    LET f == furySub[v] IN
    /\ f.pc = "idle" /\ f.seen < Len(furyChain)
    /\ SetFury(v, "read", IF f.last = 0 THEN f.seen + 1 ELSE f.last, f.seen + 1, 1, "none")
    /\ UNCHANGED <<contractVars, furyChain, furyNext, furyDbVars, ethPoolVars, faults>>

\* Every block up to the announced one has been read.
CaughtUp(v) ==
    /\ furySub[v].pc = "read" /\ furySub[v].last >= furySub[v].seen
    /\ furySub' = [furySub EXCEPT ![v].pc = "idle"]
    /\ UNCHANGED <<contractVars, furyChain, furyNext, furyDbVars, ethPoolVars, faults>>

Block(v) == furyChain[furySub[v].last + 1]
Reading(v) == furySub[v].pc = "read" /\ furySub[v].last < furySub[v].seen
Message(v) == Block(v)[furySub[v].pos]
AtMessage(v) == Reading(v) /\ furySub[v].pos <= Len(Block(v))

\* On to the next message of the block.
Step(f) == [pc |-> "read", last |-> f.last, seen |-> f.seen, pos |-> f.pos + 1, tx |-> "none"]

\* handleBurnLockMsg: the transaction is sent, or five attempts fail and the
\* message is left behind.
HandleBurnLockMsg(v) ==
    /\ AtMessage(v)
    /\ LET p == BurnLockEventToCosmosMsg(Message(v)) IN
       \/ /\ ethPool' = ethPool \cup {<<v, p>>}
          /\ furySub' = [furySub EXCEPT ![v].pc = "sent", ![v].tx = "pool"]
          /\ UNCHANGED <<givenUp, faults>>
       \/ /\ Fault("request")
          /\ givenUp' = givenUp \cup {<<v, p>>}
          /\ furySub' = [furySub EXCEPT ![v] = Step(@)]
          /\ UNCHANGED ethPool
    /\ UNCHANGED <<contractVars, furyChain, furyNext, furyDbVars, sent>>

\* The receipt is there, whatever it says.
Receipt(v) ==
    /\ furySub[v].pc = "sent" /\ furySub[v].tx = "block"
    /\ furySub' = [furySub EXCEPT ![v] = Step(@)]
    /\ UNCHANGED <<contractVars, furyChain, furyNext, furyDbVars, ethPoolVars, faults>>

\* No receipt within a minute.  The next attempts have the same nonce: they are
\* refused while the first is in the pool or in a block, and one replaces it
\* if it was lost.
NoReceipt(v) ==
    /\ furySub[v].pc = "sent"
    /\ \/ /\ furySub[v].tx = "lost"
          /\ furySub' = [furySub EXCEPT ![v].pc = "read"]
          /\ UNCHANGED faults
       \/ /\ furySub[v].tx # "lost" /\ Fault("request")
          /\ furySub' = [furySub EXCEPT ![v] = Step(@)]
    /\ UNCHANGED <<contractVars, furyChain, furyNext, furyDbVars, ethPoolVars>>

\* Mutant: the block is saved as read before its messages are sent.
FuryPutEarly(v) ==
    /\ Reading(v)
    /\ SetFury(v, "read", furySub[v].last + 1, furySub[v].seen, 1, "none")
    /\ furyCursor' = [furyCursor EXCEPT ![v] = furySub[v].last + 1]
    /\ furySince' = [furySince EXCEPT ![v] = IF furyCursor[v] = 0 THEN furySub[v].last ELSE @]
    /\ UNCHANGED <<contractVars, furyChain, furyNext, ethPoolVars, faults>>

\* lastProcessedBlock is saved after the last message of the block.
FuryPut(v) ==
    /\ Reading(v) /\ furySub[v].pos > Len(Block(v))
    /\ SetFury(v, "read", furySub[v].last + 1, furySub[v].seen, 1, "none")
    /\ furyCursor' = [furyCursor EXCEPT ![v] = furySub[v].last + 1]
    /\ furySince' = [furySince EXCEPT ![v] = IF furyCursor[v] = 0 THEN furySub[v].last ELSE @]
    /\ UNCHANGED <<contractVars, furyChain, furyNext, ethPoolVars, faults>>

\* The Bech32 form of a 20-byte account is 32 characters after "fury" and "1",
\* and 6 of checksum; MyDecode takes 42 bytes of the sender ("the length of
\* furynode acc account is 42", for a prefix of three).
AccountLength == 4 + 1 + 32 + 6
MyDecodeLength == 42

\* A message is processed when its whole sender and its sequence are those
\* decoded from one of the validator's transactions in Ethereum blocks, reverted
\* ones included: with that length, never.
MessageProcessed(v, m) == AccountLength = MyDecodeLength /\ <<v, m.id>> \in sent

\* Mutant: the last block of the range is left out.
FuryReplayShort(v) ==
    LET older == UNION {In(furyChain[n]) : n \in 1 .. Len(furyChain) - 1}
        missed == {m \in older : ~MessageProcessed(v, m)}
    IN
    /\ v \in setup.operators
    /\ missed # {}
    /\ \A q \in ethPool : q[1] # v
    /\ ethPool' = ethPool \cup {<<v, BurnLockEventToCosmosMsg(m)>> : m \in missed}
    /\ UNCHANGED <<contractVars, furyChain, furyNext, furySub, furyDbVars, sent, givenUp, faults>>

\* The replay command sends every message that is not processed.  The operator
\* runs it when no transaction is pending.
FuryReplay(v) ==
    LET missed == {m \in Emitted(furyChain) : ~MessageProcessed(v, m)} IN
    /\ v \in setup.operators
    /\ missed # {}
    /\ \A q \in ethPool : q[1] # v
    /\ ethPool' = ethPool \cup {<<v, BurnLockEventToCosmosMsg(m)>> : m \in missed}
    /\ UNCHANGED <<contractVars, furyChain, furyNext, furySub, furyDbVars, sent, givenUp, faults>>

-----------------------------------------------------------------------------
(* External: Ethereum's blocks. *)

\* The goroutine waits for the receipt of its transaction for p.
Awaits(v, p) ==
    furySub[v].pc = "sent" /\ furySub[v].tx # "block" /\ BurnLockEventToCosmosMsg(Message(v)) = p

\* What becomes of that transaction.
Notify(v, p, where) ==
    furySub' = [furySub EXCEPT ![v].tx = IF Awaits(v, p) THEN where ELSE @]

\* The call succeeds, or it reverts and is in the block all the same.
MineTx(v, p) ==
    /\ <<v, p>> \in ethPool
    /\ newProphecyClaim(v, p) \/ (~ENABLED newProphecyClaim(v, p) /\ UNCHANGED contractVars)
    /\ ethPool' = ethPool \ {<<v, p>>}
    /\ sent' = sent \cup {<<v, p.id>>}
    /\ Notify(v, p, "block")
    /\ UNCHANGED <<furyChain, furyNext, furyDbVars, givenUp, faults>>

LoseTx(v, p) ==
    /\ <<v, p>> \in ethPool
    /\ Fault("lost")
    /\ ethPool' = ethPool \ {<<v, p>>}
    /\ Notify(v, p, "lost")
    /\ givenUp' = IF Awaits(v, p) THEN givenUp ELSE givenUp \cup {<<v, p>>}
    /\ UNCHANGED <<contractVars, furyChain, furyNext, furyDbVars, sent>>

-----------------------------------------------------------------------------

FuryInit ==
    /\ ContractInit
    /\ furyChain = <<>>
    /\ furyNext = <<>>
    /\ furySub = [v \in Validators |-> [pc |-> IF v \in setup.relayers THEN "down" ELSE "none",
                                        last |-> 0, seen |-> 0, pos |-> 1, tx |-> "none"]]
    /\ furyCursor = [v \in Validators |-> 0]
    /\ furySince = furyCursor
    /\ ethPool = {} /\ sent = {} /\ givenUp = {}

FuryRelayer(v) ==
    NewBlock(v) \/ CaughtUp(v) \/ HandleBurnLockMsg(v) \/ Receipt(v) \/ FuryPut(v)

FuryNext ==
    \/ FuryBlock
    \/ \E v \in Validators : FuryRelayer(v) \/ NoReceipt(v)
    \/ \E q \in ethPool : MineTx(q[1], q[2]) \/ LoseTx(q[1], q[2])
    \/ \E v \in setup.operators : FuryReplay(v)

-----------------------------------------------------------------------------
(* Properties. *)

\* What v's relayer has read and will not read again.
FuryBehind(v) == ProphecyClaims(SubSeq(furyChain, furySince[v] + 1, furyCursor[v]))

\* No message is passed over: what lies behind the saved cursor was sent to the
\* contract, is on its way, or was given up after five attempts.
FuryBehindCursorHandled ==
    \A v \in Validators : \A p \in FuryBehind(v) :
        \/ <<v, p.id>> \in sent
        \/ <<v, p>> \in ethPool \cup givenUp

\* A message asks for p, and operators of a quorum replay.
Due(p) ==
    /\ p \in ProphecyClaims(furyChain)
    /\ Reached(SumFunctionOnSet(ethPower, setup.operators))

\* p is paid, or the contracts refuse to pay it.
Settled(p) == completed[p] # <<>> \/ ~Payable(p) \/ bankPaused

=============================================================================
