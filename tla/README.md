# Verification of furynode

TLA+ specifications of the furynode chain (a Cosmos SDK application) and of its
Ethereum bridge, TLC configurations that check them on small instances, and
TLAPS proofs of the main properties for every size. `PROJECT.json` lists the
components, the runs, the hazards each property is aimed at and, for every
definition, the source lines that it models.

## The system

| Part | State | Operations | Talks to |
|------|-------|------------|----------|
| x/oracle | prophecies, validator whitelist | claims, whitelist updates | staking, x/ethbridge |
| x/ethbridge | peggy tokens, ceth receiver, pause, blacklist | claims, lock, burn, rescue, admin messages | x/oracle, bank |
| cmd/ebrelayer | last processed block of each chain | watch, claim, prophesy, replay | both chains |
| Valset, Oracle, CosmosBridge contracts | validator powers, votes | prophecy claims, validator set changes | BridgeBank, relayers |
| BridgeBank contracts | holdings, whitelists, symbol maps | lock, burn, unlock, mint, administration | CosmosBridge, Blocklist |
| Blocklist contract | list and index | add, remove, batches | BridgeBank |
| x/clp | pools, providers, unlocks, thresholds, periods, PMTP rates | swaps, liquidity, rewards, distributions, policies | bank, x/margin, x/tokenregistry |
| x/margin | positions ("MTPs"), counters, pool health and rates | open, close, interest, forced closing | x/clp, bank |
| x/dispensation | distributions, records, user claims, mint counter | create, run, claim, mint | bank |
| x/ibctransfer, x/tokenregistry | registry; escrows and packets (SDK) | transfers, received packets, registration | bank, other chains |
| x/admin, app/ante | accounts per role; none | role checks; checks of a transaction | every administrator's message |

What makes it hard: a message is atomic (an error or a panic undoes all its
writes) but begin- and end-blockers are not; the bridge is two chains and a
process per validator, joined by transactions that can fail, be lost or be sent
twice and by a cursor on disk; votes stay stored while powers,
whitelists and the total they are measured against change; every amount is
rounded somewhere; and several quantities are kept twice (a total and its
parts, an index and its list, a module account and the books about it) by code
that adjusts each by differences.

## Modules and the code they model

**Oracle** (x/oracle). `prophecy` is the store's `DBProphecy`: the two maps
`claimValidators` (sequences, as in Go) and `validatorClaims`, and the status.
`ProcessClaim` follows keeper.go guard by guard (`MayClaim`), `AddClaim` and
`processCompletion` with `FindHighestClaim`. The Go map iteration is a
nondeterministic choice among the highest claims. Powers and the bonded set
belong to staking, an environment that changes them at any time. `Spec` lets
the whitelist change in any way, `GrowSpec` only lets it grow.

**EthBridge** (x/ethbridge) extends Oracle. `CreateEthBridgeClaim` is the whole
handler: the vote, and the payment if the vote decides; if the payment fails
the vote is undone with it. Lock, burn, the ceth fee, rescue, receiver
account, pause, blacklist and whitelist messages are actions. **BridgeLedger**
is what the bridge promises: every event is paid at most once, minting happens
with a payment and burning with a release. `EthBridge!Ledger` is the refinement
mapping (the paid content of an event is the final claim of its prophecy).

**BridgeBank**, **CosmosBridge** (contracts). BridgeBank has the holdings, the
token lists and the symbol maps with their look-up in lower case; CosmosBridge
composes it with Valset and Oracle.sol: `newProphecyClaim` checks, votes and,
at the threshold, pays through `unlock` or `mintBridgeTokens`, all or nothing.
`completed` records the assets that each prophecy was paid in (history; the
contracts keep no such flag). `ManageValset` is everything an operator can do to the
validator set, adding an active validator again and `recoverGas` included.
`OperatorSpec` has it as it is; `SteadySpec` has it with all of BridgeBank, under an
operator who lets the total power grow only while no prophecy has been paid. `Admitted`
are the contracts that the whitelists took in or that were locked.

**EthereumSub** (cmd/ebrelayer, Ethereum to Furynet) extends EthBridge. Ethereum is
a sequence of blocks of logs that can be reorganised down to `Trailing` blocks.
Each validator's goroutine is `sub` with a program counter: `NewHead` searches
the blocks from the cursor to `Trailing` below an announced head, `RelayToCosmos`
sends the claims of the range as one transaction, `DeliverTx` is that transaction
in a Furynet block (all its `CreateEthBridgeClaim`s or none), `Put` saves the
cursor. Requests fail, broadcasts time out and the transaction still arrives,
subscriptions are lost. `Replay` is the operators' command. `dropped` (history)
holds the claims that a failed transaction took down; the code only logs them.

**CosmosSub** (cmd/ebrelayer, Furynet to Ethereum) extends CosmosBridge. The
goroutine reads block after block and sends a transaction per lock or burn
message, waits for its receipt, tries again with the same nonce and gives up after five
attempts, and saves the block after its last message. Transactions are mined, revert or
are lost. `FuryReplay` leaves out the messages that `MessageProcessed` recognises. MyDecode takes 42
bytes for the sender ("the length of furynode acc account is 42", cosmos.go:275), and an address
of this chain has 43 (`fury`, `1`, 38 characters): none is recognised, and a replay sends
every message of its range again. The contract refuses what a validator voted for before.

**Relayer** extends both (what they share is in **BridgeValidators** and **RelayerSetup**,
and the contracts' prophecies and powers are `EthProphecies` and `ethPower`): a process has both goroutines and one database,
a crash ends both, the locks and burns of users on each side are what the
other side's goroutine reads. This is the bridge from end to end, and the only
place where a statement about both chains' coins (`Backed`) can be made.

**Blocklist** (contract): the list, the index and swap-removal, one address at a
time and in batches. A batch threads the lists through its turns, as the loop does.

**ClpMath**, **Pmtp**, **Clp** (x/clp). ClpMath has the arithmetic: swaps,
withdrawals, units, asymmetric adds with the integer square root, and `sdk.Dec` as whole
numbers of its last decimal, rounded exactly where the code rounds. `DecUnit` of them make one: 10^18 in
the code, 20 in the runs, so that small pools meet the errors that the code's division
has at depths beyond 10^18. Pmtp is the native price
policy: windows, epoch and block counters, rates. Clp has pools, providers with
their unlock requests, the module account (`bank`), the liquidity protection
threshold and the rewards accumulator; one action per message, and `NextBlock`
for the end- and begin-blockers in their order. `dust` is what decommissioned
pools left in the module account. A setup (`setup`, constant along a behaviour)
is a genesis state with the messages sent on it.

**Margin** (x/margin) extends Clp. Positions, counters and pool information
(health, interest rate, unsettled liabilities) are its state. `Open`, `Close`,
`AdminClose`, `ForceClose` and the parameter messages are atomic actions.
`MarginBlock` is a block: x/clp's end-blocker, then margin's begin-blocker,
which charges and judges every position of every enabled pool in the order of
the store (`ProcessMTP`, folded over the positions), then x/clp's. What the
begin-blocker wrote before an error or a panic of one position stays, as in the
code. `failedCloses` (history) names positions whose forced closing stopped
half-way; the code only logs them. The surcharge of a pool in distress,
`rateMax * (1 - e^..)`, is any value in its range. The fund's address
accepts coins, refuses them (a blocked address) or cannot be parsed.

**Dispensation** (x/dispensation). Records are kept by status and key as in the
store (the key has no runner, as in keys.go); `CreateDistribution`,
`RunDistribution`, `CreateUserClaim`, a begin-blocker that mints up to the
maximum, and `Restart`: the chain starts again from `ExportGenesis`, which has
the records but not the mint counter.

**IbcTransfer** (x/ibctransfer, x/tokenregistry). Coins leave into a channel's escrow
and come back; coins of other chains come as vouchers; an alias of fewer decimals is
burned and paid from the escrow in the coin it stands for. The registry's
entries come and go at any time. The SDK's transfer module, the packets and
the other chains are external: a packet arrives, is refused or times out.

**Custody** puts Dispensation and IbcTransfer side by side: both keep users' coins
until somebody else acts. They share no steps, so a behaviour shows one of them.

The `MC...` modules give the constants values; the `.cfg` files say which
specification and which properties a run uses.

## Runs

| Run | Shows |
|-----|-------|
| oracle | Votes are consistent, decided prophecies are final, the map order never decides, success needs a whitelisted quorum and failure is hopeless, while the whitelist only grows. |
| oracle_removal_order (violation) | After removals from the whitelist two claims can both have the quorum of the remaining power, and the map order decides between them. |
| bridge_any | Any claims in any order, with users and administrators in between: the bridge implements BridgeLedger, a success could be paid, the module account keeps only fees. |
| contracts | Valset's totals never fall short of the validator set and drift only where `addValidator` and `recoverGas` let them; payment once; payment in the right asset and locked tokens retrievable unless another admitted contract has the same symbol in lower case. |
| contracts_paid_twice (violation) | After the total power grew, a paid prophecy counts as pending and is paid again. |
| blocklist | The indexed list behaves as a set. |
| relayers | The bridge from end to end with reorganisations, crashes, failed requests, lost transactions, pauses and replays: claims are of blocks that stay, no event or message is passed over silently, enough votes mean paid, both pegs balance across the chains, and what replaying operators see is paid in the end. |
| relayer_crash (violation) | A relayer that crashes between broadcast and `Put` sends its range again together with newer events; the repeated claim fails the transaction, and the new events stay behind the cursor unclaimed. |
| custody | Unpaid drops are backed, minting keeps to its maximum, a diligent runner's drops are settled; the escrow of each channel covers what may come back, aliases included, and every voucher is backed. |
| pools | x/clp, PMTP and x/margin: units, balances, custody, liabilities, unlocks, counters, rewards and rates agree; what can stop a block; removals, asymmetric adds and losses keep to their arithmetic. |
| clp_queue (violation) | A removal answered with "request has been queued" is not in the queue. |
| margin_half_closed (violation) | After a forced closing that stopped half-way the module account falls below the pools' books. |

### Bounds

Two to four validators with powers up to 2, one or two prophecies and two or
three contents: enough for ties, rival majorities, votes before and after every
kind of whitelist or power change. In bridge_any, which checks safety only, the validators
are interchangeable and TLC treats them as symmetric. Contracts: two validators of power 0 or 1 and counts up to `MaxCount` = 2 (a removal and
a second `addValidator` of the one that is left already make the count wrong), two ERC-20s whose symbols are `USDT` and
`usdt`, and one bridge token next to ether.
Pools: two assets and two providers, balances up to `setup.depth`; small odd
balances make every quotient round. There are fourteen setups, each aimed at one
area (unlocking under changing lock periods, the life of a pool, trading with
fees and protection, distributions, rewards, policies, positions on either
side, both sides, changing parameters, liquidity leaving under a position,
decommissioning a pool that swaps have emptied under a position, a distribution at
rate one that takes all that an enabled pool has of the native coin, and one where adds and removals
follow it),
three to six blocks long. Epochs of one and two blocks make positions be charged
both at the epoch and when they are closed within it. Fees are in tenths and interest rates in quarters,
leverage in halves. Relayers: six setups, Ethereum's logs alone, Furynet's messages alone or
both; two relayers, one of them starting without a cursor, or one relayer and its
operator; `Trailing` is 1, up to three Ethereum and two Furynet blocks (two and one when both
carry something), four possible logs (among them two that share a nonce, so that a
reorganisation changes what it means, and one whose recipient is no address), two
messages, and one fault per behaviour, of any kind; two for the goroutine that retries,
so that a crash can meet a failed request. What lies beyond these bounds is proved for the safety
properties (see Proofs). Custody: two recipients (one of them blocked), two runners of whom
one never runs, a maximum that is not a multiple of the minting per block, one restart;
two channels, three packets, a coin of two decimals with an alias of
one, of which some is abroad from the start.
`CHECK_DEADLOCK FALSE` in the pools and relayers runs because the heights are
bounded.

### Fairness

`RelayerSpec`: the goroutines take their next step and a stopped process is started again
(the service manager's doing), each chain puts the transactions it has been sent into
blocks, and the operators that the setup names go on running the replay commands.
All weak: a step that stays possible is taken. Nothing is assumed of requests
(a failed one is a fault, of which there are finitely many), users, blocks of Ethereum,
pauses or processes whose operator does not replay; without operators nothing is promised, which is what
relayer_crash shows to be necessary. `CustodySpec`: blocks keep coming, and a
diligent runner sends another run message while it has records. No fairness is
assumed of users or administrators.

## Proofs

The theorems hold for every value of the constants that the named `ASSUME`s of the
modules allow; TLC evaluates those on the runs. All are of the form `Spec => []Inv`,
`Spec => [][A]_vars` or a refinement, and of the specifications the runs use.

**EthBridgeProofs, x/oracle.** Any finite sets of validators, prophecies and contents,
any powers. `TypeCorrect`, `Finality` and `VotesAreConsistent` for `Spec`;
`QuorumBehindSuccess`, `FailureMeansHopeless` and `Determinism` (for a ratio above one
half, as the code's 0.7) for `GrowSpec`. The inductive invariant `GrowInv` adds to types
and consistency that every voter is whitelisted; without it the claimed power may exceed
the total, which is what oracle_removal_order shows. Powers are counted as sets of power
units, so that the arguments are about disjoint subsets of a finite set.

**EthBridgeProofs, x/ethbridge.** Any accounts, denoms, fees and contents.
`BridgeTypeCorrect`, `SuccessPayable`, `ModuleFeesOnly`, and `BridgeImplementsLedger`: the
initial states map to those of BridgeLedger and each message maps to one of its steps or
to none. The invariant adds to the types that the supply of a denom covers the sum of
its balances (assumed of the genesis, as x/bank's own invariant demands); without it a burn could
make a supply negative.

**ContractProofs, CosmosBridge.** Any validators, powers, threshold, prophecies and
tokens, under `SteadySpec`. `SteadyTyped`; `SteadyPaidOnce`, whose invariant adds that a
paid prophecy has the power the threshold asks for, which is stable exactly as long as
the total does not grow; `SteadyTotals`, that Valset's counters, kept by differences, cover
the count and the sum of its active validators, are exact together, and leave them only by
adding an active validator or by `recoverGas`. `SteadyPaidInOwnAsset` and `SteadyRetrievable` have one
hypothesis, that no token is in the bank at first, which is true of the instance of the
contracts run. The properties themselves exclude the case of two admitted contracts with one symbol in
lower case, which overwrite each other in `lowerToUpperTokens`. The invariant `SymbolInv` says that
the map has an admitted symbol under the lower case of each admitted one (`Entered`), that
what is held is found in `lockedTokenList` under its symbol (`Located`), and that the symbol
of an opened burn prophecy still leads to a locked asset (`Opened`) while no other symbol shares its lower case.

**ContractProofs, Blocklist.** Any addresses and batches: `ListedAreFound`,
`SinglesAreSetOperations` and `BatchesAreSetOperations`, by the invariant that the list's
entry at an index points back at it. The case that matters is the removal of the last entry.

**DispensationProofs.** `RecordsAreBacked` and `MintStaysWithinMax` of x/dispensation, any
runners, recipients and limits: the invariant is kept turn by turn through the loop of
`DistributeDrops`, in which one record can fail while others are paid.

**IbcTransferProofs.** `EscrowAlwaysCovers` and `VouchersAreBacked` of x/ibctransfer, any
channels, coins and aliases: one invariant, since a voucher is backed only if what was sent
back is counted where it is. Assumed: an alias stands for a coin that is none, of no fewer
decimals, and the first escrow covers what is abroad.

**EthereumSubProofs, CosmosSubProofs, RelayerProofs.** The bridge from end to end, `RelayerSpec`, any number of relayers, blocks, events, messages, faults and replays
and any trailing distance.

- `ClaimsStayFinal` and `CursorsPassNothing` rest on `SubInv`: every claim in a batch, in
  the pool or in a prophecy is that of an event in a block below `highest - Trailing`, and
  every event behind a cursor, in memory or in LevelDB, is claimed, on its way, or was in
  a transaction that failed.
- `FuryCursorsPassNothing` rests on `FuryInv`: the same of the messages of Furynet, up to
  the goroutine's place within the block, and that a transaction waited for is where
  the goroutine believes it to be.
- `EnoughIsPaid` rests on `ContractsOK`: votes reach the threshold if and only if the
  prophecy is paid.
- `AlwaysBacked`, that both pegs balance, rests on `CrossingInv`: all of the above, and two
  sums that no step changes. `SpareEther` is the ether in the bank less the supply of ceth, the locks not yet
  paid and the burns not yet paid, and is zero; `AllFury` is the fury there is on both chains
  and on its way, and is the genesis supply. Reorganisations may only take away logs that
  nobody has claimed, so `SubInv` is needed; a prophecy must not be paid twice or unasked,
  so `ContractsOK` and `PoolOK` are.

The lemmas of CosmosSubProofs are in the terms of CosmosSub; its last part shows that each
step of Relayer is one of the steps that they are about.
Assumed: logs and messages are claims and prophecies of the two sides
(`LogAssumption`, `MessageAssumption`), messages that differ ask for prophecies
that differ, and only ether and fury cross (`CrossingAssumption`).

**SumLemmas** has what all the totals need: a sum over a finite set can be taken in any
order, so it changes by what one element changes. `SumFunctionOnSet` folds in an order
that `CHOOSE` picks. This is induction over a set, and the provers at hand cannot
instantiate an induction theorem; a smallest counterexample is picked and refuted
instead. The loops of DistributeDrops and of the Blocklist's batches are
recursive functions and are treated alike: a function with the recursion's equations
exists, and the least turn at which an invariant could fail is refuted.

Model-checked only:

- liveness (`EventuallyRelayed`, `EventuallyPaidOnEthereum`, `DropsSettle`), which needs
  fairness and `ENABLED`;
- everything about pools and positions. `Clp` and `Margin` are built from
  folds over the stores and roundings of products; most of their invariants would need
  non-linear integer arithmetic through several handlers, which the SMT solver does
  not find;
- the violations, each of which is one behaviour.

## What the models leave out

Gas, signatures, encodings, events, queries and the SDK's own modules beyond what
the code asks of them. Users' own balances are not part of Clp and Margin: a
message that fails for lack of funds changes nothing, and is not an action.
Amounts do not overflow. Transfers of rewards to providers succeed.
Positions are opened only between a pool's asset and the native one; `OpenLong`
does not check this. Only some setups give `ModifyLiquidityProtectionRates` a threshold above the
maximum, which it accepts, and only two have a distribution rate of one: both can stop the chain's
blocks. `HaltsHaveCauses` states that nothing else does but one: a removal by basis points
of half of a pool's last unit truncates what is left to zero (calculations.go:73). The pool keeps a
balance, an add to it is given zero units, and a distribution that is due then divides by zero
(provider_distribution.go:252). The units themselves agree with the providers' (`UnitsAgree`) until an
add reaches a pool with one side empty: CalculatePoolUnits counts from scratch there
(calculations.go:144, "it's not clear what should be done"), and the other providers keep their units.
Of the removal queue only the
request is modelled, since no request is ever stored (clp_queue). In Relayer only
ether and fury cross; other tokens are in BridgeBank and CosmosBridge. The recipients of its locks and
burns are not put to `validFuryAddress`: the contract asks for 42 bytes that start with `sif`, which no
address of this chain is, so that with the check no log would ever be made (BridgeBank has it). Ethereum's
reorganisations are never deeper than `Trailing`, which is what the relayer's
constant promises. An operator replays all blocks, when none of its transactions is
pending. `EnoughMeansPaid` is checked with a fixed validator set: when the total power
shrinks between two votes, an unpaid prophecy comes to count as completed and
refuses further votes (the counterpart of contracts_paid_twice). `EventuallyPaidOnEthereum`
promises nothing of a prophecy while BridgeBank is paused. In IbcTransfer a denom's decimals and what it is an alias of
are constants: registering a denom again can change whether it has an entry and its
permissions, not what it stands for. An alias is never a voucher, which `VouchersAreBacked` relies on.

## Not modelled

- Generated code: of some 92,000 lines of the implementation about 60,000 are
  protobuf messages and gateways and about 5,000 Ethereum bindings. Most of the
  rest that no module maps is CLI, REST and query code, module wiring, genesis
  tools and test helpers. The share of lines that the modules map is small for that
  reason; of the keepers, handlers, relayer goroutines and contracts, what changes
  state is modelled.
- x/admin: a set of accounts per role, added and removed by accounts of one role,
  that one check reads. The modules take administrators' messages as authorised.
- app/ante: checks of one transaction before it runs (minimum fee, minimum
  commission, voting power after a delegation), with no state of their own. Each
  message is checked against the state before the transaction.
- Genesis export of the modules other than x/dispensation: listings of stores,
  except x/margin's, which leaves the positions out while the pools keep their liabilities.
- Upgrade handlers and migrations: one-off rewriting of old stores.
- `listMissedEvent` of the relayer, which prints what a replay would send.
- BridgeRegistry, the pauser role and the upgrade storage contracts.

## Plan

1. Proofs for the pools: the counters of Pmtp for every policy, then `UnitsAgree` and the
   books of x/clp for any number of pools and providers, then `OpenCountAgrees` and
   `LiabilitiesAgree` of x/margin. `SumLemmas` has what their totals need.
2. Other tokens in Relayer, and a validator set that changes while events cross.
3. The checks of app/ante as transactions of several messages over staking.
