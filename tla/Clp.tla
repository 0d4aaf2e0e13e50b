-------------------------------- MODULE Clp ---------------------------------
(***************************************************************************)
(* x/clp: liquidity pools of the native asset against one external asset   *)
(* each, their liquidity providers, swaps, unlocking of liquidity, provider*)
(* distributions and rewards paid at the end of a block, and the liquidity *)
(* protection threshold; priced with the PMTP running rate (module Pmtp).  *)
(*                                                                         *)
(* A message that the code refuses, or that panics, is a disabled action:  *)
(* baseapp discards everything such a transaction wrote.  User wallets are *)
(* not modelled (a user always has the coins); the module account is.      *)
(***************************************************************************)
EXTENDS Pmtp, ClpMath, FiniteSetsExt, SequencesExt, Functions, TLC

CONSTANTS
    Native,           \* the settlement asset
    AssetOrder,       \* the external assets, in the order of the store's keys
    Providers,        \* liquidity provider addresses
    PoolThreshold,    \* types.PoolThrehold
    Setups            \* genesis contents, and the messages sent on them

VARIABLES
    setup,            \* the element of Setups this behaviour started from
    pools,            \* stored pools, by external asset
    lps,              \* stored liquidity providers, by <<asset, provider>>
    bank,             \* balances of the clp module account, by denom
    dust,             \* what decommissioned pools left in that account
    params,           \* rewards, distribution, protection, fee and permission parameters
    threshold,        \* CurrentFuryLiquidityThreshold
    rewards,          \* block distribution accumulator, and totals granted and minted
    queue,            \* removal requests stored by QueueRemoval
    told              \* removals answered with ErrQueued

clpVars == <<setup, pools, lps, bank, dust, params, threshold, rewards, queue, told>>
allVars == <<pmtpVars, clpVars>>

Assets == ToSet(AssetOrder)
Denoms == Assets \cup {Native}

-----------------------------------------------------------------------------
(* Pools and providers *)

\* types.Pool: balances, units, and what margin positions owe and hold.
PoolWith(p, n, e, units) ==
    [native |-> n, external |-> e, units |-> units,
     nativeLiabilities |-> p.nativeLiabilities, externalLiabilities |-> p.externalLiabilities,
     nativeCustody |-> p.nativeCustody, externalCustody |-> p.externalCustody]

NoDebt == [nativeLiabilities |-> 0, externalLiabilities |-> 0,
           nativeCustody |-> 0, externalCustody |-> 0]

\* ExtractDebt: depths count what positions owe the pool.
NativeDepth(p) == p.native + p.nativeLiabilities
ExternalDepth(p) == p.external + p.externalLiabilities

LpsOf(a) == { k \in DOMAIN lps : k[1] = a }
WithoutKey(f, k) == Restrict(f, DOMAIN f \ {k})
TotalUnits(unlocks) == FoldLeft(LAMBDA t, r : t + r.units, 0, unlocks)

Sum(f, S) == MapThenSumSet(LAMBDA x : f[x], S)

\* The registry entry of denom d with permission p (x/tokenregistry).
HasPermission(d, p) == d \in DOMAIN params.permissions /\ p \in params.permissions[d]
Registered(d) == d \in DOMAIN params.permissions

\* GetSwapFeeRate; x/clp always asks for the rate of a pool without margin.
SwapFee(d) == params.fees[d]

\* Bound: no add or swap takes a balance of a pool or its units above setup.depth.
WithinDepth(p) == p.native <= setup.depth /\ p.external <= setup.depth /\ p.units <= setup.depth

-----------------------------------------------------------------------------
(* Liquidity protection *)

\* GetNativePrice and CalcFuryValue: the price of an amount of the native
\* asset, in the asset the threshold is expressed in.
NativePriceKnown ==
    LET a == params.protection.asset
    IN  a = Native \/ (a \in DOMAIN pools /\ NativeDepth(pools[a]) > 0)

FuryValue(amount) ==
    LET a == params.protection.asset
    IN  IF a = Native THEN amount
        ELSE LET spot == DecQuo(NewDec(ExternalDepth(pools[a])), NewDec(NativeDepth(pools[a])))
                 price == DecMul(spot, NewDec(pmtpRates.running + 1))
             IN  RoundInt(DecMul(price, NewDec(amount)))

\* Mutant: a sell one above the threshold passes.
SellBlockedLate(amount) == threshold + 1 < FuryValue(amount)

\* IsBlockedByLiquidityProtection
SellBlocked(amount) == threshold < FuryValue(amount)

\* Mutant: a buy is not capped at the maximum.
ThresholdUncapped(amount) == threshold + FuryValue(amount)

\* MustUpdateLiquidityProtectionThreshold
ThresholdAfterSell(amount) == threshold - FuryValue(amount)
ThresholdAfterBuy(amount) ==
    IF params.protection.max - threshold < FuryValue(amount)
    THEN params.protection.max ELSE threshold + FuryValue(amount)

-----------------------------------------------------------------------------
(* Unlock records: sequences of [height, units] *)

\* Mutant: a request can be used in the block it was made.
MaturedAtOnce(r) == r.height <= height

Matured(r) == r.height + params.lock <= height

\* PruneUnlockRecords
Pruned(unlocks) ==
    SelectSeq(unlocks, LAMBDA r : r.units > 0 /\ height < r.height + params.lock + params.cancel)

\* Mutant: the records are copies, and keep their units.
UseUnlockedCopy(unlocks, units, any) ==
    FoldLeft(LAMBDA acc, r :
               LET t == IF any \/ Matured(r) THEN Least(acc.left, r.units) ELSE 0
               IN  [left |-> acc.left - t, records |-> Append(acc.records, r)],
             [left |-> units, records |-> <<>>], unlocks)

\* UseUnlockedLiquidity: takes units from the records in order, from matured
\* ones only unless any.
UseUnlocked(unlocks, units, any) ==
    FoldLeft(LAMBDA acc, r :
               LET t == IF any \/ Matured(r) THEN Least(acc.left, r.units) ELSE 0
               IN  [left |-> acc.left - t,
                    records |-> Append(acc.records, [height |-> r.height, units |-> r.units - t])],
             [left |-> units, records |-> <<>>], unlocks)

EnoughUnlocked(used) == params.lock = 0 \/ used.left = 0

-----------------------------------------------------------------------------
(* Messages of users *)

\* SwapOne, with UpdateBalances: x of the other asset into pool p.
SwapOne(p, toFury, x, fee) ==
    LET X == IF toFury THEN ExternalDepth(p) ELSE NativeDepth(p)
        Y == IF toFury THEN NativeDepth(p) ELSE ExternalDepth(p)
        y == CalcSwapResult(toFury, X, x, Y, pmtpRates.running, fee)
    IN  [ok     |-> y < (IF toFury THEN p.native ELSE p.external),
         result |-> y,
         pool   |-> IF toFury THEN PoolWith(p, p.native - y, p.external + x, p.units)
                              ELSE PoolWith(p, p.native + x, p.external - y, p.units)]

CreatePool(a, p, n, e) ==
    /\ n >= PoolThreshold /\ n > 0 /\ e > 0
    /\ HasPermission(a, "CLP")
    /\ a \notin DOMAIN pools
    /\ bank[Native] + n <= setup.depth /\ bank[a] + e <= setup.depth     \* bound
    /\ LET c == CalculatePoolUnits(0, 0, 0, n, e, SwapFee(Native), SwapFee(a), pmtpRates.running)
       IN  /\ pools' = (a :> PoolWith(NoDebt, n, e, c.pool)) @@ pools
           /\ lps' = (<<a, p>> :> [units |-> c.lp, unlocks |-> <<>>]) @@ lps
    /\ bank' = [bank EXCEPT ![Native] = @ + n, ![a] = @ + e]
    /\ UNCHANGED <<pmtpVars, setup, dust, params, threshold, rewards, queue, told>>

\* The refusals of an add that first swaps, and the threshold it leaves.
AddSwapAllowed(a, c) ==
    /\ c.status = "SellNative" =>
         /\ ~HasPermission(Native, "DISABLE_SELL") /\ ~HasPermission(a, "DISABLE_BUY")
         /\ params.protection.active => NativePriceKnown /\ ~SellBlocked(c.swap)
    /\ c.status = "BuyNative" =>
         /\ ~HasPermission(a, "DISABLE_SELL") /\ ~HasPermission(Native, "DISABLE_BUY")
         /\ params.protection.active => NativePriceKnown /\ threshold <= params.protection.max

AddThreshold(a, c) ==
    IF ~params.protection.active THEN threshold
    ELSE CASE c.status = "NoSwap" -> threshold
           [] c.status = "SellNative" ->
                ThresholdAfterSell(CalculateDiscountedSentAmount(c.swap, SwapFee(Native)))
           [] c.status = "BuyNative" ->
                ThresholdAfterBuy(CalcSwapResult(TRUE, ExternalDepth(pools[a]), c.swap,
                    NativeDepth(pools[a]), pmtpRates.running, SwapFee(a)))

\* (ProcessRemovalQueue runs only when the removal queue is not empty.)
AddLiquidity(a, p, n, e) ==
    /\ n > 0 \/ e > 0
    /\ Registered(Native) /\ HasPermission(a, "CLP")
    /\ a \in DOMAIN pools
    /\ LET pool == pools[a]
           c    == CalculatePoolUnits(pool.units, NativeDepth(pool), ExternalDepth(pool), n, e,
                                      SwapFee(Native), SwapFee(a), pmtpRates.running)
           new  == PoolWith(pool, pool.native + n, pool.external + e, c.pool)
           lp   == IF <<a, p>> \in DOMAIN lps THEN lps[<<a, p>>] ELSE [units |-> 0, unlocks |-> <<>>]
       IN  /\ c.ok
           /\ AddSwapAllowed(a, c)
           /\ WithinDepth(new)
           /\ pools' = [pools EXCEPT ![a] = new]
           /\ lps' = (<<a, p>> :> [units |-> lp.units + c.lp, unlocks |-> lp.unlocks]) @@ lps
           /\ threshold' = AddThreshold(a, c)
    /\ bank' = [bank EXCEPT ![Native] = @ + n, ![a] = @ + e]
    /\ UNCHANGED <<pmtpVars, setup, dust, params, rewards, queue, told>>

SwapAllowed(s, r, x) ==
    /\ s # r /\ x > 0
    /\ HasPermission(s, "CLP") /\ HasPermission(r, "CLP")
    /\ ~HasPermission(s, "DISABLE_SELL") /\ ~HasPermission(r, "DISABLE_BUY")
    /\ params.protection.active =>
         /\ NativePriceKnown /\ ~(s = Native /\ SellBlocked(x))
         /\ r = Native => threshold <= params.protection.max      \* Uint.Sub panics
    /\ {s, r} \ {Native} \subseteq DOMAIN pools

\* The threshold after a swap of x of s for y of r.
SwapThreshold(s, r, x, y) ==
    IF ~params.protection.active THEN threshold
    ELSE CASE s = Native -> ThresholdAfterSell(CalculateDiscountedSentAmount(x, SwapFee(s)))
           [] r = Native -> ThresholdAfterBuy(y)
           [] OTHER -> threshold

\* A swap between two external assets goes through both pools, with the fee of
\* the asset sent.
Swap(s, r, x) ==
    /\ SwapAllowed(s, r, x)
    /\ LET twoLegs == s # Native /\ r # Native
           first == SwapOne(pools[s], TRUE, x, SwapFee(s))
           out   == IF r = Native THEN s ELSE r
           last  == SwapOne(pools[out], r = Native, IF twoLegs THEN first.result ELSE x, SwapFee(s))
       IN  /\ twoLegs => first.ok /\ WithinDepth(first.pool)
           /\ last.ok /\ WithinDepth(last.pool)
           /\ pools' = IF twoLegs THEN [pools EXCEPT ![s] = first.pool, ![r] = last.pool]
                                  ELSE [pools EXCEPT ![out] = last.pool]
           /\ bank' = [bank EXCEPT ![s] = @ + x, ![r] = @ - last.result]
           /\ threshold' = SwapThreshold(s, r, x, last.result)
    /\ UNCHANGED <<pmtpVars, setup, lps, dust, params, rewards, queue, told>>

UnlockLiquidity(a, p, u) ==
    /\ <<a, p>> \in DOMAIN lps
    /\ LET lp == lps[<<a, p>>]
           kept == Pruned(lp.unlocks)
       IN  /\ TotalUnits(kept) + u <= lp.units
           /\ lps' = [lps EXCEPT ![<<a, p>>] =
                        [units |-> lp.units,
                         unlocks |-> Append(kept, [height |-> height, units |-> u])]]
    /\ UNCHANGED <<pmtpVars, setup, pools, bank, dust, params, threshold, rewards, queue, told>>

CancelUnlockLiquidity(a, p, u) ==
    /\ <<a, p>> \in DOMAIN lps
    /\ LET lp == lps[<<a, p>>]
           used == UseUnlocked(Pruned(lp.unlocks), u, TRUE)
       IN  /\ EnoughUnlocked(used)
           /\ lps' = [lps EXCEPT ![<<a, p>>] =
                        [units |-> lp.units,
                         unlocks |-> SelectSeq(used.records, LAMBDA r : r.units > 0)]]
    /\ UNCHANGED <<pmtpVars, setup, pools, bank, dust, params, threshold, rewards, queue, told>>

-----------------------------------------------------------------------------
(* Removals *)

\* CalculatePoolHealth of x/margin below the removal queue threshold.
LowHealth(p) ==
    LET N == NativeDepth(p)
        E == ExternalDepth(p)
        t == params.margin.queueThreshold
    IN  IF N = 0 \/ E = 0 THEN t[1] > 0
        ELSE p.native * p.external * t[2] < t[1] * N * E

\* GetRemovalQueueUnitsForLP
QueuedUnits(a, p) ==
    MapThenSumSet(LAMBDA q : ConvWBasisPointsToUnits(lps[<<a, p>>].units, q.points),
                  { q \in queue : q.asset = a /\ q.provider = p })

Without(pool, wd, units) ==
    PoolWith(pool, pool.native - wd.native, pool.external - wd.external, units)

\* Both removal messages reach this point with a withdrawal wd: the provider
\* has unlocked what leaves, and the balances cover it (Uint.Sub panics).
RemovalPossible(a, p, wd, used) ==
    /\ EnoughUnlocked(used)
    /\ wd.native <= pools[a].native /\ wd.external <= pools[a].external

MarginBlocks(a, wd) ==
    a \in params.margin.pools /\ LowHealth(Without(pools[a], wd, pools[a].units))

\* Mutant: the provider's remaining units leave the pool too.
UnitsAfterAll(pool, lp, wd) == pool.units - lp.units

UnitsAfter(pool, lp, wd) == pool.units - lp.units + wd.left

\* The executor RemoveLiquidity: pays out, and keeps or destroys the provider.
PayOut(a, p, wd, used) ==
    LET pool == pools[a]
        lp   == lps[<<a, p>>]
    IN  /\ wd.external < ExternalDepth(pool) /\ wd.native < NativeDepth(pool)
        /\ wd.external <= bank[a] /\ wd.native <= bank[Native]
        /\ pools' = [pools EXCEPT ![a] = Without(pool, wd, UnitsAfter(pool, lp, wd))]
        /\ bank' = [bank EXCEPT ![Native] = @ - wd.native, ![a] = @ - wd.external]
        /\ lps' = IF wd.left = 0 THEN WithoutKey(lps, <<a, p>>)
                  ELSE [lps EXCEPT ![<<a, p>>] = [units |-> wd.left, unlocks |-> used.records]]
        /\ UNCHANGED <<queue, told>>

\* The pool would be left unhealthy: QueueRemoval stores a request and the
\* handler returns ErrQueued, so baseapp discards the request with the rest
\* of the transaction.  (With the queue disabled the removal is just refused.)
AnswerQueued(a, p) ==
    /\ params.margin.queueEnabled
    /\ told' = told \cup {<<a, p>>}
    /\ UNCHANGED <<pools, bank, lps, queue>>

Withdraw(a, p, wd) ==
    LET lp   == lps[<<a, p>>]
        used == UseUnlocked(Pruned(lp.unlocks), lp.units - wd.left, FALSE)
    IN  /\ RemovalPossible(a, p, wd, used)
        /\ IF MarginBlocks(a, wd) THEN AnswerQueued(a, p) ELSE PayOut(a, p, wd, used)
        /\ UNCHANGED <<pmtpVars, setup, dust, params, threshold, rewards>>

HoldsUnits(a, p) ==
    /\ HasPermission(a, "CLP")
    /\ a \in DOMAIN pools /\ <<a, p>> \in DOMAIN lps
    /\ pools[a].units > 0       \* a division by zero panics

\* MsgRemoveLiquidity with zero asymmetry (any other is refused).
RemoveLiquidity(a, p, points) ==
    /\ HoldsUnits(a, p)
    /\ LET units == lps[<<a, p>>].units
       IN  /\ units > 0
           /\ ConvWBasisPointsToUnits(units, points) <= units - QueuedUnits(a, p)
           /\ Withdraw(a, p, CalculateWithdrawal(pools[a].units, NativeDepth(pools[a]),
                                               ExternalDepth(pools[a]), units, points))

RemoveLiquidityUnits(a, p, u) ==
    /\ u > 0
    /\ HoldsUnits(a, p)
    /\ u <= lps[<<a, p>>].units - QueuedUnits(a, p)
    /\ Withdraw(a, p, CalculateWithdrawalFromUnits(pools[a].units, NativeDepth(pools[a]),
                                                 ExternalDepth(pools[a]), lps[<<a, p>>].units, u))

\* Every provider is paid its share of the depths; what rounding and custody
\* leave stays in the module account.
DecommissionPool(a) ==
    /\ a \in DOMAIN pools
    /\ pools[a].native < PoolThreshold
    /\ LET pool == pools[a]
           share(k) == CalculateWithdrawal(pool.units, NativeDepth(pool), ExternalDepth(pool),
                                           lps[k].units, 10000)
           n == MapThenSumSet(LAMBDA k : share(k).native, LpsOf(a))
           e == MapThenSumSet(LAMBDA k : share(k).external, LpsOf(a))
       IN  /\ \A k \in LpsOf(a) : lps[k].units > 0     \* a division by zero panics
           /\ n <= pool.native /\ e <= pool.external   \* Uint.Sub panics
           /\ bank' = [bank EXCEPT ![Native] = @ - n, ![a] = @ - e]
           /\ dust' = [dust EXCEPT ![Native] = @ + pool.native - n + pool.nativeCustody,
                                   ![a] = @ + pool.external - e + pool.externalCustody]
    /\ pools' = WithoutKey(pools, a)
    /\ lps' = Restrict(lps, DOMAIN lps \ LpsOf(a))
    /\ UNCHANGED <<pmtpVars, setup, params, threshold, rewards, queue, told>>

-----------------------------------------------------------------------------
(* Messages of administrators *)

Administer(new) ==
    /\ params' = new
    /\ UNCHANGED <<pmtpVars, setup, pools, lps, bank, dust, rewards, queue, told>>

UpdateRewardsParams(m) ==
    Administer([params EXCEPT !.lock = m.lock, !.cancel = m.cancel]) /\ UNCHANGED threshold

AddRewardPeriod(periods) ==
    /\ \A q \in ToSet(periods) : q.start <= q.end /\ q.default \in 0 .. 10
    /\ Administer([params EXCEPT !.rewardPeriods = periods]) /\ UNCHANGED threshold

AddProviderDistributionPeriod(periods) ==
    /\ \A q \in ToSet(periods) : q.start <= q.end /\ q.rate \in 0 .. DecUnit /\ q.mod > 0
    /\ Administer([params EXCEPT !.lppd = periods]) /\ UNCHANGED threshold

UpdateSwapFeeParams(fees) ==
    /\ \A d \in Denoms : fees[d] \in 0 .. FeeDen
    /\ Administer([params EXCEPT !.fees = fees]) /\ UNCHANGED threshold

\* MsgRegister of x/tokenregistry for an asset that has an entry.
SetPermissions(d, granted) ==
    Administer([params EXCEPT !.permissions[d] = granted]) /\ UNCHANGED threshold

UpdateLiquidityProtectionParams(m) ==
    /\ m.epoch > 0
    /\ Administer([params EXCEPT !.protection = m]) /\ threshold' = m.max

ModifyLiquidityProtectionRates(t) ==
    Administer(params) /\ threshold' = t

-----------------------------------------------------------------------------
(* End of a block: provider distributions, then rewards *)

ActivePeriods(periods) == SelectSeq(periods, LAMBDA q : q.start <= height /\ height <= q.end)

\* IsDistributionBlockPure, with GetCurrentRewardPeriod's reading of mod 0.
DueIn(periods) ==
    LET active == ActivePeriods(periods)
        mod == IF active[1].mod = 0 THEN 1 ELSE active[1].mod
    IN  active # <<>> /\ (height - active[1].start) % mod = 0

\* CollectProviderDistribution: what the providers of pool a receive of the Dec
\* amount.  Each one's share is rounded; the last ones are cut when the sum
\* exceeds it.
ProvidersReceive(a, amount) ==
    LET share(k) == DecQuo(NewDec(lps[k].units), NewDec(pools[a].units))
    IN  Least(RoundInt(amount),
              MapThenSumSet(LAMBDA k : RoundInt(DecMul(share(k), amount)), LpsOf(a)))

\* ProviderDistributionPolicyRun
LppdPaid ==
    [a \in DOMAIN pools |->
        IF ~DueIn(params.lppd) \/ LpsOf(a) = {} THEN 0
        ELSE ProvidersReceive(a, DecMul(ActivePeriods(params.lppd)[1].rate, NewDec(pools[a].native)))]

Credit(ps, amounts) ==
    [a \in DOMAIN ps |-> PoolWith(ps[a], ps[a].native + amounts[a], ps[a].external, ps[a].units)]

PoolsAfterLppd == Credit(pools, [a \in DOMAIN pools |-> -LppdPaid[a]])

\* GetPoolMultiplier
Multiplier(q, a) == IF a \in DOMAIN q.special THEN q.special[a] ELSE q.default

\* CalcBlockDistribution
BlockGrant(q) == q.allocation \div (q.end - q.start + 1)

\* CollectPoolRewardTuples, in store order over pools ps: B is shared by depth.
PoolRewards(ps, q, B) ==
    LET weight(a) == ps[a].native * Multiplier(q, a)
        total == MapThenSumSet(weight, DOMAIN ps)
        share(a) == TruncateInt(DecMul(DecQuo(NewDec(weight(a)), NewDec(total)), NewDec(B)))
        give(acc, a) ==
            LET r == IF a \in DOMAIN ps THEN Least(share(a), acc.left) ELSE 0
            IN  [left |-> acc.left - r, given |-> (a :> r) @@ acc.given]
    IN  IF total = 0 \/ B = 0 THEN [a \in Assets |-> 0]
        ELSE FoldLeft(give, [left |-> B, given |-> <<>>], AssetOrder).given

RewardPeriodActive ==
    /\ ActivePeriods(params.rewardPeriods) # <<>>
    /\ ActivePeriods(params.rewardPeriods)[1].allocation > 0

\* What the pools are due this block.
RewardShares ==
    LET q == ActivePeriods(params.rewardPeriods)[1]
    IN  IF RewardPeriodActive /\ DueIn(params.rewardPeriods)
        THEN PoolRewards(PoolsAfterLppd, q, rewards.accu + BlockGrant(q))
        ELSE [a \in Assets |-> 0]

\* Mutant: the accumulator survives the block that pays it out.
AccuKept(q) == rewards.accu + BlockGrant(q)

\* SetBlockDistributionAccu
AccuAfter(q) == IF DueIn(params.rewardPeriods) THEN 0 ELSE rewards.accu + BlockGrant(q)

\* EndBlocker's second half, with DistributeDepthRewards: rewards are minted
\* into the pools, or (distribute) minted, paid to the providers and the rest
\* burned.  A pool without providers is credited in either case.
RewardsStep ==
    LET q == ActivePeriods(params.rewardPeriods)[1]
        toProviders(a) == q.distribute /\ LpsOf(a) # {}
        kept(a) == IF toProviders(a) THEN 0 ELSE RewardShares[a]
        paid(a) == IF toProviders(a) THEN ProvidersReceive(a, NewDec(RewardShares[a])) ELSE 0
        minted == MapThenSumSet(LAMBDA a : IF q.distribute THEN paid(a) ELSE kept(a), DOMAIN pools)
    IN  IF ~RewardPeriodActive
        THEN [pools |-> PoolsAfterLppd, coins |-> 0, rewards |-> rewards]
        ELSE [pools |-> Credit(PoolsAfterLppd, [a \in DOMAIN pools |-> kept(a)]),
              coins |-> IF q.distribute THEN 0 ELSE minted,
              rewards |-> [accu |-> AccuAfter(q),
                           granted |-> rewards.granted + BlockGrant(q),
                           minted |-> rewards.minted + minted]]

\* A share in a pool of zero units is a division by zero: the block cannot end.
EndBlockPanics ==
    \E a \in DOMAIN pools :
        /\ LpsOf(a) # {} /\ pools[a].units = 0
        /\ \/ DueIn(params.lppd)
           \/ /\ RewardShares[a] > 0
              /\ ActivePeriods(params.rewardPeriods)[1].distribute

-----------------------------------------------------------------------------
(* Begin of a block *)

\* MaxFuryLiquidityThreshold.Sub(current) panics.
BeginBlockPanics == params.protection.active /\ threshold > params.protection.max

Replenished ==
    LET max == params.protection.max
        more == max \div params.protection.epoch
    IN  IF ~params.protection.active THEN threshold
        ELSE IF max - threshold < more THEN max ELSE threshold + more

\* The module account after the distributions of a block that mints coins.
BankAfter(coins) == [bank EXCEPT ![Native] = @ - Sum(LppdPaid, DOMAIN pools) + coins]

NextBlock ==
    /\ height < setup.blocks
    /\ ~EndBlockPanics /\ ~BeginBlockPanics
    /\ LET r == RewardsStep
       IN  /\ pools' = r.pools
           /\ bank' = BankAfter(r.coins)
           /\ rewards' = r.rewards
    /\ threshold' = Replenished
    /\ PmtpBeginBlock
    /\ UNCHANGED <<setup, lps, dust, params, queue, told>>

-----------------------------------------------------------------------------
\* InitGenesis: pools and providers of the genesis file, in an account that
\* holds exactly what they say; rates and counters start at zero.
Holdings(d) ==
    IF d = Native
    THEN MapThenSumSet(LAMBDA a : pools[a].native + pools[a].nativeCustody, DOMAIN pools)
    ELSE IF d \in DOMAIN pools THEN pools[d].external + pools[d].externalCustody ELSE 0

ClpInit ==
    /\ PmtpInit
    /\ setup \in Setups
    /\ pools = setup.pools
    /\ lps = setup.lps
    /\ params = setup.params
    /\ threshold = setup.params.protection.max
    /\ bank = [d \in Denoms |-> Holdings(d)]
    /\ dust = [d \in Denoms |-> 0]
    /\ rewards = [accu |-> 0, granted |-> 0, minted |-> 0]
    /\ queue = {}
    /\ told = {}

UserMessage ==
    \/ \E a \in Assets, p \in Providers :
         \/ \E m \in setup.creates : CreatePool(a, p, m.native, m.external)
         \/ \E m \in setup.adds : AddLiquidity(a, p, m.native, m.external)
         \/ \E u \in setup.unlocks : UnlockLiquidity(a, p, u) \/ CancelUnlockLiquidity(a, p, u)
         \/ \E w \in setup.points : RemoveLiquidity(a, p, w)
         \/ \E u \in setup.units : RemoveLiquidityUnits(a, p, u)
    \/ \E m \in setup.swaps : Swap(m.sent, m.received, m.amount)

AdminMessage ==
    \/ \E m \in setup.locks : UpdateRewardsParams(m)
    \/ \E q \in setup.rewardPeriods : AddRewardPeriod(q)
    \/ \E q \in setup.lppds : AddProviderDistributionPeriod(q)
    \/ \E f \in setup.fees : UpdateSwapFeeParams(f)
    \/ \E m \in setup.permissions : SetPermissions(m.denom, m.granted)
    \/ \E m \in setup.protections : UpdateLiquidityProtectionParams(m)
    \/ \E t \in setup.thresholds : ModifyLiquidityProtectionRates(t)
    \/ \E a \in setup.decommissions : DecommissionPool(a)
    \/ setup.policies /\ PmtpMessage /\ UNCHANGED clpVars

ClpNext == UserMessage \/ AdminMessage \/ NextBlock

ClpSpec == ClpInit /\ [][ClpNext]_allVars

-----------------------------------------------------------------------------
(* Properties *)

PoolType ==
    [native : Nat, external : Nat, units : Nat, nativeLiabilities : Nat,
     externalLiabilities : Nat, nativeCustody : Nat, externalCustody : Nat]

\* Balances never go below zero, so no transfer out of the module account, no
\* Uint.Sub and no threshold update that the model takes for granted can fail.
ClpTypeOK ==
    /\ PmtpTypeOK
    /\ DOMAIN pools \subseteq Assets /\ \A a \in DOMAIN pools : pools[a] \in PoolType
    /\ DOMAIN lps \subseteq (DOMAIN pools) \X Providers
    /\ \A k \in DOMAIN lps : lps[k].units \in Nat /\ lps[k].unlocks \in Seq([height : Nat, units : Nat])
    /\ bank \in [Denoms -> Nat] /\ dust \in [Denoms -> Nat]
    /\ threshold \in Nat
    /\ rewards \in [accu : Nat, granted : Nat, minted : Nat]

\* UnitsCheck (invariants.go): "all pool units vs total lp units match".
UnitsCheck(a) ==
    a \in DOMAIN pools => pools[a].units = MapThenSumSet(LAMBDA k : lps[k].units, LpsOf(a))

\* Every add, removal, distribution and decommissioning keeps UnitsCheck, but for
\* one: an add to a pool that has an empty side and still has providers, as a
\* distribution at rate one leaves it, counts its units from scratch
\* (CalculatePoolUnits) while the providers keep theirs.
UnitsAgree ==
    [][ \A a \in Assets :
          UnitsCheck(a) /\ ~UnitsCheck(a)' =>
              /\ NativeDepth(pools[a]) = 0 \/ ExternalDepth(pools[a]) = 0
              /\ LpsOf(a) # {}
              /\ \E p \in Providers, m \in setup.adds : AddLiquidity(a, p, m.native, m.external) ]_allVars

\* BalanceModuleAccountCheck (invariants.go): "pool and module account balances
\* match": the module account holds the balances and custody of the pools, to
\* the coin, and what decommissioned pools left.
BalanceModuleAccountCheck ==
    \A d \in Denoms : bank[d] = Holdings(d) + dust[d]

\* A provider never has more units in unlock requests than units in the pool,
\* whatever it removed, cancelled or let expire since (UnlockLiquidity's check
\* against what UseUnlockedLiquidity and PruneUnlockRecords leave).
UnlocksCovered ==
    \A k \in DOMAIN lps : TotalUnits(lps[k].unlocks) <= lps[k].units

\* Rewards: what was minted and what the accumulator still holds never exceeds
\* what the blocks were granted (CalcBlockDistribution), although shares are
\* rounded per pool and per provider and the accumulator crosses periods.
MintedWithinGrants == rewards.minted + rewards.accu <= rewards.granted

\* Units leave a provider only against matured unlock requests of at least as
\* many units, while a lock period is set (RemoveLiquidity computes the units
\* from basis points, UseUnlockedLiquidity checks them).
RemovalsWereUnlocked ==
    [][ \A k \in DOMAIN lps :
          LET left == IF k \in DOMAIN lps' THEN lps'[k].units ELSE 0
              usable(r) == /\ r.height + params.lock <= height
                           /\ height < r.height + params.lock + params.cancel
              unlocked == TotalUnits(SelectSeq(lps[k].unlocks, usable))
          IN  (left < lps[k].units /\ k[1] \in DOMAIN pools' /\ params.lock # 0)
              => lps[k].units - left <= unlocked ]_allVars

\* num / den of pool a's units are paid within a coin of their share of a depth,
\* and within what the last decimal is worth at that depth.
PaidShare(a, num, den, depth, paid) ==
    LET P == pools[a].units * den
    IN  /\ 2 * DecUnit * (P * paid - depth * num) <= P * (DecUnit + 2 * depth)
        /\ DecUnit * (depth * num - P * paid) <= P * (DecUnit + depth)
PaysShare(a, num, den) ==
    \/ pools' = pools
    \/ /\ PaidShare(a, num, den, NativeDepth(pools[a]), pools[a].native - pools'[a].native)
       /\ PaidShare(a, num, den, ExternalDepth(pools[a]), pools[a].external - pools'[a].external)

\* A removal pays a provider its share of the depths: at most half a coin above
\* and one coin below it, and on either side depth / 10^18 coins more, for
\* poolUnits / units is cut at the 18th decimal before the depth is divided by it
\* (CalculateWithdrawal, CalculateWithdrawalFromUnits).
RemovalsPayShare ==
    [][ \A a \in DOMAIN pools, p \in Providers :
          /\ \A u \in setup.units : RemoveLiquidityUnits(a, p, u) => PaysShare(a, u, 1)
          /\ \A w \in setup.points :
               RemoveLiquidity(a, p, w) => PaysShare(a, lps[<<a, p>>].units, WBasisDivisor(w)) ]_allVars

\* How much too little a swap of s leaves on the other side of the add.
NativeExcess(R, A, r, a, f, p, s) ==
    (r - s) * (a + A) * (s + R) * FeeDen
      - (r + R) * (a * (s + R) * FeeDen + s * A * (1 + p) * (FeeDen - f))

ExternalExcess(R, A, r, a, f, p, s) ==
    (a - s) * (r + R) * (s + A) * FeeDen * (1 + p)
      - (a + A) * (r * (s + A) * FeeDen * (1 + p) + s * R * (FeeDen - f))

\* The swap an asymmetric add makes first leaves it symmetric: the amounts after
\* the swap are in the ratio of the depths after it, and s is that solution
\* rounded down, by less than two units (the equations in the comments of
\* CalculateExternalSwapAmountAsymmetric and CalculateNativeSwapAmountAsymmetric,
\* against the closed forms with an integer square root that the code evaluates).
AsymmetricAddsBalance ==
    \A x \in DOMAIN pools : \A m \in setup.adds :
        LET R == NativeDepth(pools[x])
            A == ExternalDepth(pools[x])
            r == m.native
            a == m.external
            p == pmtpRates.running
            c == CalculatePoolUnits(pools[x].units, R, A, r, a, SwapFee(Native), SwapFee(x), p)
        IN  CASE c.status = "SellNative" ->
                   /\ c.swap <= r
                   /\ NativeExcess(R, A, r, a, SwapFee(Native), p, c.swap) >= 0
                   /\ NativeExcess(R, A, r, a, SwapFee(Native), p, c.swap + 2) < 0
              [] c.status = "BuyNative" ->
                   /\ c.swap <= a
                   /\ ExternalExcess(R, A, r, a, SwapFee(x), p, c.swap) >= 0
                   /\ ExternalExcess(R, A, r, a, SwapFee(x), p, c.swap + 2) < 0
              [] OTHER -> TRUE

\* The chain's own answer "Cannot process immediately, request has been queued"
\* (types/errors.go, ErrQueued): such a removal is in the removal queue.
QueuedRemovalsAreStored ==
    \A t \in told : \E q \in queue : q.asset = t[1] /\ q.provider = t[2]

=============================================================================
