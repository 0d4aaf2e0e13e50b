------------------------------- MODULE Margin -------------------------------
(***************************************************************************)
(* x/margin on top of x/clp: leveraged long positions ("MTPs") that borrow *)
(* from a pool, hold what they bought in the pool's custody, pay interest  *)
(* every epoch, and are closed by their owner, by an administrator, or by  *)
(* the begin-blocker when their health is too low.                         *)
(*                                                                         *)
(* Messages are atomic (an error or a panic reverts them).  The            *)
(* begin-blocker is not: it swallows the errors and recovers the panics of *)
(* each position, and what was written before them stays.                  *)
(*                                                                         *)
(* Rates are multiples of 1 / RateDen with RateDen a power of two (exact   *)
(* in the float64 that the code goes through), leverage is a multiple of   *)
(* 1 / 2.                                                                  *)
(***************************************************************************)
EXTENDS Clp

CONSTANTS
    TraderOrder,      \* owners of positions, in the order of the store's keys
    RateDen           \* interest rates are r / RateDen

ASSUME RateDenAssumption == RateDen \in Nat \ {0}

VARIABLES
    mtps,             \* stored positions, by id
    counts,           \* MTPCount (ids given out) and OpenMTPCount
    info,             \* the pools' health, interest rate, SQBeginBlock and unsettled debt
    whitelist,        \* whitelisted addresses
    failedCloses      \* positions whose forced closing stopped half-way (logged only)

marginVars == <<mtps, counts, info, whitelist, failedCloses>>
systemVars == <<allVars, marginVars>>

Traders == ToSet(TraderOrder)
margin == params.margin

-----------------------------------------------------------------------------
(* Pools as seen by a position *)

Balance(p, d) == IF d = Native THEN p.native ELSE p.external
Custody(p, d) == IF d = Native THEN p.nativeCustody ELSE p.externalCustody
Liabilities(p, d) == IF d = Native THEN p.nativeLiabilities ELSE p.externalLiabilities

\* Pool p with balance, liabilities and custody on the side of d changed by b, l, c.
Moved(p, d, b, l, c) ==
    LET n == d = Native
    IN  [native |-> p.native + (IF n THEN b ELSE 0),
         external |-> p.external + (IF n THEN 0 ELSE b),
         units |-> p.units,
         nativeLiabilities |-> p.nativeLiabilities + (IF n THEN l ELSE 0),
         externalLiabilities |-> p.externalLiabilities + (IF n THEN 0 ELSE l),
         nativeCustody |-> p.nativeCustody + (IF n THEN c ELSE 0),
         externalCustody |-> p.externalCustody + (IF n THEN 0 ELSE c)]

PoolOf(m) == IF m.collateral = Native THEN m.borrowed ELSE m.collateral

\* CLPSwap: what x brings in asset `to` at the pool's price, which does not
\* move; 0 where it returns an error (ErrNotEnoughAssetTokens, ErrAmountTooLow).
CLPSwap(a, p, x, to) ==
    LET toFury == to = Native
        X   == IF toFury THEN ExternalDepth(p) ELSE NativeDepth(p)
        Y   == IF toFury THEN NativeDepth(p) ELSE ExternalDepth(p)
        fee == IF a \in margin.pools THEN margin.defaultFee
               ELSE SwapFee(IF toFury THEN a ELSE Native)
        y   == CalcSwapResult(toFury, X, x, Y, pmtpRates.running, fee)
    IN  IF y < Balance(p, to) THEN y ELSE 0

\* CalculatePoolHealth, as a fraction.
PoolHealth(p) ==
    LET N == NativeDepth(p)
        E == ExternalDepth(p)
    IN  IF N = 0 \/ E = 0 THEN <<0, 1>> ELSE <<p.native * p.external, N * E>>

AtMost(f, g) == f[1] * g[2] <= g[1] * f[2]

\* What a position owes, and what its custody is worth (0: UpdateMTPHealth fails).
Owed(m) == m.liabilities + m.unpaid
Worth(m, p) == CLPSwap(PoolOf(m), p, m.custody, m.collateral)

\* UpdateMTPHealth: the health worth / owed, at most the safety factor.
HealthKnown(m, p) == m.liabilities = 0 \/ Worth(m, p) > 0
Unhealthy(m, p) ==
    AtMost(IF m.liabilities = 0 THEN <<0, 1>> ELSE <<Worth(m, p), Owed(m)>>, margin.safety)

\* takeAmount of TakeFundPayment.
Take(pct, amount) == (pct[1] * amount) \div pct[2]

-----------------------------------------------------------------------------
(* Interest *)

\* GetEpochPosition
EpochPosition(h) == h % (IF margin.epoch <= 0 THEN 1 ELSE margin.epoch)

\* CalcMTPInterestLiabilities
Interest(m, rate, position) ==
    LET due == rate * Owed(m)
        new == (IF position > 0 THEN (due * position) \div (RateDen * margin.epoch)
                                ELSE due \div RateDen) + m.unpaid
    IN  IF new = 0 /\ rate # 0 THEN 1 ELSE new

\* Mutant: the pool is credited what the fund received too.
ChargeInterestTwice(m, p, unpaid, paid, take) ==
    IF paid > Custody(p, m.borrowed)
    THEN [mtp |-> m, pool |-> p, take |-> 0, panics |-> TRUE]
    ELSE [mtp |-> [m EXCEPT !.unpaid = unpaid, !.custody = @ - paid],
          pool |-> Moved(p, m.borrowed, paid, 0, -paid), take |-> take, panics |-> FALSE]

\* The end of IncrementalInterestPayment: custody `paid` goes to the fund and to
\* the pool.  An unreadable fund address panics.  When the fund refuses, the
\* position has already changed; when the pool's custody is short, Uint.Sub
\* panics after the fund was paid.
ChargeInterest(m, p, unpaid, paid, take) ==
    LET charged == [m EXCEPT !.unpaid = unpaid, !.custody = @ - paid]
    IN  CASE margin.fund = "invalid" -> [mtp |-> m, pool |-> p, take |-> 0, panics |-> TRUE]
          [] margin.fund = "refuses" /\ take > 0 ->
               [mtp |-> charged, pool |-> p, take |-> 0, panics |-> FALSE]
          [] OTHER ->
               IF paid > Custody(p, m.borrowed)
               THEN [mtp |-> m, pool |-> p, take |-> take, panics |-> TRUE]
               ELSE [mtp |-> charged, pool |-> Moved(p, m.borrowed, paid - take, 0, -paid),
                     take |-> take, panics |-> FALSE]

\* IncrementalInterestPayment: the payment would cost `bought` of the custody,
\* which is worth `worth`.
IncrementalInterestPayment(m, p, payment, bought, worth) ==
    CASE bought = 0 -> [mtp |-> m, pool |-> p, take |-> 0, panics |-> FALSE]
      [] bought > 0 /\ bought <= m.custody ->
           ChargeInterest(m, p, 0, bought, Take(margin.interestFund, bought))
      [] bought > m.custody /\ worth = 0 ->
           [mtp |-> [m EXCEPT !.unpaid = 0], pool |-> p, take |-> 0, panics |-> FALSE]
      [] bought > m.custody /\ worth > 0 ->
           ChargeInterest(m, p, payment - worth, m.custody, Take(margin.interestFund, m.custody))

\* HandleInterestPayment: the position and the pool it leaves, errors swallowed.
PayInterest(m, p, interest) ==
    IF margin.incremental
    THEN IncrementalInterestPayment(m, p, interest + m.unpaid,
             CLPSwap(PoolOf(m), p, interest + m.unpaid, m.borrowed), Worth(m, p))
    ELSE [mtp |-> [m EXCEPT !.unpaid = interest], pool |-> p, take |-> 0, panics |-> FALSE]

-----------------------------------------------------------------------------
(* Closing *)

\* Mutants: the pool keeps the liabilities that were not repaid; a loss is not
\* recorded.
RepayPart(m, p, have, takeFund) ==
    LET back == IF have > Owed(m) THEN have - Owed(m) ELSE 0
    IN  [closed |-> TRUE, pool |-> Moved(p, m.collateral, -back, -Least(have, m.liabilities), 0),
         paid |-> back, debt |-> IF have < Owed(m) THEN Owed(m) - have ELSE 0]

RepayForgiving(m, p, have, takeFund) ==
    LET back == IF have > Owed(m) THEN have - Owed(m) ELSE 0
    IN  [closed |-> TRUE, pool |-> Moved(p, m.collateral, -back, -m.liabilities, 0),
         paid |-> back, debt |-> 0]

\* Repay, from pool p after TakeOutCustody, with what the custody brought.
Repay(m, p, have, takeFund) ==
    LET back == IF have > Owed(m) THEN have - Owed(m) ELSE 0
        fundFails == \/ margin.fund = "invalid"
                     \/ margin.fund = "refuses" /\ Take(margin.closeFund, back) > 0
    IN  IF takeFund /\ back > 0 /\ fundFails
        THEN [closed |-> FALSE, pool |-> p, paid |-> 0, debt |-> 0]
        ELSE [closed |-> TRUE, pool |-> Moved(p, m.collateral, -back, -m.liabilities, 0),
              paid |-> back, debt |-> IF have < Owed(m) THEN Owed(m) - have ELSE 0]

SwapAndRepay(m, p, takeFund) ==
    IF Worth(m, p) = 0 THEN [closed |-> FALSE, pool |-> p, paid |-> 0, debt |-> 0]
    ELSE Repay(m, p, Worth(m, p), takeFund)

\* The end of CloseLong and ForceCloseLong: at an error after TakeOutCustody the
\* pool has already changed.
Settle(m, p, takeFund) ==
    IF m.custody > Custody(p, m.borrowed)
    THEN [closed |-> FALSE, pool |-> p, paid |-> 0, debt |-> 0]
    ELSE SwapAndRepay(m, Moved(p, m.borrowed, m.custody, 0, -m.custody), takeFund)

AddUnsettled(i, d, debt) ==
    IF d = Native THEN [i EXCEPT !.unsettledNative = @ + debt]
                  ELSE [i EXCEPT !.unsettledExternal = @ + debt]

\* Everything is reverted unless the position is closed.
CloseWith(id, m, a, int, end) ==
    /\ ~int.panics /\ end.closed
    /\ m.liabilities <= Liabilities(pools[a], m.collateral)
    /\ pools' = [pools EXCEPT ![a] = end.pool]
    /\ bank' = [d \in Denoms |-> bank[d] - (IF d = m.borrowed THEN int.take ELSE 0)
                                         - (IF d = m.collateral THEN end.paid ELSE 0)]
    /\ mtps' = WithoutKey(mtps, id)
    /\ counts' = [counts EXCEPT !.open = @ - 1]
    /\ info' = [info EXCEPT ![a] = AddUnsettled(@, m.collateral, end.debt)]
    /\ UNCHANGED <<pmtpVars, setup, lps, dust, params, threshold, rewards, queue, told, whitelist, failedCloses>>

\* The interest of the epoch so far, due when a position is closed.
InterestNow(m, a, pos) ==
    IF pos > 0 THEN PayInterest(m, pools[a], Interest(m, info[a].rate, pos))
    ELSE [mtp |-> m, pool |-> pools[a], take |-> 0, panics |-> FALSE]

\* CloseLong, and ForceCloseLong of an administrator.
ClosePosition(id, takeFund) ==
    LET a == PoolOf(mtps[id])
    IN  /\ a \in DOMAIN pools
        /\ \E int \in {InterestNow(mtps[id], a, EpochPosition(height))} :
             /\ EpochPosition(height) > 0 => HealthKnown(int.mtp, int.pool)
             /\ CloseWith(id, mtps[id], a, int, Settle(int.mtp, int.pool, takeFund))

Close(t, id) == mtps[id].owner = t /\ ClosePosition(id, FALSE)

AdminClose(id, takeFund) == ClosePosition(id, takeFund)

ForceClose(id) == ClosePosition(id, FALSE)

-----------------------------------------------------------------------------
(* Opening *)

\* CheckMinLiabilities: the smallest interest can be paid.
MinLiabilitiesOK(a, p, liabilities, borrowed) ==
    LET sample == (margin.rateMin * liabilities) \div RateDen
    IN  /\ sample > 0 \/ margin.rateMin = 0
        /\ CLPSwap(a, p, sample, borrowed) > 0

\* Borrow, UpdatePoolHealth and TakeInCustody: the pool's health is stored
\* before the custody leaves its balance, the position's is checked after.
Borrow(a, m, amount, lent, taken) ==
    /\ HealthKnown(m, pools[a]) /\ HealthKnown(m, taken)
    /\ ~Unhealthy(m, taken)
    /\ WithinDepth(taken) /\ counts.ids < setup.positions        \* bounds
    /\ pools' = [pools EXCEPT ![a] = taken]
    /\ bank' = [bank EXCEPT ![m.collateral] = @ + amount]
    /\ mtps' = ((counts.ids + 1) :> m) @@ mtps
    /\ counts' = [ids |-> counts.ids + 1, open |-> counts.open + 1]
    /\ info' = [info EXCEPT ![a].health = PoolHealth(lent)]
    /\ UNCHANGED <<pmtpVars, setup, lps, dust, params, threshold, rewards, queue, told, whitelist, failedCloses>>

\* OpenLong, with leverage lev / 2.
OpenLong(t, a, collateral, borrowed, amount, lev) ==
    LET leveraged   == (amount * lev) \div 2
        liabilities == (amount * (lev - 2)) \div 2
    IN  /\ collateral = Native => margin.furyCollateral
        /\ leveraged <= Balance(pools[a], collateral)
        /\ MinLiabilitiesOK(a, pools[a], liabilities, borrowed)
        /\ \E custody \in {CLPSwap(a, pools[a], leveraged, borrowed)},
              lent \in {Moved(pools[a], collateral, amount, liabilities, 0)} :
             /\ custody > 0
             /\ Borrow(a, [owner |-> t, collateral |-> collateral, borrowed |-> borrowed,
                           liabilities |-> liabilities, unpaid |-> 0, custody |-> custody],
                       amount, lent, Moved(lent, borrowed, -custody, 0, custody))

Open(t, collateral, borrowed, amount, halves) ==
    LET a == IF collateral = Native THEN borrowed ELSE collateral
    IN  /\ amount > 0 /\ halves >= 2
        /\ margin.whitelisting => t \in whitelist
        /\ counts.open < margin.maxPositions
        /\ a \in DOMAIN pools
        /\ a \in margin.pools \ margin.closed
        /\ ~AtMost(info[a].health, margin.openThreshold)
        /\ OpenLong(t, a, collateral, borrowed, amount, Least(halves, margin.leverageMax))

-----------------------------------------------------------------------------
(* Messages of administrators *)

AdministerMargin(new) ==
    /\ params' = [params EXCEPT !.margin = new]
    /\ UNCHANGED <<pmtpVars, setup, pools, lps, bank, dust, threshold, rewards, queue, told,
                   mtps, counts, info, whitelist, failedCloses>>

\* UpdateParams keeps the enabled pools, and replaces the closed ones.
UpdateParams(m) == AdministerMargin([m EXCEPT !.pools = margin.pools])

UpdatePools(enabled, closed) ==
    AdministerMargin([margin EXCEPT !.pools = enabled, !.closed = closed])

UpdateFuryCollateral(b) == AdministerMargin([margin EXCEPT !.furyCollateral = b])

\* The next epoch closes everything.
AdminCloseAll(takeFund) ==
    AdministerMargin([margin EXCEPT !.safety = <<100, 1>>,
                                    !.closeFund = IF takeFund THEN @ ELSE <<0, 1>>])

Whitelist(t, b) ==
    /\ whitelist' = IF b THEN whitelist \cup {t} ELSE whitelist \ {t}
    /\ UNCHANGED <<allVars, mtps, counts, info, failedCloses>>

-----------------------------------------------------------------------------
(* Begin of a block *)

\* Mutant: the position is destroyed but still counted.
ForceCloseCounted(s, id, m, end) ==
    IF ~end.closed THEN [s EXCEPT !.pool = end.pool, !.failed = @ \cup {id}]
    ELSE [s EXCEPT !.pool = end.pool, !.mtps = WithoutKey(s.mtps, id),
                   !.info = AddUnsettled(s.info, m.collateral, end.debt),
                   !.sent[m.collateral] = @ + end.paid]

\* ForceCloseLong of an unhealthy position, whose state s already has the
\* interest: an error leaves what TakeOutCustody wrote.
ForceCloseLong(s, id, m, end) ==
    IF ~end.closed THEN [s EXCEPT !.pool = end.pool, !.failed = @ \cup {id}]
    ELSE [pool |-> end.pool, failed |-> s.failed, mtps |-> WithoutKey(s.mtps, id), open |-> s.open - 1,
          info |-> AddUnsettled(s.info, m.collateral, end.debt),
          sent |-> [s.sent EXCEPT ![m.collateral] = @ + end.paid]]

ChargeAndJudge(s, id, m, unhealthy, int) ==
    LET fund == [s.sent EXCEPT ![m.borrowed] = @ + int.take]
        charged == [s EXCEPT !.pool = int.pool, !.mtps[id] = int.mtp, !.sent = fund]
    IN  CASE int.panics -> [s EXCEPT !.sent = fund]
          [] ~int.panics /\ ~unhealthy -> charged
          [] ~int.panics /\ unhealthy ->
               ForceCloseLong(charged, id, int.mtp, Settle(int.mtp, int.pool, TRUE))

\* BeginBlockerProcessMTP, on s = [pool, mtps, open, info, sent, failed]: the health is
\* the one before the interest; a position whose health cannot be computed is
\* left alone.
ProcessMTP(s, id) ==
    IF ~HealthKnown(s.mtps[id], s.pool) THEN s
    ELSE ChargeAndJudge(s, id, s.mtps[id], Unhealthy(s.mtps[id], s.pool),
             PayInterest(s.mtps[id], s.pool, Interest(s.mtps[id], s.info.rate, 0)))

\* GetMTPsForPool: by owner, then by id.
InStoreOrder(S) ==
    LET rank(id) == CHOOSE i \in DOMAIN TraderOrder : TraderOrder[i] = mtps[id].owner
    IN  SetToSortSeq(S, LAMBDA x, y : rank(x) < rank(y) \/ (rank(x) = rank(y) /\ x < y))

\* InterestRateComputation without the surcharge: the target moves the rate by
\* at most rateInc or rateDec a time, within rateMin and rateMax.
ClampedRate(p, rate) ==
    LET target == RoundHalfEven(margin.gain * NativeDepth(p) * ExternalDepth(p), p.native * p.external)
        moved  == IF target > rate + margin.rateInc THEN rate + margin.rateInc
                  ELSE IF target < rate - margin.rateDec THEN rate - margin.rateDec ELSE target
    IN  IF moved <= margin.rateMin THEN margin.rateMin ELSE Least(moved, margin.rateMax)

\* GetSQFromBlocks: rateMax * (1 - e^(-rate * blocks)), of which only the range
\* is kept.
Surcharges(rate, i) ==
    IF i.sq = 0 \/ height + 1 = i.sq \/ rate = 0 THEN {0} ELSE 0 .. margin.rateMax

\* TrackSQBeginBlock
SQBeginBlock(i, health) ==
    LET low == AtMost(health, margin.queueThreshold)
    IN  IF i.sq = 0 THEN (IF low THEN height + 1 ELSE 0) ELSE (IF low THEN i.sq ELSE 0)

\* BeginBlocker for pool a, with balances p when the block begins.
ProcessPool(a, p, surcharge) ==
    LET health == PoolHealth(p)
        i == [info[a] EXCEPT !.health = health, !.sq = SQBeginBlock(info[a], health),
                             !.rate = ClampedRate(p, info[a].rate) + surcharge]
    IN  FoldLeft(ProcessMTP,
                 [pool |-> p, mtps |-> mtps, open |-> counts.open, info |-> i,
                  sent |-> [d \in Denoms |-> 0], failed |-> {}],
                 InStoreOrder({ id \in DOMAIN mtps : PoolOf(mtps[id]) = a }))

EpochStarts == EpochPosition(height + 1) = 0

\* An empty side is a division by zero in InterestRateComputation.
MarginBlockPanics(ps) ==
    EpochStarts /\ \E a \in DOMAIN ps \cap margin.pools : ps[a].native = 0 \/ ps[a].external = 0

\* The outcome `run` of the begin-blocker for each enabled pool.
MarginBeginBlock(ps, coins, run) ==
    LET enabled == DOMAIN run
        kept(id) == PoolOf(mtps[id]) \in enabled => id \in DOMAIN run[PoolOf(mtps[id])].mtps
    IN  /\ pools' = [a \in DOMAIN ps |-> IF a \in enabled THEN run[a].pool ELSE ps[a]]
        /\ info' = [a \in Assets |-> IF a \in enabled THEN run[a].info ELSE info[a]]
        /\ mtps' = [id \in { i \in DOMAIN mtps : kept(i) } |->
                      IF PoolOf(mtps[id]) \in enabled THEN run[PoolOf(mtps[id])].mtps[id] ELSE mtps[id]]
        /\ counts' = [counts EXCEPT !.open =
                        @ - MapThenSumSet(LAMBDA a : counts.open - run[a].open, enabled)]
        /\ failedCloses' = failedCloses \cup UNION { run[a].failed : a \in enabled }
        /\ bank' = [d \in Denoms |-> coins[d] - MapThenSumSet(LAMBDA a : run[a].sent[d], enabled)]

\* The block ends (x/clp), then the margin begin-blocker runs, then x/clp's.
MarginBlock ==
    /\ height < setup.blocks
    /\ ~EndBlockPanics /\ ~BeginBlockPanics
    /\ \E ended \in {RewardsStep} :
         /\ rewards' = ended.rewards
         /\ ~MarginBlockPanics(ended.pools)
         /\ LET ps == ended.pools
                enabled == IF EpochStarts THEN DOMAIN ps \cap margin.pools ELSE {}
            IN  \E extra \in [enabled -> 0 .. margin.rateMax] :
                  /\ \A a \in enabled : extra[a] \in Surcharges(ClampedRate(ps[a], info[a].rate), info[a])
                  /\ \E run \in {[a \in enabled |-> ProcessPool(a, ps[a], extra[a])]} :
                       MarginBeginBlock(ps, BankAfter(ended.coins), run)
    /\ threshold' = Replenished
    /\ PmtpBeginBlock
    /\ UNCHANGED <<setup, lps, dust, params, queue, told, whitelist>>

-----------------------------------------------------------------------------
\* What the store says of a new pool.
NoInfo == [health |-> <<0, 1>>, rate |-> 0, sq |-> 0, unsettledNative |-> 0, unsettledExternal |-> 0]

MarginInit ==
    /\ ClpInit
    /\ mtps = <<>>
    /\ counts = [ids |-> 0, open |-> 0]
    /\ info = [a \in Assets |-> NoInfo]
    /\ whitelist = {}
    /\ failedCloses = {}

\* The messages of x/clp move the pools under the positions.  SQBeginBlock is in
\* margin's own store, and outlives a pool.
ClpMessage ==
    /\ UserMessage \/ AdminMessage
    /\ info' = [a \in Assets |-> IF a \in DOMAIN pools \cap DOMAIN pools' THEN info[a]
                                 ELSE [NoInfo EXCEPT !.sq = info[a].sq]]
    /\ UNCHANGED <<mtps, counts, whitelist, failedCloses>>

TraderMessage ==
    \E t \in Traders :
        \/ \E o \in setup.opens : Open(t, o.collateral, o.borrowed, o.amount, o.halves)
        \/ \E id \in DOMAIN mtps : Close(t, id)

MarginAdmin ==
    \/ \E id \in DOMAIN mtps, b \in BOOLEAN : AdminClose(id, b)
    \/ \E id \in DOMAIN mtps : ForceClose(id)
    \/ \E m \in setup.marginParams : UpdateParams(m)
    \/ \E m \in setup.marginPools : UpdatePools(m.enabled, m.closed)
    \/ \E b \in setup.furyCollaterals : UpdateFuryCollateral(b)
    \/ \E b \in setup.closeAlls : AdminCloseAll(b)
    \/ \E t \in setup.whitelisted, b \in BOOLEAN : Whitelist(t, b)

MarginNext == ClpMessage \/ TraderMessage \/ MarginAdmin \/ MarginBlock

MarginSpec == MarginInit /\ [][MarginNext]_systemVars

-----------------------------------------------------------------------------
(* Properties *)

\* The types of x/clp and x/margin: balances, custody and debts never go below
\* zero, so no Uint.Sub and no transfer that the model takes for granted fails.
MarginTypeOK ==
    /\ ClpTypeOK
    /\ \A id \in DOMAIN mtps :
         mtps[id] \in [owner : Traders, collateral : Denoms, borrowed : Denoms,
                       liabilities : Nat, unpaid : Nat, custody : Nat]
    /\ counts \in [ids : Nat, open : Nat]
    /\ whitelist \subseteq Traders
    /\ failedCloses \subseteq 1 .. counts.ids

EmptySide(p) == p.native = 0 \/ p.external = 0

\* What can keep the chain from completing a block.  The end-blocker divides by
\* the units of a pool: where they agree with the providers', the last one goes
\* only in a RemoveLiquidity for less than the whole of it, whose remainder
\* CalculateWithdrawal truncates (providers that were given zero units, then or
\* later, are what it divides for).  The threshold that
\* the begin-blocker subtracts from its maximum exceeds it only after
\* ModifyLiquidityProtectionRates set it so; liquidityprotection.go assumes that
\* it does not ("Assume that maxFuryLiquidityThreshold >=
\* currentFuryLiquidityThreshold").  And a pool that is enabled for margin loses
\* the last coin of a side, by which InterestRateComputation divides, only to a
\* provider distribution whose rate is that high (unless RemovalQueueThreshold is
\* zero, so that removals are not stopped short of it).
HaltsHaveCauses ==
    [][ /\ \A a \in DOMAIN pools \cap DOMAIN pools' :
              UnitsCheck(a) /\ pools[a].units > 0 /\ pools'[a].units = 0 =>
                  \E p \in Providers, points \in setup.points :
                      points < 10000 /\ RemoveLiquidity(a, p, points)
        /\ BeginBlockPanics' /\ ~BeginBlockPanics =>
              \E t \in setup.thresholds :
                  t > params.protection.max /\ ModifyLiquidityProtectionRates(t)
        /\ \A a \in DOMAIN pools \cap DOMAIN pools' \cap margin.pools :
              EmptySide(pools'[a]) /\ ~EmptySide(pools[a]) /\ margin.queueThreshold[1] > 0 =>
                  height' > height /\ LppdPaid[a] = pools[a].native ]_systemVars

\* OpenMTPCount, which MaxOpenPositions is checked against, counts the stored
\* positions, through closings that fail half-way (SetMTP, DestroyMTP).
OpenCountAgrees ==
    counts.open = Cardinality(DOMAIN mtps) /\ DOMAIN mtps \subseteq 1 .. counts.ids

On(a, d) == { id \in DOMAIN mtps : PoolOf(mtps[id]) = a /\ mtps[id].collateral = d }

\* A pool's liabilities are those of its open positions, on each side, and no
\* position loses its pool: the providers' shares count what is lent out, so
\* that neither the last removal nor DecommissionPool can be paid meanwhile.
LiabilitiesAgree ==
    /\ \A id \in DOMAIN mtps : PoolOf(mtps[id]) \in DOMAIN pools
    /\ \A a \in DOMAIN pools : \A d \in {a, Native} :
         Liabilities(pools[a], d) = MapThenSumSet(LAMBDA id : mtps[id].liabilities, On(a, d))

\* The books balance unless a forced closing failed half-way: the module account
\* holds the balances and the custody of the pools to the coin
\* (BalanceModuleAccountCheck), and the custody of each pool covers its
\* positions, so that TakeOutCustody cannot panic.
BooksBalance ==
    failedCloses = {} =>
        /\ BalanceModuleAccountCheck
        /\ \A a \in DOMAIN pools :
             /\ pools[a].externalCustody >= MapThenSumSet(LAMBDA id : mtps[id].custody, On(a, Native))
             /\ pools[a].nativeCustody >= MapThenSumSet(LAMBDA id : mtps[id].custody, On(a, a))

\* Without a PMTP rate or provider distributions, no swap, opening, interest
\* payment or closing lowers the product of a pool's depths, whatever the fee
\* and the rounding, but for losses that Repay records in the unsettled
\* liabilities of the collateral's side (SwapOne, CLPSwap, Repay).
LossesAreRecorded ==
    [][ (pmtpRates.running = 0 /\ params.lppd = <<>> /\ lps' = lps) =>
          \A a \in DOMAIN pools \cap DOMAIN pools' :
            LET n == info'[a].unsettledNative - info[a].unsettledNative
                e == info'[a].unsettledExternal - info[a].unsettledExternal
            IN  (NativeDepth(pools'[a]) + n) * (ExternalDepth(pools'[a]) + e)
                  >= NativeDepth(pools[a]) * ExternalDepth(pools[a]) ]_systemVars

=============================================================================
