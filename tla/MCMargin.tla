------------------------------ MODULE MCMargin ------------------------------
(***************************************************************************)
(* Small instances of Margin: one pool, positions on both of its sides.    *)
(***************************************************************************)
EXTENDS Margin, MCClp

MCTraderOrder == <<"t", "u">>

Borrowing(c, b, x, h) == [collateral |-> c, borrowed |-> b, amount |-> x, halves |-> h]

BaseMargin ==
    [pools |-> {"a"}, closed |-> {}, queueEnabled |-> FALSE, queueThreshold |-> <<1, 4>>,
     defaultFee |-> 0, epoch |-> 2, maxPositions |-> 2, openThreshold |-> <<1, 8>>,
     safety |-> <<5, 4>>, leverageMax |-> 4, furyCollateral |-> TRUE, whitelisting |-> FALSE,
     incremental |-> TRUE, interestFund |-> <<1, 2>>, closeFund |-> <<1, 2>>, fund |-> "accepts",
     rateMin |-> 2, rateMax |-> 3, rateInc |-> 1, rateDec |-> 1, gain |-> 1]

NoMarginMessages ==
    [opens |-> {}, marginParams |-> {}, marginPools |-> {}, furyCollaterals |-> {},
     closeAlls |-> {}, whitelisted |-> {}, positions |-> 2]

\* The setups of x/clp, with margin trading on the pools they say.
OnlyClp ==
    { [s EXCEPT !.params.margin = @ @@ BaseMargin] @@ NoMarginMessages : s \in ClpSetups }

BaseTrade ==
    [Base EXCEPT !.pools = ("a" :> Pool(20, 20, 20)), !.lps = (<<"a", "p">> :> Lp(20)),
                 !.params.margin = BaseMargin, !.blocks = 6, !.depth = 30] @@ NoMarginMessages

\* Positions on either side, and a price that turns against them.
LongExternal ==
    [BaseTrade EXCEPT !.opens = {Borrowing(Native, "a", 4, 4), Borrowing(Native, "a", 6, 3)},
                 !.swaps = {Exchange("a", Native, 5)}]

LongNative ==
    [BaseTrade EXCEPT !.opens = {Borrowing("a", Native, 4, 4), Borrowing("a", Native, 5, 3)},
                 !.swaps = {Exchange(Native, "a", 5)},
                 !.params.margin.incremental = FALSE, !.blocks = 4,
                 !.params.margin.rateMax = 4]

\* Both sides at once, closed one by one or all together.
BothSides ==
    [BaseTrade EXCEPT !.opens = {Borrowing(Native, "a", 4, 4), Borrowing("a", Native, 5, 4)},
                 !.closeAlls = BOOLEAN]

\* Parameters change under open positions: the pool is closed, the fund's
\* address refuses coins, addresses are whitelisted.
Governed ==
    [BaseTrade EXCEPT !.opens = {Borrowing(Native, "a", 6, 4)},
                      !.marginParams = {[BaseMargin EXCEPT !.fund = f, !.whitelisting = TRUE,
                                                           !.safety = <<2, 1>>, !.epoch = 1] :
                                          f \in {"refuses", "invalid"}},
                      !.marginPools = {[enabled |-> {"a"}, closed |-> {"a"}],
                                       [enabled |-> {}, closed |-> {}]},
                      !.furyCollaterals = {FALSE}, !.whitelisted = {"t"}, !.blocks = 4]

\* Liquidity comes and goes under a position.
Providing ==
    [BaseTrade EXCEPT !.opens = {Borrowing(Native, "a", 4, 4)}, !.points = {5000},
                      !.units = {9}, !.params.margin.epoch = 1, !.blocks = 3, !.positions = 1,
                      !.params.margin.queueThreshold = <<7, 8>>, !.params.margin.queueEnabled = TRUE]

\* Small enough to be decommissioned or left by its providers, under a position.
Decommissioning ==
    [BaseTrade EXCEPT !.pools = ("a" :> Pool(9, 20, 9)),
                      !.lps = (<<"a", "p">> :> Lp(5)) @@ (<<"a", "q">> :> Lp(4)),
                      !.opens = {Borrowing(Native, "a", 4, 4)},
                      !.swaps = {Exchange("a", Native, 20), Exchange("a", Native, 9)},
                      !.decommissions = {"a"}, !.points = {10000}, !.blocks = 3,
                      !.positions = 1, !.depth = 45]

\* A distribution pays the whole native balance out, under a position.
Drained ==
    [BaseTrade EXCEPT !.opens = {Borrowing(Native, "a", 4, 4)}, !.points = {5000},
                      !.lppds = {<<Lppd(2, 3, 1, DecUnit)>>}, !.blocks = 4, !.positions = 1]

\* A distribution empties a pool of two providers, who then add and remove.
Refilled ==
    [BaseTrade EXCEPT !.pools = ("a" :> Pool(4, 4, 4)),
                      !.lps = (<<"a", "p">> :> Lp(3)) @@ (<<"a", "q">> :> Lp(1)),
                      !.adds = {Amounts(2, 2)}, !.points = {5000}, !.units = {2},
                      !.lppds = {<<Lppd(2, 3, 1, DecUnit)>>}, !.blocks = 4, !.depth = 6]

MCSetups ==
    OnlyClp \cup {LongExternal, LongNative, BothSides, Governed, Providing, Decommissioning, Drained,
                 Refilled}
HalfClosed == {LongExternal}

=============================================================================
