------------------------------- MODULE MCClp --------------------------------
(***************************************************************************)
(* Small instances of Clp.  Each setup is a genesis state with the messages*)
(* that are sent on it.                                                    *)
(***************************************************************************)
EXTENDS Clp

MCAssetOrder == <<"a", "b">>

Pool(n, e, u) == PoolWith(NoDebt, n, e, u)
Lp(u) == [units |-> u, unlocks |-> <<>>]

Trade == {"CLP"}
Everyone == [d \in Denoms |-> Trade]
Fees(f) == [d \in Denoms |-> f]
Amounts(n, e) == [native |-> n, external |-> e]
Exchange(s, r, x) == [sent |-> s, received |-> r, amount |-> x]

NoProtection == [active |-> FALSE, max |-> 0, asset |-> Native, epoch |-> 1]

BaseParams ==
    [lock |-> 0, cancel |-> 2, fees |-> Fees(0), protection |-> NoProtection,
     rewardPeriods |-> <<>>, lppd |-> <<>>, permissions |-> Everyone,
     margin |-> [pools |-> {}, queueEnabled |-> FALSE, queueThreshold |-> <<0, 1>>]]

NoMessages ==
    [creates |-> {}, adds |-> {}, unlocks |-> {}, points |-> {}, units |-> {}, swaps |-> {},
     locks |-> {}, rewardPeriods |-> {}, lppds |-> {}, fees |-> {}, permissions |-> {},
     protections |-> {}, thresholds |-> {}, decommissions |-> {}, policies |-> FALSE, blocks |-> 1,
     depth |-> 12]

Base == [pools |-> ("a" :> Pool(8, 4, 8)),
         lps |-> (<<"a", "p">> :> Lp(5)) @@ (<<"a", "q">> :> Lp(3)),
         params |-> BaseParams] @@ NoMessages

\* Providers come and go through unlock requests, under changing lock periods.
Unlocking ==
    [Base EXCEPT !.params.lock = 1, !.unlocks = {2, 3}, !.points = {5000, 10000},
                 !.locks = {[lock |-> 0, cancel |-> 2], [lock |-> 2, cancel |-> 1]}, !.blocks = 3]

\* A pool of the only registered asset is created, used and decommissioned.
Lifecycle ==
    [Base EXCEPT !.pools = <<>>, !.lps = <<>>, !.creates = {Amounts(6, 4)},
                 !.params.permissions = Restrict(Everyone, {Native, "a"}),
                 !.adds = {Amounts(0, 5)}, !.points = {5000, 10000}, !.units = {2},
                 !.decommissions = {"a"}, !.depth = 9]

\* Swaps and asymmetric adds over two pools, with fees, permissions and
\* liquidity protection, whose threshold may be set above its maximum.
Trading ==
    [Base EXCEPT !.pools = ("a" :> Pool(9, 6, 9)) @@ ("b" :> Pool(6, 10, 6)),
                 !.lps = (<<"a", "p">> :> Lp(9)) @@ (<<"b", "q">> :> Lp(6)),
                 !.params.fees = Fees(1),
                 !.params.protection = [active |-> TRUE, max |-> 5, asset |-> "b", epoch |-> 2],
                 !.swaps = {Exchange(Native, "a", 3), Exchange("a", Native, 5), Exchange("b", "a", 4),
                            Exchange("a", "b", 3)},
                 !.adds = {Amounts(4, 0), Amounts(1, 6)},
                 !.fees = {Fees(0)},
                 !.permissions = {[denom |-> "a", granted |-> {"CLP", "DISABLE_SELL"}]},
                 !.protections = {[active |-> TRUE, max |-> 4, asset |-> Native, epoch |-> 3]},
                 !.thresholds = {1, 7}, !.blocks = 2, !.depth = 11]

RewardPeriod(s, e, mod, alloc, distribute) ==
    [start |-> s, end |-> e, mod |-> mod, allocation |-> alloc, distribute |-> distribute,
     default |-> 1, special |-> ("b" :> 2)]
Lppd(s, e, mod, rate) == [start |-> s, end |-> e, mod |-> mod, rate |-> rate]

\* Provider distributions and rewards added to the pools, of two periods, while
\* providers come and go.
Distributing ==
    [Base EXCEPT !.pools = ("a" :> Pool(7, 3, 7)) @@ ("b" :> Pool(5, 5, 3)),
                 !.lps = (<<"a", "p">> :> Lp(5)) @@ (<<"a", "q">> :> Lp(2)) @@ (<<"b", "q">> :> Lp(3)),
                 !.params.rewardPeriods = <<RewardPeriod(1, 2, 2, 7, FALSE)>>,
                 !.rewardPeriods = {<<RewardPeriod(3, 4, 1, 9, FALSE)>>},
                 !.lppds = {<<Lppd(2, 4, 2, DecUnit \div 4)>>, <<>>},
                 !.params.permissions = Restrict(Everyone, {Native, "a"}),
                 !.units = {2}, !.adds = {Amounts(2, 1)}, !.blocks = 5, !.depth = 8]

\* Rewards paid out to the providers.
Rewarding ==
    [Base EXCEPT !.pools = ("a" :> Pool(7, 3, 7)) @@ ("b" :> Pool(5, 5, 3)),
                 !.lps = (<<"a", "p">> :> Lp(5)) @@ (<<"a", "q">> :> Lp(2)) @@ (<<"b", "q">> :> Lp(3)),
                 !.rewardPeriods = {<<RewardPeriod(2, 4, 2, 8, TRUE)>>,
                                    <<RewardPeriod(1, 2, 0, 5, TRUE), RewardPeriod(3, 4, 1, 6, FALSE)>>},
                 !.adds = {Amounts(3, 1)}, !.swaps = {Exchange("a", Native, 2)}, !.blocks = 5, !.depth = 10]

\* PMTP policies move the price of swaps and of adds.
Policies ==
    [Base EXCEPT !.swaps = {Exchange("a", Native, 3)}, !.adds = {Amounts(3, 0)}, !.params.fees = Fees(2),
                 !.policies = TRUE, !.blocks = 6, !.depth = 11]

\* A pool whose health is at the removal queue's threshold, which margin
\* positions borrow from.
MarginPool ==
    [Base EXCEPT !.pools = ("a" :> [Pool(8, 4, 8) EXCEPT !.nativeLiabilities = 2, !.externalCustody = 1]),
                 !.params.margin = [pools |-> {"a"}, queueEnabled |-> TRUE, queueThreshold |-> <<7, 9>>],
                 !.points = {2500, 5000}]

ClpSetups == {Unlocking, Lifecycle, Trading, Distributing, Rewarding, Policies}
MarginSetups == {MarginPool}

MCPolicies == {[start |-> 2, end |-> 3, len |-> 2, gov |-> 3],
               [start |-> 3, end |-> 6, len |-> 2, gov |-> 3],
               [start |-> 4, end |-> 4, len |-> 1, gov |-> 1],
               [start |-> 5, end |-> 6, len |-> 1, gov |-> 1]}

=============================================================================
