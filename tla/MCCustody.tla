----------------------------- MODULE MCCustody -----------------------------
(* Model values and bounds for Custody. *)
EXTENDS Custody, TLC

CONSTANTS d1, u1, u2, r1, r2

MCTypes == {"AIRDROP", "LIQUIDITY_MINING"}
MCRank == u1 :> 1 @@ u2 :> 2

\* fury has two decimals, its alias xfury has one.  Of the alias, 1 is abroad
\* over channel 1.
MCVoucher == <<"ibc/1", "ibc/2">>
MCIbcDenoms == {"fury", "xfury", "ibc/1", "ibc/2"}
MCUnitDenom == [d \in MCIbcDenoms |-> IF d = "xfury" THEN "fury" ELSE d]
MCDecimals == [d \in MCIbcDenoms |-> IF d = "fury" THEN 2 ELSE 1]
None == [d \in MCIbcDenoms |-> 0]
MCWallet == u1 :> [None EXCEPT !["fury"] = 1]
MCEscrow == <<[None EXCEPT !["fury"] = 10, !["xfury"] = 1], None>>
MCAbroad == <<[None EXCEPT !["xfury"] = 1], None>>
\* An entry has both permissions, or, for a coin and a voucher, none.
Both == {"IBCEXPORT", "IBCIMPORT"}
MCPermissions == {Both}
MCRegistries == {[d \in MCIbcDenoms |-> Both],
                 [d \in MCIbcDenoms |-> IF d \in {"fury", "ibc/1"} THEN {} ELSE Both]}

=============================================================================
