---------------------------- MODULE BridgeLedger ----------------------------
(***************************************************************************)
(* What the Furynet side of the bridge promises, without saying how: a     *)
(* cross-chain event is paid out at most once, with the amount and denom   *)
(* of one attested content, and coins leave the supply only when the same  *)
(* amount is released towards Ethereum.                                    *)
(***************************************************************************)
EXTENDS Integers

CONSTANTS
    Events,         \* cross-chain events, one per prophecy id
    Payouts,        \* contents that may be paid: [denom, amount] is read off them
    Unpaid,         \* not a payout
    Denoms,
    PayoutDenom(_), PayoutAmount(_),
    GenesisSupply   \* [Denoms -> Nat]

VARIABLES
    paid,       \* [Events -> Payouts \cup {Unpaid}]
    supply,     \* [Denoms -> Nat]
    released    \* [Denoms -> Nat]: total of the lock and burn events emitted

ledgerVars == <<paid, supply, released>>

Init ==
    /\ paid = [e \in Events |-> Unpaid]
    /\ supply = GenesisSupply
    /\ released = [d \in Denoms |-> 0]

Pay(e, c) ==
    /\ paid[e] = Unpaid
    /\ paid' = [paid EXCEPT ![e] = c]
    /\ supply' = [supply EXCEPT ![PayoutDenom(c)] = @ + PayoutAmount(c)]
    /\ UNCHANGED released

Release(d, n) ==
    /\ n <= supply[d]
    /\ supply' = [supply EXCEPT ![d] = @ - n]
    /\ released' = [released EXCEPT ![d] = @ + n]
    /\ UNCHANGED paid

Next ==
    \/ \E e \in Events, c \in Payouts : Pay(e, c)
    \/ \E d \in Denoms : \E n \in 1 .. supply[d] : Release(d, n)

Spec == Init /\ [][Next]_ledgerVars

=============================================================================
