---------------------------- MODULE MCEthBridge ----------------------------
EXTENDS EthBridge, TLC

CONSTANT id1

MCPegged == [eth |-> "ceth"]
MCDenoms == {"fury", "ceth"}

MCLocked == [receiver |-> "alice", amount |-> 1, symbol |-> "eth", claimType |-> "LOCK"]
MCBurned == [receiver |-> "bob", amount |-> 1, symbol |-> "fury", claimType |-> "BURN"]
MCUntyped == [receiver |-> "bob", amount |-> 1, symbol |-> "fury", claimType |-> "UNSPECIFIED"]

MCFewClaims == {MCLocked, MCBurned, MCUntyped}
MCGenesisBalance ==
    [x \in {"alice", "bob", "module"} \X MCDenoms |-> IF x[1] = "alice" THEN 1 ELSE 0]
MCGenesisSupply == [d \in MCDenoms |-> 1]

ValidatorSymmetry == Permutations(Validators)

=============================================================================
