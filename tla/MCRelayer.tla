----------------------------- MODULE MCRelayer -----------------------------
(* Small instances of Relayer. *)
EXTENDS Relayer, TLC

CONSTANTS v1, v2, u1

Setup(relayers, replaying, height, blocks, n) ==
    [relayers |-> relayers, operators |-> replaying, heads |-> height, blocks |-> blocks, faults |-> n]

\* Ethereum's logs only, with two relayers; with one and its operator; Furynet's
\* messages only, likewise; both, with and without the operator.
MCSetups ==
    {Setup({v1, v2}, {}, 3, 0, 1), Setup({v1}, {v1}, 3, 0, 1),
     Setup({v1, v2}, {}, 0, 2, 1), Setup({v1}, {v1}, 0, 2, 2),
     Setup({v1}, {}, 2, 1, 1), Setup({v1}, {v1}, 2, 1, 0)}
MCCrashSetups == {Setup({v1, v2}, {}, 3, 0, 1)}

MCFirstCursor == v1 :> 1 @@ v2 :> 0

\* Furynet.
MCPegged == [eth |-> "ceth"]
MCDenoms == {"fury", "ceth"}
MCSymbolTable == [fury |-> "efury"]
MCUnprefixed == [ceth |-> "eth"]

Log(nonce, to, symbol, type) ==
    [id |-> nonce, to |-> to, symbol |-> symbol, token |-> "null", value |-> 1, type |-> type]
\* nobody is no Furynet address.
MCLogEvents == {Log(1, "alice", "eth", "LOCK"), Log(1, "nobody", "eth", "LOCK"),
                Log(2, "alice", "eth", "LOCK"), Log(1, "bob", "efury", "BURN")}
MCClaims == {c.content : c \in ClaimsOf(MCLogEvents)}
\* alice can pay for a lock and two burns.
MCGenesisBalance ==
    [x \in {"alice", "bob", "module"} \X MCDenoms |->
        IF x = <<"alice", "fury">> THEN 1 ELSE IF x = <<"alice", "ceth">> THEN 4 ELSE 0]
MCGenesisSupply == [fury |-> 1, ceth |-> 4]
MCGenesisHeld == Zero :> 4

\* Ethereum: ether and the bridge token of fury are all that crosses.
MCSymbols == {"ETH", "eth", "efury"}
MCLower == [s \in MCSymbols |-> IF s = "ETH" THEN "eth" ELSE s]
MCSymbolOf == <<>>
MCPowers == v1 :> 2 @@ v2 :> 1

Msg(seq, type, denom) ==
    [id |-> seq, sender |-> "alice", type |-> type, denom |-> denom, receiver |-> u1, amount |-> 1]
MCMessages == {Msg(1, "Lock", "fury"), Msg(2, "Burn", "ceth")}
MCEthProphecies ==
    {[id |-> 1, type |-> "Lock", symbol |-> "efury", receiver |-> u1, amount |-> 1],
     [id |-> 2, type |-> "Burn", symbol |-> "eth", receiver |-> u1, amount |-> 1]}

=============================================================================
