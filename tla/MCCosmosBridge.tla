--------------------------- MODULE MCCosmosBridge ---------------------------
(* Small instances of CosmosBridge. *)
EXTENDS CosmosBridge, TLC

CONSTANTS v1, v2, v3, u1, T1, T2, E1

TwoTokens == {T1, T2}
NothingHeld == [t \in TwoTokens \cup {Zero} |-> 0]
SymbolSet == {"eth", "USDT", "Usdt", "usdt", "efury"}
LowerMap == [s \in SymbolSet |-> IF s \in {"USDT", "Usdt"} THEN "usdt" ELSE s]

\* The tokens differ in case only; the existing bridge token stands for efury.
CaseSymbols == T1 :> "USDT" @@ T2 :> "usdt" @@ E1 :> "efury"
\* A well-formed Furynet address (fury1 and 38 characters) and one that has
\* the prefix and the length that the contract asks for.
FuryAddress == [prefix |-> "fury", length |-> 43]
SifAddress == [prefix |-> "sif", length |-> 42]
AnyAddress == {FuryAddress, SifAddress}

Prophecy(i, type, symbol) ==
    [id |-> i, type |-> type, symbol |-> symbol, receiver |-> u1, amount |-> 1]

BurnEthLockFury == {Prophecy(1, "Burn", "eth"), Prophecy(2, "Lock", "efury")}
BurnUsdtLockFury == {Prophecy(1, "Burn", "usdt"), Prophecy(2, "Lock", "efury")}
LockFury == {Prophecy(1, "Lock", "efury")}

ValidatorSymmetry == Permutations(Validators)

\* What the proofs about symbols ask of the constants.
ASSUME \A t \in Tokens : GenesisHeld[t] = 0

UnitPowers == [v \in Validators |-> 1]
=============================================================================
