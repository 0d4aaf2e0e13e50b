--------------------------- MODULE RelayerSetup ---------------------------
(***************************************************************************)
(* What the goroutines of a process of cmd/ebrelayer share: its symbol     *)
(* translator, and who runs such processes in a behaviour.                 *)
(***************************************************************************)
EXTENDS Integers

CONSTANTS
    SymbolTable,    \* the symbol translator's table: denom -> Ethereum symbol
    Setups,         \* who runs a relayer, who replays, and the bounds: [relayers,
                    \* operators, heads (height of Ethereum), blocks (of Furynet), faults]
    FaultKinds      \* which of "reorg", "crash", "request", "lost" and "pause" faults there are

VARIABLES
    setup,          \* one of Setups
    faults          \* how many more faults there may be

Fault(kind) == kind \in FaultKinds /\ faults > 0 /\ faults' = faults - 1

=============================================================================
