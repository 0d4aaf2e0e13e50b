------------------------- MODULE BridgeValidators -------------------------
(***************************************************************************)
(* The validators: those of Furynet vote in x/oracle, and the contracts    *)
(* on Ethereum have the same ones in their Valset.                         *)
(***************************************************************************)
EXTENDS Integers, Sequences, FiniteSets

CONSTANTS
    Validators,     \* operator addresses
    MaxPower        \* largest power of one validator

ASSUME ValidatorsAssumption == IsFiniteSet(Validators)
ASSUME PowerAssumption == MaxPower \in Nat

=============================================================================
