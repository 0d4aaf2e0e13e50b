------------------------------ MODULE MCOracle ------------------------------
(* Instances of Oracle for TLC. *)
EXTENDS Oracle, TLC

ValidatorSymmetry == Permutations(Validators) \cup Permutations(Claims)
=============================================================================
