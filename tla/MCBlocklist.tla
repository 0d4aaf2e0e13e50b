----------------------------- MODULE MCBlocklist ----------------------------
(* A small instance of Blocklist. *)
EXTENDS Blocklist
CONSTANTS a1, a2, a3, a4
FourAccounts == {a1, a2, a3, a4}
=============================================================================
