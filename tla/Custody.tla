------------------------------ MODULE Custody ------------------------------
(***************************************************************************)
(* The two modules that keep users' coins in accounts of their own until   *)
(* someone else acts: x/dispensation until the runner runs, x/ibctransfer  *)
(* until the other chain sends them back.  They share no coins and no      *)
(* steps, so that a behaviour shows one of them while the other rests.     *)
(***************************************************************************)
EXTENDS Dispensation, IbcTransfer

VARIABLE part   \* the module at work

custodyVars == <<dispVars, ibcVars, part>>

CustodyInit ==
    /\ Init /\ IbcInit
    /\ part \in {"dispensation", "ibctransfer"}
    /\ part = "dispensation" => registry = CHOOSE r \in Registries : TRUE

CustodyNext ==
    \/ part = "dispensation" /\ Next /\ UNCHANGED <<ibcVars, part>>
    \/ part = "ibctransfer" /\ IbcNext /\ UNCHANGED <<dispVars, part>>

(***************************************************************************)
(* Fairness: blocks keep coming, and a diligent runner goes on running the *)
(* distributions that still have records for it.                           *)
(***************************************************************************)
CustodySpec ==
    /\ CustodyInit
    /\ [][CustodyNext]_custodyVars
    /\ WF_custodyVars(part = "dispensation" /\ NextBlock /\ UNCHANGED <<ibcVars, part>>)
    /\ \A run \in Diligent :
           WF_custodyVars(part = "dispensation" /\ RunOf(run) /\ UNCHANGED <<ibcVars, part>>)

=============================================================================
