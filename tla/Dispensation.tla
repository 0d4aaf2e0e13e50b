---------------------------- MODULE Dispensation ----------------------------
(***************************************************************************)
(* x/dispensation: a distributor pays a list of drops into the module      *)
(* account and names a runner; each drop is a record that the runner later *)
(* pays out, a limited number per message.  Users register claims, which a *)
(* payout of the claimed type removes.  Every block the module also mints  *)
(* a fixed amount for the ecosystem pool until a cap is reached.           *)
(*                                                                         *)
(* One denomination stands for the coins of a record.  A message that      *)
(* returns an error writes nothing and is not an action.  The bank is the  *)
(* SDK's; balance and supply are its state.                                *)
(***************************************************************************)
EXTENDS Integers, FiniteSets, Functions

CONSTANTS
    Distributors, Runners, Recipients,  \* account addresses, by role
    Diligent,       \* runners that keep running their distributions
    Blocked,        \* recipients the bank refuses to pay (module accounts)
    Types,          \* distribution types
    Rank,           \* order of the recipients in the store's keys
    NoRecord,       \* no value stored under a key
    Module, EcoPool,
    Funds,          \* what a distributor starts with
    MaxDrop,        \* bound: coins of one drop
    MaxCount,       \* MaxRecordsPerBlock: records of one run message
    MaxHeight,      \* bound: blocks
    MaxMint,        \* MaxMintAmount
    MintPerBlock,   \* MintAmountPerBlock
    MaxRestarts     \* bound: restarts from an exported genesis

ASSUME TypesAssumption ==
    Types \subseteq {"AIRDROP", "LIQUIDITY_MINING", "VALIDATOR_SUBSIDY"}
ASSUME RecipientsAssumption ==
    /\ IsFiniteSet(Recipients) /\ IsFiniteSet(Distributors)
    /\ Diligent \subseteq Runners /\ Blocked \subseteq Recipients
    /\ Rank \in [Recipients -> Nat]
    /\ \A r, s \in Recipients : Rank[r] = Rank[s] => r = s
    /\ Module \notin Recipients \cup Distributors \cup {EcoPool}
ASSUME MintAssumption == MaxMint \in Nat /\ MintPerBlock \in Nat \ {0}
ASSUME BoundsAssumption ==
    MaxHeight \in Nat /\ MaxRestarts \in Nat /\ Funds \in Nat /\ MaxDrop \in Nat /\ MaxCount \in Nat \ {0}

VARIABLES
    height,         \* block height
    distributions,  \* stored distributions: <<name, type, runner>>
    records,        \* record store, per status and key
    claims,         \* user claims: <<user, type>>
    totalCounter,   \* the mint controller
    restarts,       \* how often the chain has been restarted from an export
    balance,        \* external: bank balances
    supply          \* external: coins minted by the bank since genesis

dispVars == <<height, distributions, records, claims, totalCounter, restarts, balance, supply>>

Statuses == {"PENDING", "COMPLETED", "FAILED"}
Accounts == Distributors \cup Recipients \cup {Module, EcoPool}

\* A distribution is named by the height and the distributor.
Names == (0 .. MaxHeight) \X Distributors

\* GetDistributionRecordKey: the runner is not part of the key.
Keys == Names \X Types \X Recipients
Records == [coins : Nat \ {0}, runner : Runners]

Coins(record) == IF record = NoRecord THEN 0 ELSE record.coins

ASSUME NoRecordAssumption == NoRecord \notin Records

ClaimTypes == Types \ {"AIRDROP"}
DoesTypeSupportClaim(t) == t \in ClaimTypes

Move(bal, from, to, n) ==
    [a \in Accounts |-> bal[a] + (IF a = to THEN n ELSE 0) - (IF a = from THEN n ELSE 0)]

-----------------------------------------------------------------------------
(***************************************************************************)
(* CreateDistribution.  The output list maps a recipient to the sum of its *)
(* entries, because CreateDrops adds an entry to a pending record.         *)
(***************************************************************************)

Outputs == {out \in [Recipients -> 0 .. MaxDrop] : \E r \in Recipients : out[r] > 0}
TotalOutput(out) == SumFunctionOnSet(out, Recipients)

\* A new entry takes over the coins of a pending record with the same key.
CreateDrops(name, t, run, out) ==
    [records EXCEPT !["PENDING"] = [k \in Keys |->
        IF k[1] = name /\ k[2] = t /\ out[k[3]] > 0
        THEN [coins |-> out[k[3]] + Coins(@[k]), runner |-> run]
        ELSE @[k]]]

CreateDistribution(d, t, run, out) ==
    LET name == <<height, d>> IN
    /\ <<name, t, run>> \notin distributions
    /\ TotalOutput(out) <= balance[d]
    /\ distributions' = distributions \cup {<<name, t, run>>}
    /\ balance' = Move(balance, d, Module, TotalOutput(out))
    /\ records' = CreateDrops(name, t, run, out)
    /\ UNCHANGED <<height, claims, totalCounter, restarts, supply>>

CreateUserClaim(u, t) ==
    /\ <<u, t>> \notin claims
    /\ claims' = claims \cup {<<u, t>>}
    /\ UNCHANGED <<height, distributions, records, totalCounter, restarts, balance, supply>>

-----------------------------------------------------------------------------
(***************************************************************************)
(* RunDistribution pays the first records, in key order, that are pending  *)
(* under the name and type for the runner.                                 *)
(***************************************************************************)

PendingKeys(name, t, run) ==
    {k \in Keys : /\ k[1] = name /\ k[2] = t
                  /\ records["PENDING"][k] # NoRecord /\ records["PENDING"][k].runner = run}

\* The store's iterator goes through these keys by recipient.
Before(k, l) == Rank[k[3]] < Rank[l[3]]
FirstOf(S, n) == {k \in S : Cardinality({l \in S : Before(l, k)}) < n}
LastOf(S) == CHOOSE k \in S : \A l \in S : ~Before(k, l)

\* Mutant: the loop stops one record before the limit.
GetLimitedRecordsBelow(name, t, run, count) == FirstOf(PendingKeys(name, t, run), count - 1)

GetLimitedRecordsForRunner(name, t, run, count) == FirstOf(PendingKeys(name, t, run), count)

\* Mutant: the pending record is not deleted.
ChangeRecordStatusKeeps(recs, k, status) ==
    [recs EXCEPT ![status][k] = recs["PENDING"][k]]

ChangeRecordStatus(recs, k, status) ==
    [s \in Statuses |-> [recs[s] EXCEPT ![k] =
        IF s = status THEN recs["PENDING"][k] ELSE IF s = "PENDING" THEN NoRecord ELSE @]]

\* One turn of the loop in DistributeDrops: st is the store so far.
DistributeDrop(st, k) ==
    LET rec == st.records["PENDING"][k]
        sent == k[3] \notin Blocked /\ rec.coins <= st.balance[Module]
    IN [records |-> ChangeRecordStatus(st.records, k, IF sent THEN "COMPLETED" ELSE "FAILED"),
        balance |-> IF sent THEN Move(st.balance, Module, k[3], rec.coins) ELSE st.balance,
        claims  |-> IF sent /\ DoesTypeSupportClaim(k[2]) THEN st.claims \ {<<k[3], k[2]>>}
                    ELSE st.claims]

\* The loop over the keys in S, in key order.
DistributeDrops(S) ==
    LET after[T \in SUBSET S] ==
            IF T = {} THEN [records |-> records, balance |-> balance, claims |-> claims]
            ELSE DistributeDrop(after[T \ {LastOf(T)}], LastOf(T))
    IN  after[S]

RunDistribution(run, name, t, count) ==
    \E st \in {DistributeDrops(GetLimitedRecordsForRunner(name, t, run, count))} :
    /\ records' = st.records
    /\ balance' = st.balance
    /\ claims' = st.claims
    /\ UNCHANGED <<height, distributions, totalCounter, restarts, supply>>

-----------------------------------------------------------------------------
(***************************************************************************)
(* A new block mints for the ecosystem pool.  The counter moves even if    *)
(* the pool cannot be paid; the coins then stay in the module account.     *)
(***************************************************************************)

TokensCanBeMinted == totalCounter < MaxMint

\* Mutant: the last block is noticed one block too late.
IsLastBlockLate == MaxMint - totalCounter <= 0

IsLastBlock == MaxMint - totalCounter <= MintPerBlock

MintAmount ==
    IF ~TokensCanBeMinted THEN 0
    ELSE IF IsLastBlock THEN MaxMint - totalCounter
    ELSE MintPerBlock

BeginBlocker ==
    /\ totalCounter' = totalCounter + MintAmount
    /\ supply' = supply + MintAmount
    /\ balance' = [balance EXCEPT ![IF EcoPool \in Blocked THEN Module ELSE EcoPool]
                                    = @ + MintAmount]

NextBlock ==
    /\ height < MaxHeight
    /\ height' = height + 1
    /\ BeginBlocker
    /\ UNCHANGED <<distributions, records, claims, restarts>>

-----------------------------------------------------------------------------
(***************************************************************************)
(* The chain is exported and started again, at the height it had or at     *)
(* zero.  Records of every status, distributions, claims and the bank are  *)
(* exported; the mint controller is not, and starts again from zero.       *)
(***************************************************************************)

ExportAndInitGenesis(h) ==
    /\ restarts < MaxRestarts
    /\ restarts' = restarts + 1
    /\ height' = h
    /\ totalCounter' = 0
    /\ UNCHANGED <<distributions, records, claims, balance, supply>>

-----------------------------------------------------------------------------
Init ==
    /\ height = 0
    /\ distributions = {}
    /\ records = [s \in Statuses |-> [k \in Keys |-> NoRecord]]
    /\ claims = {}
    /\ totalCounter = 0
    /\ restarts = 0
    /\ balance = [a \in Accounts |-> IF a \in Distributors THEN Funds ELSE 0]
    /\ supply = 0

Create == \E d \in Distributors, t \in Types, run \in Runners, out \in Outputs :
            CreateDistribution(d, t, run, out)
UserClaim == \E u \in Recipients, t \in ClaimTypes : CreateUserClaim(u, t)
\* A run for a distribution that was not created finds no record and changes
\* nothing, so only the runner's distributions are tried.
RunOf(run) == \E dist \in distributions, count \in 1 .. MaxCount :
                /\ dist[3] = run
                /\ RunDistribution(run, dist[1], dist[2], count)
Run == \E run \in Runners : RunOf(run)

Restart == \E h \in {0, height} : ExportAndInitGenesis(h)

Next == Create \/ UserClaim \/ Run \/ NextBlock \/ Restart

DispSpec == Init /\ [][Next]_dispVars

-----------------------------------------------------------------------------
(* Properties *)

TypeOK ==
    /\ height \in 0 .. MaxHeight
    /\ distributions \subseteq Names \X Types \X Runners
    /\ records \in [Statuses -> [Keys -> Records \cup {NoRecord}]]
    /\ claims \subseteq Recipients \X ClaimTypes
    /\ totalCounter \in Nat
    /\ restarts \in 0 .. MaxRestarts
    /\ balance \in [Accounts -> Nat]
    /\ supply \in Nat

CoinsIn(status) == SumFunctionOnSet([k \in Keys |-> Coins(records[status][k])], Keys)

(***************************************************************************)
(* Every record not yet paid is backed by coins of the module account, so  *)
(* DistributeDrops never runs short: a payout can only fail because the    *)
(* recipient is blocked, and what failed is still there.                   *)
(***************************************************************************)
RecordsBacked == balance[Module] >= CoinsIn("PENDING") + CoinsIn("FAILED")

(***************************************************************************)
(* BeginBlocker never mints more than MaxMintAmount from one genesis to    *)
(* the next, with the last block cut short by IsLastBlock, and the         *)
(* controller counts what the bank minted since; an export in the middle   *)
(* allows the maximum once more, never more than that.                     *)
(***************************************************************************)
MintWithinMax ==
    /\ totalCounter <= MaxMint
    /\ totalCounter <= supply /\ supply - totalCounter <= restarts * MaxMint

PendingFor(k, runners) ==
    records["PENDING"][k] # NoRecord /\ records["PENDING"][k].runner \in runners

(***************************************************************************)
(* Every drop of a diligent runner is eventually paid or marked failed     *)
(* (or handed to another runner by CreateDrops), although the drops of     *)
(* runners that never run stay ahead of it in the store.  Distributions    *)
(* are only created up to MaxHeight, so in the end none is left.           *)
(***************************************************************************)
DropsSettle == <>[](\A k \in Keys : ~PendingFor(k, Diligent))
=============================================================================
