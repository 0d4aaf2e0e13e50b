------------------------- MODULE DispensationProofs -------------------------
(***************************************************************************)
(* Proofs for x/dispensation, beside x/ibctransfer: it pays no record      *)
(* short and mints no more than its maximum.                               *)
(***************************************************************************)
EXTENDS Custody, SumLemmas, TLAPS

\* The time that a leaf may take.
USE SMTT(30)

-----------------------------------------------------------------------------
(***************************************************************************)
(* The record store and the coins it stands for.                           *)
(***************************************************************************)
Stored == [Keys -> Records \cup {NoRecord}]
Held(rs) == SumFunctionOnSet([k \in Keys |-> Coins(rs[k])], Keys)

\* The store as the loop of DistributeDrops finds and leaves it.
StoreOK(st) ==
    /\ st.records \in [Statuses -> Stored]
    /\ st.balance \in [Accounts -> Nat]
    /\ st.claims \subseteq Recipients \X ClaimTypes
    /\ st.balance[Module] >= Held(st.records["PENDING"]) + Held(st.records["FAILED"])

\* There are finitely many keys.
LEMMA KeysFinite == IsFiniteSet(Keys)
<1>1. IsFiniteSet(0 .. MaxHeight)
    BY BoundsAssumption, FS_Interval
<1>2. IsFiniteSet(Names)
    BY Zenon, <1>1, RecipientsAssumption, FS_Product DEF Names
<1>3. IsFiniteSet({"AIRDROP", "LIQUIDITY_MINING", "VALIDATOR_SUBSIDY"})
    <2>1. IsFiniteSet({"AIRDROP"})
        BY Zenon, FS_Singleton
    <2>2. IsFiniteSet({"AIRDROP", "LIQUIDITY_MINING"})
        <3>1. {"AIRDROP", "LIQUIDITY_MINING"} = {"AIRDROP"} \cup {"LIQUIDITY_MINING"}
            BY Zenon
        <3> QED BY Zenon, <2>1, <3>1, FS_AddElement
    <2>3. {"AIRDROP", "LIQUIDITY_MINING", "VALIDATOR_SUBSIDY"}
              = {"AIRDROP", "LIQUIDITY_MINING"} \cup {"VALIDATOR_SUBSIDY"}
        BY Zenon
    <2> QED BY <2>2, <2>3, FS_AddElement
<1>4. IsFiniteSet(Types)
    BY Zenon, <1>3, TypesAssumption, FS_Subset
<1> QED
    <2> DEFINE P == Names \X Types
               M == [x \in P \X Recipients |-> <<x[1][1], x[1][2], x[2]>>]
    <2>1. IsFiniteSet(P \X Recipients)
        <3>1. IsFiniteSet(P)
            BY Zenon, <1>2, <1>4, FS_Product
        <3> HIDE DEF P
        <3> QED BY Zenon, <3>1, RecipientsAssumption, FS_Product
    <2>2. M \in Surjection(P \X Recipients, Keys)
        <3>1. ASSUME NEW k \in Keys PROVE \E x \in P \X Recipients : M[x] = k
            <4>1. k[1] \in Names /\ k[2] \in Types /\ k[3] \in Recipients /\ k = <<k[1], k[2], k[3]>>
                BY DEF Keys
            <4>2. <<<<k[1], k[2]>>, k[3]>> \in P \X Recipients
                BY Zenon, <4>1
            <4>3. M[<<<<k[1], k[2]>>, k[3]>>] = k
                BY Zenon, <4>1, <4>2
            <4> QED BY Zenon, <4>2, <4>3
        <3>2. M \in [P \X Recipients -> Keys]
            BY Zenon DEF Keys
        <3> QED BY Zenon, <3>1, <3>2 DEF Surjection
    <2> QED BY Zenon, <2>1, <2>2, FS_Surjection

\* A record's coins.
LEMMA CoinsNat == ASSUME NEW r \in Records \cup {NoRecord} PROVE Coins(r) \in Nat
BY Zenon DEF Coins, Records

\* What a store holds is a natural number, and covers each of its records.
LEMMA HeldCovers ==
    ASSUME NEW rs \in Stored
    PROVE  Held(rs) \in Nat /\ \A k \in Keys : Coins(rs[k]) <= Held(rs)
<1> DEFINE f == [k \in Keys |-> Coins(rs[k])]
<1>1. \A k \in Keys : f[k] \in Nat
    BY Zenon, CoinsNat DEF Stored
<1>2. \A k \in Keys : f[k] = Coins(rs[k])
    BY Zenon
<1>3. Held(rs) = SumFunctionOnSet(f, Keys)
    BY Zenon DEF Held
<1> HIDE DEF f
<1> QED BY Zenon, <1>1, <1>2, <1>3, KeysFinite, SumNat

\* Replacing one record replaces its coins in what the store holds.
LEMMA HeldReplace ==
    ASSUME NEW rs \in Stored, NEW rt \in Stored, NEW k \in Keys,
           \A l \in Keys \ {k} : rt[l] = rs[l]
    PROVE  Held(rt) = Held(rs) - Coins(rs[k]) + Coins(rt[k])
<1> DEFINE f == [l \in Keys |-> Coins(rs[l])]
           g == [l \in Keys |-> Coins(rt[l])]
<1>1. \A l \in Keys : f[l] \in Int /\ g[l] \in Int
    BY CoinsNat DEF Stored
<1>2. \A l \in Keys \ {k} : g[l] = f[l]
    BY Zenon
<1>3. f[k] = Coins(rs[k]) /\ g[k] = Coins(rt[k])
    BY Zenon
<1>4. Held(rs) = SumFunctionOnSet(f, Keys) /\ Held(rt) = SumFunctionOnSet(g, Keys)
    BY Zenon DEF Held
<1> HIDE DEF f, g
<1>5. SumFunctionOnSet(g, Keys) = SumFunctionOnSet(f, Keys) - f[k] + g[k]
    BY <1>1, <1>2, KeysFinite, SumChange
<1> QED BY Zenon, <1>3, <1>4, <1>5

-----------------------------------------------------------------------------
(***************************************************************************)
(* DistributeDrops: one turn of the loop keeps the store in order, the     *)
(* loop is well defined, and so every turn does.                           *)
(***************************************************************************)

\* A payment out of the module account or into it.
LEMMA MoveBalance ==
    ASSUME NEW b \in [Accounts -> Nat], NEW x \in Accounts, NEW y \in Accounts, x # y,
           NEW n \in Nat, n <= b[x]
    PROVE  /\ Move(b, x, y, n) \in [Accounts -> Nat]
           /\ Move(b, x, y, n)[x] = b[x] - n
           /\ Move(b, x, y, n)[y] = b[y] + n
BY DEF Move

\* Recipients are not the module account.
LEMMA KeyParts ==
    ASSUME NEW k \in Keys
    PROVE  /\ k[1] \in Names /\ k[2] \in Types /\ k[3] \in Recipients
           /\ k[3] \in Accounts /\ Module \in Accounts /\ k[3] # Module
BY Zenon, RecipientsAssumption DEF Keys, Accounts

\* A pending record is paid if its recipient may be paid, because the module
\* account holds its coins; else it becomes a failed one, over an older one.
LEMMA DropKeeps ==
    ASSUME NEW st, StoreOK(st), NEW k \in Keys, st.records["PENDING"][k] # NoRecord
    PROVE  /\ StoreOK(DistributeDrop(st, k))
           /\ \A l \in Keys \ {k} :
                  DistributeDrop(st, k).records["PENDING"][l] = st.records["PENDING"][l]
<1> DEFINE rec == st.records["PENDING"][k]
           sent == k[3] \notin Blocked /\ rec.coins <= st.balance[Module]
           to == IF sent THEN "COMPLETED" ELSE "FAILED"
           recs == ChangeRecordStatus(st.records, k, to)
           bal == IF sent THEN Move(st.balance, Module, k[3], rec.coins) ELSE st.balance
           cls == IF sent /\ DoesTypeSupportClaim(k[2]) THEN st.claims \ {<<k[3], k[2]>>} ELSE st.claims
<1>1. DistributeDrop(st, k) = [records |-> recs, balance |-> bal, claims |-> cls]
    BY Zenon DEF DistributeDrop
<1>2. /\ "PENDING" \in Statuses /\ "FAILED" \in Statuses /\ to \in Statuses /\ to # "PENDING"
      /\ st.records["PENDING"] \in Stored /\ st.records["FAILED"] \in Stored
    BY Zenon DEF StoreOK, Statuses
<1>3. rec \in Records /\ rec.coins \in Nat /\ Coins(rec) = rec.coins
    BY Zenon, <1>2 DEF Stored, Records, Coins
<1>4. recs \in [Statuses -> Stored]
    BY Zenon, <1>2, <1>3 DEF ChangeRecordStatus, StoreOK, Stored
<1>5. /\ recs["PENDING"][k] = NoRecord
      /\ \A l \in Keys \ {k} : recs["PENDING"][l] = st.records["PENDING"][l]
    BY Zenon, <1>2 DEF ChangeRecordStatus, StoreOK, Stored
<1>6. /\ recs["FAILED"][k] = IF sent THEN st.records["FAILED"][k] ELSE rec
      /\ \A l \in Keys \ {k} : recs["FAILED"][l] = st.records["FAILED"][l]
    BY Zenon, <1>2 DEF ChangeRecordStatus, StoreOK, Stored
<1>7. recs["PENDING"] \in Stored /\ recs["FAILED"] \in Stored
    BY Zenon, <1>2, <1>4
<1> DEFINE P == Held(st.records["PENDING"])
           F == Held(st.records["FAILED"])
<1>8. Held(recs["PENDING"]) = P - rec.coins
    <2>1. Coins(recs["PENDING"][k]) = 0
        BY Zenon, <1>5 DEF Coins
    <2> HIDE DEF recs
    <2>2. Held(recs["PENDING"]) = P - Coins(rec) + Coins(recs["PENDING"][k])
        BY Zenon, <1>2, <1>5, <1>7, HeldReplace
    <2>3. P \in Nat
        BY Zenon, <1>2, HeldCovers
    <2> HIDE DEF P
    <2> QED BY <1>3, <2>1, <2>2, <2>3
<1>9. Held(recs["FAILED"]) = F - Coins(st.records["FAILED"][k]) + Coins(recs["FAILED"][k])
    <2> HIDE DEF recs
    <2> QED BY Zenon, <1>2, <1>6, <1>7, HeldReplace
<1>10. /\ P \in Nat /\ F \in Nat /\ rec.coins <= P
       /\ Coins(st.records["FAILED"][k]) \in Nat
    <2>1. P \in Nat /\ Coins(rec) <= P /\ F \in Nat
        BY Zenon, <1>2, HeldCovers
    <2>2. st.records["FAILED"][k] \in Records \cup {NoRecord}
        BY Zenon, <1>2 DEF Stored
    <2> QED BY Zenon, <1>3, <2>1, <2>2, CoinsNat
<1>11. st.balance \in [Accounts -> Nat] /\ st.balance[Module] >= P + F
    BY Zenon DEF StoreOK
<1>12. cls \subseteq Recipients \X ClaimTypes
    BY Zenon DEF StoreOK
<1>13. CASE sent
    <2>1. /\ bal \in [Accounts -> Nat]
          /\ bal[Module] = st.balance[Module] - rec.coins
        BY <1>3, <1>11, <1>13, KeyParts, MoveBalance
    <2>2. Held(recs["FAILED"]) = F
        BY <1>6, <1>9, <1>10, <1>13
    <2>3. bal[Module] >= Held(recs["PENDING"]) + Held(recs["FAILED"])
        <3>1. st.balance[Module] \in Nat
            BY Zenon, <1>11, KeyParts
        <3> HIDE DEF bal, recs, P, F, rec
        <3> QED BY <1>3, <1>8, <1>10, <1>11, <2>1, <2>2, <3>1
    <2> HIDE DEF bal, recs, cls
    <2> QED BY <1>1, <1>4, <1>5, <1>12, <2>1, <2>3 DEF StoreOK
<1>14. CASE ~sent
    <2>1. bal = st.balance
        BY Zenon, <1>14
    <2>2. Coins(recs["FAILED"][k]) = rec.coins
        BY Zenon, <1>3, <1>6, <1>14
    <2>3. bal[Module] >= Held(recs["PENDING"]) + Held(recs["FAILED"])
        <3>1. st.balance[Module] \in Nat
            BY Zenon, <1>11, KeyParts
        <3> HIDE DEF bal, recs, P, F, rec
        <3> QED BY <1>3, <1>8, <1>9, <1>10, <1>11, <2>1, <2>2, <3>1
    <2> HIDE DEF bal, recs, cls
    <2> QED BY <1>1, <1>4, <1>5, <1>11, <1>12, <2>1, <2>3 DEF StoreOK
<1> QED BY Zenon, <1>13, <1>14

\* The last key of a set of keys is one of them.
LEMMA LastInSet ==
    ASSUME NEW S, IsFiniteSet(S), S \subseteq Keys, S # {}
    PROVE  LastOf(S) \in S
<1> DEFINE HasLast(T) == \E k \in T : \A l \in T : ~Before(k, l)
           C == {T \in SUBSET S : T # {} /\ ~HasLast(T)}
<1>1. \A k \in S : Rank[k[3]] \in Nat
    BY Zenon, RecipientsAssumption DEF Keys
<1>2. C = {}
    <2> SUFFICES ASSUME C # {} PROVE FALSE
        BY Zenon
    <2>1. PICK T \in C : \A U \in C : U \subseteq T => U = T
        <3>1. C \subseteq SUBSET S
            BY Zenon
        <3> HIDE DEF C
        <3> QED BY <3>1, SmallestSubset
    <2>2. PICK k \in T : TRUE
        BY Zenon
    <2>3. T \ {k} # {}
        BY <1>1, <2>1, <2>2 DEF Before
    <2>4. PICK m \in T \ {k} : \A l \in T \ {k} : ~Before(m, l)
        <3>1. T \ {k} \notin C
            BY Zenon, <2>1, <2>2
        <3>2. T \ {k} \in SUBSET S
            BY Zenon
        <3>3. HasLast(T \ {k})
            BY Zenon, <2>3, <3>1, <3>2
        <3> QED BY Zenon, <3>3
    <2>5. CASE Before(m, k)
        <3>1. \A l \in T : ~Before(k, l)
            BY <1>1, <2>2, <2>4, <2>5 DEF Before
        <3> QED BY Zenon, <2>1, <2>2, <3>1
    <2>6. CASE ~Before(m, k)
        BY Zenon, <2>1, <2>2, <2>4, <2>6
    <2> QED BY Zenon, <2>5, <2>6
<1>3. HasLast(S)
    BY Zenon, <1>2
<1> QED BY Zenon, <1>3 DEF LastOf

\* f gives the store after the loop has gone through each set of keys up to S.
Now == [records |-> records, balance |-> balance, claims |-> claims]
Loops(f, S) ==
    f = [T \in SUBSET S |-> IF T = {} THEN Now ELSE DistributeDrop(f[T \ {LastOf(T)}], LastOf(T))]
Loop(S) == CHOOSE f : Loops(f, S)

\* DistributeDrops is the last value of such a function.
LEMMA DropsAreLoop == ASSUME NEW S PROVE DistributeDrops(S) = Loop(S)[S]
BY Zenon DEF DistributeDrops, Loop, Loops, Now

\* Two such functions agree where both are defined.
LEMMA LoopsAgree ==
    ASSUME NEW S, IsFiniteSet(S), S \subseteq Keys, NEW A, NEW B, S \subseteq A, S \subseteq B,
           NEW f, Loops(f, A), NEW g, Loops(g, B)
    PROVE  f[S] = g[S]
<1> DEFINE C == {T \in SUBSET S : f[T] # g[T]}
<1> SUFFICES ASSUME C # {} PROVE FALSE
    BY Zenon
<1>1. PICK T \in C : \A U \in C : U \subseteq T => U = T
    <2>1. C \subseteq SUBSET S
        BY Zenon
    <2> HIDE DEF C
    <2> QED BY <2>1, SmallestSubset
<1>2. T # {}
    <2>1. f[{}] = Now /\ g[{}] = Now
        BY Zenon DEF Loops
    <2> QED BY Zenon, <2>1
<1>3. LastOf(T) \in T
    <2>1. IsFiniteSet(T)
        BY Zenon, FS_Subset
    <2> QED BY Zenon, <1>2, <2>1, LastInSet
<1>4. f[T \ {LastOf(T)}] = g[T \ {LastOf(T)}]
    BY <1>1, <1>3
<1>5. T \in SUBSET A /\ T \in SUBSET B
    BY Zenon
<1>6. f[T] = DistributeDrop(f[T \ {LastOf(T)}], LastOf(T))
    BY Zenon, <1>2, <1>5 DEF Loops
<1>7. g[T] = DistributeDrop(g[T \ {LastOf(T)}], LastOf(T))
    BY Zenon, <1>2, <1>5 DEF Loops
<1> QED BY Zenon, <1>4, <1>6, <1>7

\* The loop is defined for every finite set of keys.
LEMMA LoopExists ==
    ASSUME NEW S, IsFiniteSet(S), S \subseteq Keys
    PROVE  Loops(Loop(S), S)
<1> DEFINE C == {T \in SUBSET S : ~ \E f : Loops(f, T)}
<1>1. C = {}
    <2> SUFFICES ASSUME C # {} PROVE FALSE
        BY Zenon
    <2>1. PICK T \in C : \A U \in C : U \subseteq T => U = T
        <3>1. C \subseteq SUBSET S
            BY Zenon
        <3> HIDE DEF C
        <3> QED BY <3>1, SmallestSubset
    <2>2. ASSUME NEW U \in SUBSET T, U # T
          PROVE  Loops(Loop(U), U) /\ IsFiniteSet(U) /\ U \subseteq Keys
        <3>1. \E f : Loops(f, U)
            BY Zenon, <2>1, <2>2
        <3>2. Loops(Loop(U), U)
            BY Zenon, <3>1 DEF Loop
        <3> QED BY Zenon, <3>2, FS_Subset
    <2> DEFINE R(s) == s \ {LastOf(s)}
               f == [s \in SUBSET T |-> IF s = {} THEN Now ELSE DistributeDrop(Loop(R(s))[R(s)], LastOf(s))]
    <2>3. ASSUME NEW s \in SUBSET T, s # {}
          PROVE  f[R(s)] = Loop(R(s))[R(s)]
        <3> DEFINE u == R(s)
        <3>1. LastOf(s) \in s
            <4>1. IsFiniteSet(s) /\ s \subseteq Keys
                BY Zenon, FS_Subset
            <4> QED BY Zenon, <2>3, <4>1, LastInSet
        <3>2. u \in SUBSET T /\ u # T
            BY Zenon, <3>1
        <3>3. Loops(Loop(u), u) /\ IsFiniteSet(u) /\ u \subseteq Keys
            BY Zenon, <2>2, <3>2
        <3>4. CASE u = {}
            <4>1. f[u] = Now
                BY Zenon, <3>2, <3>4
            <4>2. Loop(u)[u] = Now
                BY Zenon, <3>3, <3>4 DEF Loops
            <4> QED BY Zenon, <4>1, <4>2
        <3>5. CASE u # {}
            <4>1. LastOf(u) \in u
                BY Zenon, <3>3, <3>5, LastInSet
            <4>2. f[u] = DistributeDrop(Loop(R(u))[R(u)], LastOf(u))
                BY Zenon, <3>2, <3>5
            <4>3. Loop(u)[u] = DistributeDrop(Loop(u)[R(u)], LastOf(u))
                BY Zenon, <3>3, <3>5 DEF Loops
            <4>4. R(u) \in SUBSET T /\ R(u) # T /\ R(u) \subseteq u
                BY Zenon, <3>2, <4>1
            <4>5. Loops(Loop(R(u)), R(u)) /\ IsFiniteSet(R(u)) /\ R(u) \subseteq Keys
                BY Zenon, <2>2, <4>4
            <4> HIDE DEF R, f, u
            <4>6. Loop(R(u))[R(u)] = Loop(u)[R(u)]
                BY <3>3, <4>4, <4>5, LoopsAgree
            <4> QED BY Zenon, <4>2, <4>3, <4>6 DEF u
        <3> QED BY Zenon, <3>4, <3>5
    <2>4. Loops(f, T)
        <3>1. \A s \in SUBSET T : f[s] = IF s = {} THEN Now ELSE DistributeDrop(f[R(s)], LastOf(s))
            BY Zenon, <2>3
        <3>2. f = [s \in SUBSET T |-> f[s]]
            BY Zenon
        <3> HIDE DEF f
        <3> QED BY Zenon, <3>1, <3>2 DEF Loops
    <2> QED BY Zenon, <2>1, <2>4
<1>2. \E f : Loops(f, S)
    BY Zenon, <1>1
<1> QED BY Zenon, <1>2 DEF Loop

\* A run of the loop over pending records leaves the store in order.
LEMMA DropsKeep ==
    ASSUME NEW S, S \subseteq Keys, StoreOK(Now), \A k \in S : records["PENDING"][k] # NoRecord
    PROVE  StoreOK(DistributeDrops(S))
<1> DEFINE f == Loop(S)
           Good(T) == /\ StoreOK(f[T])
                      /\ \A l \in Keys \ T : f[T].records["PENDING"][l] = records["PENDING"][l]
           C == {T \in SUBSET S : ~Good(T)}
<1>1. IsFiniteSet(S)
    BY Zenon, KeysFinite, FS_Subset
<1>2. Loops(f, S)
    BY Zenon, <1>1, LoopExists
<1> HIDE DEF f
<1>3. C = {}
    <2> SUFFICES ASSUME C # {} PROVE FALSE
        BY Zenon
    <2>1. PICK T \in C : \A U \in C : U \subseteq T => U = T
        <3>1. C \subseteq SUBSET S
            BY Zenon
        <3> HIDE DEF C
        <3> QED BY <1>1, <3>1, SmallestSubset
    <2>2. T # {}
        <3>1. f[{}] = Now
            BY Zenon, <1>2 DEF Loops
        <3>2. Good({})
            BY <3>1 DEF Now
        <3> QED BY Zenon, <2>1, <3>2
    <2>3. T \in SUBSET S /\ IsFiniteSet(T) /\ T \subseteq Keys
        BY Zenon, <1>1, FS_Subset
    <2> DEFINE k == LastOf(T)
               U == T \ {k}
    <2>4. k \in T
        BY Zenon, <2>2, <2>3, LastInSet
    <2>5. Good(U)
        <3>1. U \notin C
            BY Zenon, <2>1, <2>4
        <3> QED BY Zenon, <2>3, <3>1
    <2>6. f[T] = DistributeDrop(f[U], k)
        BY Zenon, <1>2, <2>2, <2>3 DEF Loops
    <2>7. f[U].records["PENDING"][k] # NoRecord
        BY Zenon, <2>3, <2>4, <2>5
    <2> HIDE DEF k
    <2>8. /\ StoreOK(DistributeDrop(f[U], k))
          /\ \A l \in Keys \ {k} :
                 DistributeDrop(f[U], k).records["PENDING"][l] = f[U].records["PENDING"][l]
        BY Zenon, <2>3, <2>4, <2>5, <2>7, DropKeeps
    <2>9. Good(T)
        BY Zenon, <2>4, <2>5, <2>6, <2>8
    <2> QED BY Zenon, <2>1, <2>9
<1>4. StoreOK(f[S])
    BY Zenon, <1>3
<1> QED BY Zenon, <1>4, DropsAreLoop DEF f

-----------------------------------------------------------------------------
(***************************************************************************)
(* CreateDistribution: what the distributor pays in is what the new drops  *)
(* add to the pending records.                                             *)
(***************************************************************************)
\* The part of the output list for the recipients in T, by key.
Share(name, t, out, T) ==
    [k \in Keys |-> IF k[1] = name /\ k[2] = t /\ k[3] \in T THEN out[k[3]] ELSE 0]

\* Each recipient of the output list has one key.
LEMMA ShareSum ==
    ASSUME NEW name \in Names, NEW t \in Types, NEW out \in [Recipients -> Nat]
    PROVE  SumFunctionOnSet(Share(name, t, out, Recipients), Keys) = TotalOutput(out)
<1> DEFINE Good(T) == SumFunctionOnSet(Share(name, t, out, T), Keys) = SumFunctionOnSet(out, T)
           C == {T \in SUBSET Recipients : ~Good(T)}
<1>1. IsFiniteSet(Recipients)
    BY Zenon, RecipientsAssumption
<1>2. C = {}
    <2> SUFFICES ASSUME C # {} PROVE FALSE
        BY Zenon
    <2>1. PICK T \in C : \A U \in C : U \subseteq T => U = T
        <3>1. C \subseteq SUBSET Recipients
            BY Zenon
        <3> HIDE DEF C
        <3> QED BY <1>1, <3>1, SmallestSubset
    <2>2. T # {}
        <3> DEFINE f == Share(name, t, out, {})
        <3>1. \A k \in Keys : f[k] = 0
            BY Zenon DEF Share
        <3> HIDE DEF f
        <3>2. SumFunctionOnSet(f, Keys) = 0
            BY Zenon, <3>1, KeysFinite, SumZero
        <3>3. SumFunctionOnSet(out, {}) = 0
            BY Zenon, SumEmpty
        <3> QED BY Zenon, <2>1, <3>2, <3>3 DEF f
    <2>3. PICK r \in T : TRUE
        BY Zenon, <2>2
    <2> DEFINE U == T \ {r}
               f == Share(name, t, out, U)
               g == Share(name, t, out, T)
               key == <<name, t, r>>
    <2>4. T \subseteq Recipients /\ r \in Recipients /\ IsFiniteSet(T) /\ key \in Keys
        BY Zenon, <1>1, FS_Subset DEF Keys
    <2>5. Good(U)
        BY Zenon, <2>1, <2>3
    <2>6. /\ \A k \in Keys : f[k] \in Int /\ g[k] \in Int
          /\ \A k \in Keys \ {key} : g[k] = f[k]
          /\ f[key] = 0 /\ g[key] = out[r]
        <3>1. \A k \in Keys : k = <<k[1], k[2], k[3]>> /\ k[3] \in Recipients
            BY DEF Keys
        <3>2. \A k \in Keys : k = key <=> (k[1] = name /\ k[2] = t /\ k[3] = r)
            BY <3>1
        <3>3. \A k \in Keys : f[k] \in Int /\ g[k] \in Int
            BY <3>1, <2>4 DEF Share
        <3>4. \A k \in Keys \ {key} : g[k] = f[k]
            BY Zenon, <3>2 DEF Share
        <3>5. f[key] = 0 /\ g[key] = out[r]
            BY Zenon, <2>3, <2>4, <3>2 DEF Share
        <3> QED BY Zenon, <3>3, <3>4, <3>5
    <2> HIDE DEF f, g, key
    <2>7. SumFunctionOnSet(g, Keys) = SumFunctionOnSet(f, Keys) - f[key] + g[key]
        BY <2>4, <2>6, KeysFinite, SumChange
    <2>8. SumFunctionOnSet(f, Keys) \in Int
        BY Zenon, <2>6, KeysFinite, SumInt
    <2>9. SumFunctionOnSet(out, T) = out[r] + SumFunctionOnSet(out, U)
        BY <2>3, <2>4, SumRemove
    <2>10. SumFunctionOnSet(g, Keys) = SumFunctionOnSet(out, T)
        <3>1. out[r] \in Nat
            BY Zenon, <2>4
        <3>2. SumFunctionOnSet(f, Keys) = SumFunctionOnSet(out, U)
            BY Zenon, <2>5 DEF f
        <3> HIDE DEF U
        <3> QED BY <2>6, <2>7, <2>8, <2>9, <3>1, <3>2
    <2> QED BY Zenon, <2>1, <2>10 DEF g
<1>3. Good(Recipients)
    BY Zenon, <1>2
<1> QED BY Zenon, <1>3 DEF TotalOutput

\* A distribution is paid in before its drops are recorded.
LEMMA CreateKeeps ==
    ASSUME StoreOK(Now), NEW name \in Names, NEW d \in Distributors, NEW t \in Types,
           NEW run \in Runners, NEW out \in Outputs, TotalOutput(out) <= balance[d]
    PROVE  StoreOK([records |-> CreateDrops(name, t, run, out),
                    balance |-> Move(balance, d, Module, TotalOutput(out)), claims |-> claims])
<1> DEFINE recs == CreateDrops(name, t, run, out)
           n == TotalOutput(out)
           bal == Move(balance, d, Module, n)
           old == records["PENDING"]
           new == recs["PENDING"]
<1>1. out \in [Recipients -> Nat]
    BY BoundsAssumption DEF Outputs
<1>2. n \in Nat
    BY Zenon, <1>1, RecipientsAssumption, SumNat DEF TotalOutput
<1>3. /\ records \in [Statuses -> Stored] /\ old \in Stored
      /\ balance \in [Accounts -> Nat] /\ claims \subseteq Recipients \X ClaimTypes
      /\ balance[Module] >= Held(old) + Held(records["FAILED"])
      /\ records["FAILED"] \in Stored
    BY Zenon DEF StoreOK, Now, Statuses
<1>4. /\ bal \in [Accounts -> Nat] /\ bal[Module] = balance[Module] + n
      /\ balance[Module] \in Nat
    <2>1. d \in Accounts /\ Module \in Accounts /\ d # Module
        BY Zenon, RecipientsAssumption DEF Accounts
    <2> QED BY Zenon, <1>2, <1>3, <2>1, MoveBalance
<1>5. \A k \in Keys :
          /\ old[k] \in Records \cup {NoRecord} /\ Coins(old[k]) \in Nat
          /\ out[k[3]] \in Nat
    BY Zenon, <1>1, <1>3, CoinsNat, KeyParts DEF Stored
<1>6. /\ DOMAIN recs = Statuses
      /\ new = [k \in Keys |-> IF k[1] = name /\ k[2] = t /\ out[k[3]] > 0
                             THEN [coins |-> out[k[3]] + Coins(old[k]), runner |-> run]
                             ELSE old[k]]
      /\ \A s \in Statuses \ {"PENDING"} : recs[s] = records[s]
    BY Zenon, <1>3 DEF CreateDrops, Statuses
<1>7. /\ new \in Stored
      /\ \A k \in Keys : Coins(new[k]) = Coins(old[k])
                          + (IF k[1] = name /\ k[2] = t /\ k[3] \in Recipients THEN out[k[3]] ELSE 0)
    <2> SUFFICES ASSUME NEW k \in Keys
                 PROVE  /\ new[k] \in Records \cup {NoRecord}
                        /\ Coins(new[k]) = Coins(old[k])
                          + (IF k[1] = name /\ k[2] = t /\ k[3] \in Recipients THEN out[k[3]] ELSE 0)
        BY Zenon, <1>6 DEF Stored
    <2>1. k[3] \in Recipients
        BY Zenon, KeyParts
    <2>2. CASE k[1] = name /\ k[2] = t /\ out[k[3]] > 0
        <3> DEFINE r == [coins |-> out[k[3]] + Coins(old[k]), runner |-> run]
        <3>1. new[k] = r
            BY Zenon, <1>6, <2>2
        <3>2. r \in Records
            BY <1>5, <2>2 DEF Records
        <3>3. Coins(r) = out[k[3]] + Coins(old[k])
            BY Zenon, <3>2, NoRecordAssumption DEF Coins
        <3> HIDE DEF new, r
        <3> QED BY <1>5, <2>1, <2>2, <3>1, <3>2, <3>3
    <2>3. CASE ~(k[1] = name /\ k[2] = t /\ out[k[3]] > 0)
        <3>1. new[k] = old[k]
            BY Zenon, <1>6, <2>3
        <3> HIDE DEF new
        <3> QED BY <1>5, <2>3, <3>1
    <2> QED BY Zenon, <2>2, <2>3
<1>8. recs \in [Statuses -> Stored]
    <2>1. \A s \in Statuses : recs[s] \in Stored
        BY Zenon, <1>3, <1>6, <1>7
    <2>2. recs = [s \in Statuses |-> recs[s]]
        BY Zenon, <1>3 DEF CreateDrops
    <2> HIDE DEF recs
    <2> QED BY Zenon, <2>1, <2>2
<1> HIDE DEF new
<1>9. Held(new) = Held(old) + n
    <2> DEFINE f == [k \in Keys |-> Coins(old[k])]
               g == Share(name, t, out, Recipients)
               h == [k \in Keys |-> Coins(new[k])]
    <2>1. \A k \in Keys : f[k] \in Int /\ g[k] \in Int /\ h[k] = f[k] + g[k]
        BY <1>5, <1>7 DEF Share
    <2>2. Held(old) = SumFunctionOnSet(f, Keys) /\ Held(new) = SumFunctionOnSet(h, Keys)
        BY Zenon DEF Held
    <2>3. SumFunctionOnSet(g, Keys) = n
        BY Zenon, <1>1, ShareSum
    <2> HIDE DEF f, g, h
    <2>4. SumFunctionOnSet(h, Keys) = SumFunctionOnSet(f, Keys) + SumFunctionOnSet(g, Keys)
        BY <2>1, KeysFinite, SumPlus
    <2> QED BY Zenon, <2>2, <2>3, <2>4
<1>10. Held(old) \in Nat /\ Held(records["FAILED"]) \in Nat
    BY Zenon, <1>3, HeldCovers
<1>11. bal[Module] >= Held(new) + Held(records["FAILED"])
    <2> HIDE DEF bal, n, old
    <2> QED BY <1>2, <1>3, <1>4, <1>9, <1>10
<1>12. recs["FAILED"] = records["FAILED"]
    BY Zenon, <1>6 DEF Statuses
<1>13. StoreOK([records |-> recs, balance |-> bal, claims |-> claims])
    <2> HIDE DEF recs, bal
    <2> QED BY Zenon, <1>3, <1>4, <1>8, <1>11, <1>12 DEF StoreOK, new
<1> QED BY Zenon, <1>13

-----------------------------------------------------------------------------
(***************************************************************************)
(* x/dispensation as a whole.                                              *)
(***************************************************************************)
DispInv == TypeOK /\ StoreOK(Now) /\ MintWithinMax

\* The store is in order exactly when it is well typed and backed.
LEMMA StoreBacked == StoreOK(Now) => RecordsBacked
BY Zenon DEF StoreOK, Now, RecordsBacked, CoinsIn, Held

\* What a block mints, and that it stays within the maximum.
LEMMA MintBounded ==
    ASSUME totalCounter \in Nat, totalCounter <= MaxMint
    PROVE  MintAmount \in Nat /\ totalCounter + MintAmount <= MaxMint
BY MintAssumption DEF MintAmount, TokensCanBeMinted, IsLastBlock

\* The initial state: no record, nothing minted.
LEMMA DispStart == Init => DispInv
<1> SUFFICES ASSUME Init PROVE DispInv
    BY Zenon
<1>1. TypeOK
    BY BoundsAssumption DEF Init, TypeOK
<1>2. records["PENDING"] = [k \in Keys |-> NoRecord] /\ records["FAILED"] = [k \in Keys |-> NoRecord]
    BY Zenon DEF Init, Statuses
<1>3. Held([k \in Keys |-> NoRecord]) = 0
    <2> DEFINE f == [k \in Keys |-> Coins([l \in Keys |-> NoRecord][k])]
    <2>1. \A k \in Keys : f[k] = 0
        BY Zenon DEF Coins
    <2>2. Held([k \in Keys |-> NoRecord]) = SumFunctionOnSet(f, Keys)
        BY Zenon DEF Held
    <2> HIDE DEF f
    <2> QED BY Zenon, <2>1, <2>2, KeysFinite, SumZero
<1>4. balance[Module] = 0
    BY Zenon, RecipientsAssumption DEF Init, Accounts
<1>5. StoreOK(Now)
    BY <1>1, <1>2, <1>3, <1>4 DEF StoreOK, Now, TypeOK, Stored
<1>6. MintWithinMax
    BY MintAssumption DEF Init, MintWithinMax
<1> QED BY Zenon, <1>1, <1>5, <1>6 DEF DispInv

\* Every message and every block keeps the invariant.
LEMMA DispStep ==
    ASSUME DispInv, [Next]_dispVars
    PROVE  DispInv'
<1> USE DEF DispInv
<1>n. Now' = [records |-> records', balance |-> balance', claims |-> claims']
    BY Zenon DEF Now
<1>s. StoreOK(Now)' <=> StoreOK(Now')
    BY Zenon DEF StoreOK, Statuses, Stored, Held, Keys, Names, Records, Accounts, Coins, ClaimTypes
<1>1. ASSUME NEW d \in Distributors, NEW t \in Types, NEW run \in Runners, NEW out \in Outputs,
             CreateDistribution(d, t, run, out)
      PROVE  DispInv'
    <2> DEFINE name == <<height, d>>
    <2>1. name \in Names
        BY Zenon DEF TypeOK, Names
    <2>2. StoreOK(Now')
        BY Zenon, <1>1, <1>n, <2>1, CreateKeeps DEF CreateDistribution
    <2>3. TypeOK'
        <3>1. distributions' \subseteq Names \X Types \X Runners
            BY <1>1, <2>1 DEF CreateDistribution, TypeOK
        <3>2. records' \in [Statuses -> Stored] /\ balance' \in [Accounts -> Nat]
            BY Zenon, <1>n, <2>2 DEF StoreOK
        <3> QED BY Zenon, <1>1, <3>1, <3>2 DEF CreateDistribution, TypeOK, Stored
    <2>4. MintWithinMax'
        BY Zenon, <1>1 DEF CreateDistribution, MintWithinMax
    <2> QED BY Zenon, <1>s, <2>2, <2>3, <2>4
<1>2. ASSUME NEW u \in Recipients, NEW t \in ClaimTypes, CreateUserClaim(u, t)
      PROVE  DispInv'
    <2>1. TypeOK' /\ MintWithinMax'
        BY <1>2 DEF CreateUserClaim, TypeOK, MintWithinMax
    <2>2. StoreOK(Now')
        BY Zenon, <1>2, <1>n, <2>1 DEF CreateUserClaim, StoreOK, Now, TypeOK
    <2> QED BY Zenon, <1>s, <2>1, <2>2
<1>3. ASSUME NEW run \in Runners, NEW name, NEW t, NEW count, RunDistribution(run, name, t, count)
      PROVE  DispInv'
    <2> DEFINE S == GetLimitedRecordsForRunner(name, t, run, count)
    <2>1. S \subseteq Keys /\ \A k \in S : records["PENDING"][k] # NoRecord
        BY Zenon DEF GetLimitedRecordsForRunner, FirstOf, PendingKeys
    <2>2. StoreOK(DistributeDrops(S))
        BY Zenon, <2>1, DropsKeep
    <2>3. PICK st : st = DistributeDrops(S)
        BY Zenon
    <2>4. records' = st.records /\ balance' = st.balance /\ claims' = st.claims
        BY Zenon, <1>3, <2>3 DEF RunDistribution
    <2>5. StoreOK(Now')
        BY Zenon, <1>n, <2>2, <2>3, <2>4 DEF StoreOK
    <2>6. TypeOK'
        BY Zenon, <1>3, <1>n, <2>5 DEF RunDistribution, TypeOK, StoreOK, Stored
    <2>7. MintWithinMax'
        BY Zenon, <1>3 DEF RunDistribution, MintWithinMax
    <2> QED BY Zenon, <1>s, <2>5, <2>6, <2>7
<1>4. CASE NextBlock
    <2>1. MintAmount \in Nat /\ totalCounter + MintAmount <= MaxMint
        BY Zenon, MintBounded DEF TypeOK, MintWithinMax
    <2> DEFINE n == MintAmount
               pool == IF EcoPool \in Blocked THEN Module ELSE EcoPool
    <2>2. /\ totalCounter' = totalCounter + n /\ supply' = supply + n
          /\ balance' = [balance EXCEPT ![pool] = @ + n]
          /\ height < MaxHeight /\ height' = height + 1
          /\ UNCHANGED <<distributions, records, claims, restarts>>
        BY Zenon, <1>4 DEF NextBlock, BeginBlocker
    <2>3. pool \in Accounts /\ Module \in Accounts
        BY Zenon DEF Accounts
    <2> HIDE DEF n, pool
    <2>4. balance' \in [Accounts -> Nat] /\ balance'[Module] >= balance[Module]
        BY <2>1, <2>2, <2>3 DEF TypeOK, n
    <2>5. TypeOK'
        BY <2>1, <2>2, <2>4, BoundsAssumption DEF TypeOK, n
    <2>6. StoreOK(Now')
        <3>1. /\ records["PENDING"] \in Stored /\ records["FAILED"] \in Stored
              /\ balance[Module] \in Nat /\ balance'[Module] \in Nat
            BY Zenon, <2>3, <2>4 DEF TypeOK, Stored, Statuses
        <3>2. Held(records["PENDING"]) \in Nat /\ Held(records["FAILED"]) \in Nat
            BY Zenon, <3>1, HeldCovers
        <3>3. balance[Module] >= Held(records["PENDING"]) + Held(records["FAILED"])
            BY Zenon DEF StoreOK, Now
        <3>4. balance'[Module] >= Held(records["PENDING"]) + Held(records["FAILED"])
            BY <2>4, <3>1, <3>2, <3>3
        <3> QED BY Zenon, <1>n, <2>2, <2>4, <3>4 DEF StoreOK, Now
    <2>7. MintWithinMax'
        <3>1. restarts * MaxMint \in Nat
            BY MintAssumption, BoundsAssumption DEF TypeOK
        <3> DEFINE r == restarts * MaxMint
        <3>2. totalCounter <= supply /\ supply - totalCounter <= r
            BY Zenon DEF MintWithinMax
        <3>3. MintWithinMax' <=> /\ totalCounter' <= MaxMint
                                 /\ totalCounter' <= supply' /\ supply' - totalCounter' <= r
            BY Zenon, <2>2 DEF MintWithinMax
        <3> HIDE DEF r
        <3> QED BY <2>1, <2>2, <3>1, <3>2, <3>3 DEF TypeOK, n, r
    <2> QED BY Zenon, <1>s, <2>5, <2>6, <2>7
<1>5. ASSUME NEW h \in {0, height}, ExportAndInitGenesis(h)
      PROVE  DispInv'
    <2>1. TypeOK'
        BY <1>5, BoundsAssumption DEF ExportAndInitGenesis, TypeOK
    <2>2. StoreOK(Now')
        BY Zenon, <1>5, <1>n DEF ExportAndInitGenesis, Now
    <2>3. MintWithinMax'
        <3> DEFINE r == restarts * MaxMint
        <3>1. r \in Nat /\ (restarts + 1) * MaxMint = r + MaxMint
            BY MintAssumption, BoundsAssumption DEF TypeOK
        <3>2. totalCounter <= MaxMint /\ totalCounter <= supply /\ supply - totalCounter <= r
            BY Zenon DEF MintWithinMax
        <3>3. MintWithinMax' <=> /\ 0 <= MaxMint
                                 /\ 0 <= supply /\ supply - 0 <= r + MaxMint
            BY Zenon, <1>5, <3>1 DEF ExportAndInitGenesis, MintWithinMax
        <3> HIDE DEF r
        <3> QED BY <3>1, <3>2, <3>3, MintAssumption DEF TypeOK
    <2> QED BY Zenon, <1>s, <2>1, <2>2, <2>3
<1>6. CASE UNCHANGED dispVars
    <2>1. TypeOK' /\ MintWithinMax'
        BY Zenon, <1>6 DEF dispVars, TypeOK, MintWithinMax
    <2>2. StoreOK(Now')
        BY Zenon, <1>6, <1>n DEF dispVars, Now
    <2> QED BY Zenon, <1>s, <2>1, <2>2
<1> QED BY Zenon, <1>1, <1>2, <1>3, <1>4, <1>5, <1>6 DEF Next, Create, UserClaim, Run, RunOf, Restart

\* A behaviour of either module keeps the other's variables.
LEMMA DispCustodyStep == DispInv /\ [CustodyNext]_custodyVars => DispInv'
<1> SUFFICES ASSUME DispInv, [CustodyNext]_custodyVars PROVE DispInv'
    BY Zenon
<1>1. [Next]_dispVars
    BY Zenon DEF CustodyNext, custodyVars
<1> QED BY Zenon, <1>1, DispStep

\* DistributeDrops never runs short of coins for a record: all that is pending
\* or has failed is in the module account.
THEOREM RecordsAreBacked == CustodySpec => []RecordsBacked
<1>1. CustodyInit => DispInv
    BY Zenon, DispStart DEF CustodyInit
<1>2. DispInv => RecordsBacked
    BY Zenon, StoreBacked DEF DispInv
<1> QED BY <1>1, <1>2, DispCustodyStep, PTL DEF CustodySpec

\* BeginBlocker mints at most MaxMintAmount from one genesis to the next.
THEOREM MintStaysWithinMax == CustodySpec => []MintWithinMax
<1>1. CustodyInit => DispInv
    BY Zenon, DispStart DEF CustodyInit
<1>2. DispInv => MintWithinMax
    BY Zenon DEF DispInv
<1> QED BY <1>1, <1>2, DispCustodyStep, PTL DEF CustodySpec

=============================================================================
