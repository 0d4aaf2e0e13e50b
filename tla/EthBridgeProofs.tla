--------------------------- MODULE EthBridgeProofs ---------------------------
(***************************************************************************)
(* Proofs about the bridge on Furynet.  x/oracle, for any number of        *)
(* validators, prophecies and claim contents, any consensus powers and any *)
(* consensus ratio: votes are counted once and decisions stand.            *)
(* x/ethbridge, also for any accounts, denoms and fees: it implements      *)
(* BridgeLedger, pays whatever it decides to pay, and leaves nothing but   *)
(* fees in its module account.                                             *)
(***************************************************************************)
EXTENDS EthBridge, SumLemmas, FunctionTheorems, TLAPS

-----------------------------------------------------------------------------
(***************************************************************************)
(* x/oracle.                                                               *)
(***************************************************************************)
\* Every status processCompletion may compute for a pending prophecy is a
\* status.
LEMMA CompletionStatus ==
    ASSUME NEW p \in ProphecyType, NEW s \in processCompletion(p)
    PROVE  s \in Statuses
<1>1. PICK h \in FindHighestClaim(p) :
          s = IF RatioReached(h.power, h.total) THEN Success(h.claim)
              ELSE IF RatioMissed(h.power + (h.total - h.claimed), h.total) THEN Failed
              ELSE p.status
    BY Zenon DEF processCompletion
<1>2. h.claim \in Claims
    BY DEF FindHighestClaim, HighestClaims, ClaimsOn
<1>3. p.status \in Statuses
    BY Zenon DEF ProphecyType
<1> QED
    BY Zenon, <1>1, <1>2, <1>3 DEF Statuses

\* Recording a vote keeps the prophecy well formed and touches only the two maps.
LEMMA AddClaimType ==
    ASSUME NEW p \in ProphecyType, NEW v \in Validators, NEW c \in Claims
    PROVE  /\ AddClaim(p, v, c) \in ProphecyType
           /\ AddClaim(p, v, c).status = p.status
           /\ AddClaim(p, v, c).claimValidators
                  = [p.claimValidators EXCEPT ![c] = Append(@, v)]
           /\ AddClaim(p, v, c).validatorClaims = [p.validatorClaims EXCEPT ![v] = c]
<1>1. AddClaim(p, v, c) = [status |-> p.status,
                           claimValidators |-> [p.claimValidators EXCEPT ![c] = Append(@, v)],
                           validatorClaims |-> [p.validatorClaims EXCEPT ![v] = c]]
    BY Zenon DEF AddClaim
<1>2. [p.claimValidators EXCEPT ![c] = Append(@, v)] \in [Claims -> Seq(Validators)]
    BY DEF ProphecyType
<1>3. [p.validatorClaims EXCEPT ![v] = c] \in [Validators -> Claims \cup {NoClaim}]
    BY Zenon DEF ProphecyType
<1> QED
    BY <1>1, <1>2, <1>3 DEF ProphecyType

\* What a claim does to the store: the prophecy gets the vote and a status.
LEMMA ProcessClaimStep ==
    ASSUME TypeOK, NEW v \in Validators, NEW id \in Prophecies, NEW c \in Claims,
           ProcessClaim(v, id, c)
    PROVE  \E s \in Statuses :
               /\ s \in processCompletion(AddClaim(prophecy[id], v, c))
               /\ prophecy' = [prophecy EXCEPT ![id] = [AddClaim(prophecy[id], v, c) EXCEPT !.status = s]]
<1>1. prophecy[id] \in ProphecyType
    BY Zenon DEF TypeOK
<1>2. AddClaim(prophecy[id], v, c) \in ProphecyType
    BY Zenon, <1>1, AddClaimType
<1> QED
    BY Zenon, <1>2, CompletionStatus DEF ProcessClaim

-----------------------------------------------------------------------------

\* Every operation of the oracle and of staking keeps the store well formed.
LEMMA NextTypeOK ==
    ASSUME TypeOK, [Next]_oracleVars
    PROVE  TypeOK'
<1>1. ASSUME NEW v \in Validators, NEW id \in Prophecies, NEW c \in Claims, ProcessClaim(v, id, c)
      PROVE  TypeOK'
    <2>1. PICK s \in Statuses :
              prophecy' = [prophecy EXCEPT ![id] = [AddClaim(prophecy[id], v, c) EXCEPT !.status = s]]
        BY <1>1, ProcessClaimStep
    <2>2. AddClaim(prophecy[id], v, c) \in ProphecyType
        BY Zenon, AddClaimType DEF TypeOK
    <2>3. [AddClaim(prophecy[id], v, c) EXCEPT !.status = s] \in ProphecyType
        BY Zenon, <2>2 DEF ProphecyType
    <2> QED
        BY Zenon, <1>1, <2>1, <2>3 DEF TypeOK, ProcessClaim
<1>2. ASSUME NEW v \in Validators, AddOracleWhiteList(v) \/ RemoveOracleWhiteList(v)
      PROVE  TypeOK'
    BY Zenon, <1>2 DEF TypeOK, AddOracleWhiteList, RemoveOracleWhiteList
<1>3. ASSUME NEW v \in Validators, NEW n \in 0 .. MaxPower, ChangePower(v, n)
      PROVE  TypeOK'
    BY Zenon, <1>3 DEF TypeOK, ChangePower
<1>4. CASE StakingEndBlock
    BY Zenon, <1>4 DEF TypeOK, StakingEndBlock
<1>5. CASE UNCHANGED oracleVars
    BY Zenon, <1>5 DEF TypeOK, oracleVars
<1> QED
    BY <1>1, <1>2, <1>3, <1>4, <1>5 DEF Next, Claim, Staking

\* The genesis state is well formed.
LEMMA InitTypeOK == Init => TypeOK
<1> SUFFICES ASSUME Init PROVE TypeOK
    BY Zenon
<1>1. NewProphecy \in ProphecyType
    BY DEF NewProphecy, ProphecyType, Statuses
<1> QED
    BY Zenon, <1>1 DEF Init, TypeOK

\* The store is well formed whatever claims, whitelist updates and staking
\* changes arrive, in any order.
THEOREM TypeCorrect == Spec => []TypeOK
    BY InitTypeOK, NextTypeOK, PTL DEF Spec

-----------------------------------------------------------------------------

\* A decided prophecy never changes: ProcessClaim refuses further claims and
\* nothing else writes the store.
THEOREM Finality == Spec => DecidedIsFinal
<1>1. ASSUME TypeOK, [Next]_oracleVars
      PROVE  [\A id \in Prophecies :
                 prophecy[id].status.text # "PENDING" => prophecy'[id] = prophecy[id]]_oracleVars
    <2>1. ASSUME NEW v \in Validators, NEW i \in Prophecies, NEW c \in Claims, ProcessClaim(v, i, c),
                 NEW id \in Prophecies, prophecy[id].status.text # "PENDING"
          PROVE  prophecy'[id] = prophecy[id]
        <3>1. i # id
            BY Zenon, <2>1 DEF ProcessClaim, MayClaim
        <3> QED
            BY <1>1, <2>1, <3>1, ProcessClaimStep DEF TypeOK
    <2>2. Next => Claim \/ prophecy' = prophecy
        BY Zenon DEF Next, Staking, StakingEndBlock, ChangePower, AddOracleWhiteList, RemoveOracleWhiteList
    <2> QED
        BY Zenon, <1>1, <2>1, <2>2 DEF Claim
<1> QED
    BY <1>1, TypeCorrect, PTL DEF Spec, DecidedIsFinal

-----------------------------------------------------------------------------

\* The entries of a list to which AddClaim appends.
LEMMA AppendEntries ==
    ASSUME NEW S, NEW s \in Seq(S), NEW e \in S
    PROVE  /\ DOMAIN Append(s, e) = DOMAIN s \cup {Len(s) + 1}
           /\ Append(s, e)[Len(s) + 1] = e
           /\ \A i \in DOMAIN s : Append(s, e)[i] = s[i]
<1>1. /\ Append(s, e) \in Seq(S) /\ Len(Append(s, e)) = Len(s) + 1
      /\ Len(s) \in Nat
    OBVIOUS
<1>2. DOMAIN s = 1 .. Len(s) /\ DOMAIN Append(s, e) = 1 .. Len(s) + 1
    BY <1>1
<1>3. \A i \in 1 .. Len(s) : Append(s, e)[i] = s[i]
    OBVIOUS
<1>4. Append(s, e)[Len(s) + 1] = e
    OBVIOUS
<1>5. 1 .. Len(s) + 1 = (1 .. Len(s)) \cup {Len(s) + 1}
    BY SMTT(30), <1>1
<1> QED
    BY Zenon, <1>2, <1>3, <1>4, <1>5

\* Counting a validator that has not claimed yet keeps the two maps inverse.
LEMMA AddClaimConsistent ==
    ASSUME NEW p \in ProphecyType, Consistent(p),
           NEW v \in Validators, p.validatorClaims[v] = NoClaim, NEW c \in Claims
    PROVE  Consistent(AddClaim(p, v, c))
<1> DEFINE q == AddClaim(p, v, c)
           votes(d) == p.claimValidators[d]
<1>1. /\ q.claimValidators = [p.claimValidators EXCEPT ![c] = Append(@, v)]
      /\ q.validatorClaims = [p.validatorClaims EXCEPT ![v] = c]
    BY AddClaimType
<1>2. /\ p.claimValidators \in [Claims -> Seq(Validators)]
      /\ p.validatorClaims \in [Validators -> Claims \cup {NoClaim}]
    BY Zenon DEF ProphecyType
<1>3. \A d \in Claims : \A i \in DOMAIN votes(d) : votes(d)[i] # v
    BY Zenon, ClaimsAssumption DEF Consistent
<1> SUFFICES ASSUME NEW d \in Claims
             PROVE  /\ \A w \in Validators :
                           q.validatorClaims[w] = d
                               <=> \E i \in DOMAIN q.claimValidators[d] : q.claimValidators[d][i] = w
                    /\ \A i, j \in DOMAIN q.claimValidators[d] :
                           q.claimValidators[d][i] = q.claimValidators[d][j] => i = j
    BY Zenon DEF Consistent
<1>4. CASE d # c
    <2>1. q.claimValidators[d] = votes(d)
        BY Zenon, <1>1, <1>2, <1>4
    <2>2. \A w \in Validators : w # v => q.validatorClaims[w] = p.validatorClaims[w]
        BY Zenon, <1>1, <1>2
    <2>3. q.validatorClaims[v] = c
        BY Zenon, <1>1, <1>2
    <2> QED
        BY SMTT(30), <1>3, <1>4, <2>1, <2>2, <2>3 DEF Consistent
<1>5. CASE d = c
    <2>1. /\ q.claimValidators[c] = Append(votes(c), v)
          /\ votes(c) \in Seq(Validators)
        BY Zenon, <1>1, <1>2
    <2>2. /\ DOMAIN q.claimValidators[c] = DOMAIN votes(c) \cup {Len(votes(c)) + 1}
          /\ q.claimValidators[c][Len(votes(c)) + 1] = v
          /\ \A i \in DOMAIN votes(c) : q.claimValidators[c][i] = votes(c)[i]
        BY <2>1, AppendEntries
    <2>3. \A w \in Validators :
              q.validatorClaims[w] = IF w = v THEN c ELSE p.validatorClaims[w]
        BY Zenon, <1>1, <1>2
    <2>4. \A w \in Validators :
              q.validatorClaims[w] = c
                  <=> \E i \in DOMAIN q.claimValidators[c] : q.claimValidators[c][i] = w
        BY SMTT(30), <2>2, <2>3 DEF Consistent
    <2>5. \A i, j \in DOMAIN q.claimValidators[c] :
              q.claimValidators[c][i] = q.claimValidators[c][j] => i = j
        BY <1>3, <2>2 DEF Consistent
    <2> QED
        BY Zenon, <1>5, <2>4, <2>5
<1> QED
    BY Zenon, <1>4, <1>5

\* Writing the status that processCompletion computed leaves the votes alone.
LEMMA StatusConsistent ==
    ASSUME NEW p \in ProphecyType, NEW s \in Statuses
    PROVE  LET q == [p EXCEPT !.status = s] IN
           /\ Consistent(p) => Consistent(q)
           /\ q.validatorClaims = p.validatorClaims
<1> DEFINE q == [p EXCEPT !.status = s]
<1>1. q.claimValidators = p.claimValidators /\ q.validatorClaims = p.validatorClaims
    BY Zenon DEF ProphecyType
<1> HIDE DEF q
<1> QED
    BY <1>1 DEF Consistent, q

\* Every operation keeps the two maps of every prophecy inverse to each other.
LEMMA NextConsistent ==
    ASSUME TypeOK, VotesConsistent, [Next]_oracleVars
    PROVE  VotesConsistent'
<1>1. ASSUME NEW v \in Validators, NEW i \in Prophecies, NEW c \in Claims, ProcessClaim(v, i, c)
      PROVE  VotesConsistent'
    <2> DEFINE q == AddClaim(prophecy[i], v, c)
    <2>1. prophecy \in [Prophecies -> ProphecyType]
        BY Zenon DEF TypeOK
    <2>2. PICK s \in Statuses : prophecy' = [prophecy EXCEPT ![i] = [q EXCEPT !.status = s]]
        BY <1>1, ProcessClaimStep
    <2>3. q \in ProphecyType /\ Consistent(q)
        BY Zenon, <1>1, <2>1, AddClaimType, AddClaimConsistent DEF VotesConsistent, ProcessClaim, MayClaim
    <2>4. Consistent([q EXCEPT !.status = s])
        BY Zenon, <2>3, StatusConsistent
    <2>5. prophecy'[i] = [q EXCEPT !.status = s] /\ \A id \in Prophecies : id # i => prophecy'[id] = prophecy[id]
        BY Zenon, <2>1, <2>2
    <2>6. \A id \in Prophecies : Consistent(prophecy'[id])
        BY Zenon, <2>4, <2>5 DEF VotesConsistent
    <2> QED
        BY Zenon, <2>6 DEF VotesConsistent, Consistent
<1>2. CASE prophecy' = prophecy
    BY <1>2 DEF VotesConsistent, Consistent
<1>3. Next => Claim \/ prophecy' = prophecy
    BY Zenon DEF Next, Staking, StakingEndBlock, ChangePower, AddOracleWhiteList, RemoveOracleWhiteList
<1> QED
    BY Zenon, <1>1, <1>2, <1>3 DEF Claim, oracleVars

\* At genesis there are no votes, so the maps agree.
LEMMA InitConsistent == Init => VotesConsistent
<1> SUFFICES ASSUME Init PROVE VotesConsistent
    BY Zenon
<1>1. Consistent(NewProphecy)
    BY ClaimsAssumption DEF NewProphecy, Consistent
<1> QED
    BY Zenon, <1>1 DEF Init, VotesConsistent

\* Every vote that is counted was cast once, for one content.
THEOREM VotesAreConsistent == Spec => []VotesConsistent
    BY InitTypeOK, NextTypeOK, InitConsistent, NextConsistent, PTL DEF Spec

-----------------------------------------------------------------------------
(***************************************************************************)
(* The power FindHighestClaim adds up, vote by vote, is the power of the   *)
(* set of validators that made the claim.                                  *)
(***************************************************************************)

\* The powers of a set of validators are finite sets of units.
LEMMA UnitsFinite ==
    ASSUME NEW vals \in SUBSET Validators
    PROVE  /\ IsFiniteSet(ValidatorUnits(vals))
           /\ Cardinality(ValidatorUnits(vals)) \in Nat
<1>1. IsFiniteSet(vals) /\ IsFiniteSet(1 .. MaxPower)
    BY ValidatorsAssumption, PowerAssumption, FS_Subset, FS_Interval
<1>2. IsFiniteSet(vals \X (1 .. MaxPower))
    BY Zenon, <1>1, FS_Product
<1>3. ValidatorUnits(vals) \in SUBSET (vals \X (1 .. MaxPower))
    BY Zenon DEF ValidatorUnits
<1> QED
    BY Zenon, <1>2, <1>3, FS_Subset, FS_CardinalityType

\* The powers of disjoint sets of validators add up.
LEMMA UnitsDisjoint ==
    ASSUME NEW A \in SUBSET Validators, NEW B \in SUBSET Validators, A \cap B = {}
    PROVE  Cardinality(ValidatorUnits(A \cup B))
               = Cardinality(ValidatorUnits(A)) + Cardinality(ValidatorUnits(B))
<1>1. ValidatorUnits(A \cup B) = ValidatorUnits(A) \cup ValidatorUnits(B)
    BY Zenon DEF ValidatorUnits
<1>2. ValidatorUnits(A) \cap ValidatorUnits(B) = {}
    BY Zenon DEF ValidatorUnits
<1>3. /\ IsFiniteSet(ValidatorUnits(A)) /\ IsFiniteSet(ValidatorUnits(B))
      /\ Cardinality(ValidatorUnits(A)) \in Nat /\ Cardinality(ValidatorUnits(B)) \in Nat
    BY Zenon, UnitsFinite
<1>4. Cardinality(ValidatorUnits(A) \cap ValidatorUnits(B)) = 0
    BY Zenon, <1>2, FS_EmptySet
<1>5. Cardinality(ValidatorUnits(A) \cup ValidatorUnits(B))
          = Cardinality(ValidatorUnits(A)) + Cardinality(ValidatorUnits(B))
                - Cardinality(ValidatorUnits(A) \cap ValidatorUnits(B))
    BY Zenon, <1>3, FS_Union
<1>6. Cardinality(ValidatorUnits(A) \cup ValidatorUnits(B))
          = Cardinality(ValidatorUnits(A)) + Cardinality(ValidatorUnits(B))
    BY <1>3, <1>4, <1>5
<1> QED
    BY Zenon, <1>1, <1>6, Zenon

\* More validators have no less power.
LEMMA UnitsMonotone ==
    ASSUME NEW B \in SUBSET Validators, NEW A \in SUBSET B
    PROVE  Cardinality(ValidatorUnits(A)) <= Cardinality(ValidatorUnits(B))
<1>1. ValidatorUnits(A) \in SUBSET ValidatorUnits(B)
    BY Zenon DEF ValidatorUnits
<1> QED
    BY Zenon, <1>1, UnitsFinite, FS_Subset

\* What Consistent says of one entry, one vote, and two entries.
LEMMA VoteOfEntry ==
    ASSUME NEW p \in ProphecyType, Consistent(p), NEW c \in Claims,
           NEW i \in DOMAIN p.claimValidators[c]
    PROVE  /\ p.claimValidators[c][i] \in Validators
           /\ p.validatorClaims[p.claimValidators[c][i]] = c
<1>1. p.claimValidators[c] \in Seq(Validators)
    BY Zenon DEF ProphecyType
<1>2. p.claimValidators[c][i] \in Validators
    BY <1>1
<1> QED
    BY <1>2 DEF Consistent

\* A validator's claim lists the validator (AddClaim fills both maps).
LEMMA EntryOfVote ==
    ASSUME NEW p, Consistent(p), NEW c \in Claims,
           NEW v \in Validators, p.validatorClaims[v] = c
    PROVE  \E i \in DOMAIN p.claimValidators[c] : p.claimValidators[c][i] = v
    BY DEF Consistent

\* No validator is listed twice under a claim.
LEMMA EntriesDistinct ==
    ASSUME NEW p, Consistent(p), NEW c \in Claims,
           NEW i \in DOMAIN p.claimValidators[c], NEW j \in DOMAIN p.claimValidators[c],
           p.claimValidators[c][i] = p.claimValidators[c][j]
    PROVE  i = j
    BY Zenon DEF Consistent

\* ClaimPower counts list entries; with consistent votes that is the power of
\* the validators whose claim it is.
LEMMA ClaimPowerIsSupport ==
    ASSUME NEW p \in ProphecyType, Consistent(p), NEW c \in Claims
    PROVE  ClaimPower(p, c) = Cardinality(ValidatorUnits(Supporters(p, c)))
<1> DEFINE votes == p.claimValidators[c]
           S == VoteUnits(votes)
           T == ValidatorUnits(Supporters(p, c))
           f == [x \in S |-> <<votes[x[1]], x[2]>>]
<1>1. votes \in Seq(Validators) /\ DOMAIN votes = 1 .. Len(votes)
    BY DEF ProphecyType
<1>2. \A x \in S : /\ x = <<x[1], x[2]>>
                   /\ x[1] \in 1 .. Len(votes) /\ x[2] \in 1 .. MaxPower
                   /\ HasUnit(votes[x[1]], x[2])
    BY DEF VoteUnits
<1>3. \A x \in S : f[x] \in T
    <2>1. \A i \in 1 .. Len(votes) : votes[i] \in Supporters(p, c)
        BY <1>1 DEF Consistent, Supporters
    <2> QED
        BY Zenon, <1>2, <2>1 DEF ValidatorUnits
<1>4. ASSUME NEW x \in S, NEW y \in S, f[x] = f[y]
      PROVE  x = y
    <2>1. votes[x[1]] = votes[y[1]] /\ x[2] = y[2]
        BY Zenon, <1>4
    <2>2. x[1] = y[1]
        BY <1>1, <1>2, <2>1 DEF Consistent
    <2> QED
        BY Zenon, <1>2, <2>1, <2>2
<1>5. ASSUME NEW y \in T
      PROVE  \E x \in S : f[x] = y
    <2>1. /\ y = <<y[1], y[2]>>
          /\ y[1] \in Supporters(p, c) /\ y[2] \in 1 .. MaxPower
          /\ HasUnit(y[1], y[2])
        BY DEF ValidatorUnits
    <2>2. PICK i \in 1 .. Len(votes) : votes[i] = y[1]
        <3>1. y[1] \in Validators /\ p.validatorClaims[y[1]] = c
            BY Zenon, <2>1 DEF Supporters
        <3> QED
            BY <1>1, <3>1, EntryOfVote
    <2>3. <<i, y[2]>> \in S
        BY Zenon, <2>1, <2>2 DEF VoteUnits
    <2> QED
        BY Zenon, <2>1, <2>2, <2>3
<1>6. f \in Bijection(S, T)
    <2>1. f \in [S -> T]
        BY Zenon, <1>3
    <2> HIDE DEF S, T, f
    <2> QED
        BY <2>1, <1>4, <1>5, Fun_IsBij
<1>7. IsFiniteSet(S)
    <2>1. IsFiniteSet((1 .. Len(votes)) \X (1 .. MaxPower))
        <3>1. IsFiniteSet(1 .. Len(votes)) /\ IsFiniteSet(1 .. MaxPower)
            BY <1>1, PowerAssumption, FS_Interval
        <3> QED
            BY Zenon, <3>1, FS_Product
    <2>2. S \in SUBSET ((1 .. Len(votes)) \X (1 .. MaxPower))
        BY Zenon DEF VoteUnits
    <2> QED
        BY Zenon, <2>1, <2>2, FS_Subset
<1> QED
    BY <1>6, <1>7, FS_Bijection DEF ExistsBijection, ClaimPower

\* The validators that have claimed anything.
Voters(p) == {v \in Validators : p.validatorClaims[v] # NoClaim}

\* TotalClaimsPower is the power of all the validators that have claimed.
LEMMA ClaimedPowerIsVoters ==
    ASSUME NEW p \in ProphecyType, Consistent(p)
    PROVE  TotalClaimsPower(p) = Cardinality(ValidatorUnits(Voters(p)))
<1> DEFINE S == ClaimedUnits(p)
           T == ValidatorUnits(Voters(p))
           g == [x \in S |-> <<p.claimValidators[x[1]][x[2][1]], x[2][2]>>]
<1>1. /\ p.claimValidators \in [Claims -> Seq(Validators)]
      /\ p.validatorClaims \in [Validators -> Claims \cup {NoClaim}]
    BY Zenon DEF ProphecyType
<1>2. ASSUME NEW x \in S
      PROVE  /\ x = <<x[1], <<x[2][1], x[2][2]>>>>
             /\ x[1] \in Claims
             /\ x[2][1] \in DOMAIN p.claimValidators[x[1]] /\ x[2][2] \in 1 .. MaxPower
             /\ p.claimValidators[x[1]][x[2][1]] \in Validators
             /\ HasUnit(p.claimValidators[x[1]][x[2][1]], x[2][2])
    <2>0. PICK c \in Claims : \E y \in VoteUnits(p.claimValidators[c]) : x = <<c, y>>
        BY Zenon DEF ClaimedUnits
    <2>1. PICK y \in VoteUnits(p.claimValidators[c]) : x = <<c, y>>
        BY Zenon, <2>0
    <2>2. p.claimValidators[c] \in Seq(Validators)
        BY Zenon, <1>1
    <2>3. /\ y = <<y[1], y[2]>>
          /\ y[1] \in DOMAIN p.claimValidators[c] /\ y[2] \in 1 .. MaxPower
          /\ HasUnit(p.claimValidators[c][y[1]], y[2])
        BY <2>2 DEF VoteUnits
    <2> QED
        BY <2>1, <2>2, <2>3
<1>3. ASSUME NEW x \in S
      PROVE  g[x] \in T
    <2>1. p.validatorClaims[p.claimValidators[x[1]][x[2][1]]] = x[1]
        BY Zenon, <1>2, VoteOfEntry
    <2>2. p.claimValidators[x[1]][x[2][1]] \in Voters(p)
        BY Zenon, <1>2, <2>1, ClaimsAssumption DEF Voters
    <2>3. <<p.claimValidators[x[1]][x[2][1]], x[2][2]>> \in T
        BY Zenon, <1>2, <2>2 DEF ValidatorUnits
    <2> QED
        BY Zenon, <2>3
<1>4. ASSUME NEW x \in S, NEW y \in S, g[x] = g[y]
      PROVE  x = y
    <2>1. p.claimValidators[x[1]][x[2][1]] = p.claimValidators[y[1]][y[2][1]] /\ x[2][2] = y[2][2]
        BY Zenon, <1>4
    <2>2. x[1] = y[1]
        <3>1. /\ p.validatorClaims[p.claimValidators[x[1]][x[2][1]]] = x[1]
              /\ p.validatorClaims[p.claimValidators[y[1]][y[2][1]]] = y[1]
            BY Zenon, <1>2, VoteOfEntry
        <3> QED
            BY Zenon, <2>1, <3>1
    <2>3. x[2][1] = y[2][1]
        <3> HIDE DEF S, T, g
        <3>1. /\ x[1] \in Claims
              /\ x[2][1] \in DOMAIN p.claimValidators[x[1]]
              /\ y[2][1] \in DOMAIN p.claimValidators[x[1]]
              /\ p.claimValidators[x[1]][x[2][1]] = p.claimValidators[x[1]][y[2][1]]
            BY SMTT(30), <1>2, <2>1, <2>2
        <3> QED
            BY Zenon, <3>1, EntriesDistinct
    <2> QED
        BY Zenon, <1>2, <2>1, <2>2, <2>3
<1>5. ASSUME NEW y \in T
      PROVE  \E x \in S : g[x] = y
    <2>1. /\ y = <<y[1], y[2]>>
          /\ y[1] \in Voters(p) /\ y[2] \in 1 .. MaxPower
          /\ HasUnit(y[1], y[2])
        BY DEF ValidatorUnits
    <2> DEFINE c == p.validatorClaims[y[1]]
    <2>2. c \in Claims /\ y[1] \in Validators
        BY Zenon, <1>1, <2>1 DEF Voters
    <2>3. PICK i \in DOMAIN p.claimValidators[c] : p.claimValidators[c][i] = y[1]
        BY <2>2 DEF Consistent
    <2>4. <<i, y[2]>> \in VoteUnits(p.claimValidators[c])
        <3> HIDE DEF S, T, g, c
        <3>1. p.claimValidators[c] \in Seq(Validators)
            BY Zenon, <1>1, <2>2
        <3>2. i \in 1 .. Len(p.claimValidators[c])
            BY <2>3, <3>1
        <3>3. HasUnit(p.claimValidators[c][i], y[2])
            BY Zenon, <2>1, <2>3
        <3> QED
            BY Zenon, <2>1, <3>2, <3>3 DEF VoteUnits
    <2>5. <<c, <<i, y[2]>>>> \in S
        BY <2>2, <2>4 DEF ClaimedUnits
    <2> QED
        BY Zenon, <2>1, <2>3, <2>5
<1>6. ExistsBijection(S, T)
    <2>1. g \in [S -> T]
        BY Zenon, <1>3
    <2> HIDE DEF S, T, g
    <2>2. g \in Bijection(S, T)
        BY Zenon, <2>1, <1>4, <1>5, Fun_IsBij
    <2> QED
        BY Zenon, <2>2 DEF ExistsBijection
<1>7. IsFiniteSet(T)
    BY Zenon, UnitsFinite DEF Voters
<1>8. ExistsBijection(T, S)
    BY Zenon, <1>6, Fun_ExistsBijSymmetric
<1> QED
    BY Zenon, <1>7, <1>8, FS_Bijection DEF TotalClaimsPower

-----------------------------------------------------------------------------
(***************************************************************************)
(* The whitelist only grows.  The invariant that makes the decisions right *)
(* is that every voter is still on the whitelist: then each claim's power  *)
(* is part of the total power it is divided by.                            *)
(***************************************************************************)

GrowInv == TypeOK /\ VotesConsistent /\ VotersWhitelisted

\* A whitelist that only grows is a special case of the oracle.
LEMMA GrowIsNext == GrowNext => Next
    BY Zenon DEF GrowNext, Next

\* Without removals, only a whitelisted validator's claim adds a voter, and
\* no voter leaves the whitelist.
LEMMA NextWhitelisted ==
    ASSUME TypeOK, VotersWhitelisted, [GrowNext]_oracleVars
    PROVE  VotersWhitelisted'
<1>1. ASSUME NEW v \in Validators, NEW i \in Prophecies, NEW c \in Claims, ProcessClaim(v, i, c)
      PROVE  VotersWhitelisted'
    <2> DEFINE q == AddClaim(prophecy[i], v, c)
    <2>1. prophecy \in [Prophecies -> ProphecyType]
        BY Zenon DEF TypeOK
    <2>2. PICK s \in Statuses : prophecy' = [prophecy EXCEPT ![i] = [q EXCEPT !.status = s]]
        BY <1>1, ProcessClaimStep
    <2>3. q \in ProphecyType /\ q.validatorClaims = [prophecy[i].validatorClaims EXCEPT ![v] = c]
        <3>1. q \in ProphecyType
            BY Zenon, <2>1, AddClaimType
        <3>2. q.validatorClaims = [prophecy[i].validatorClaims EXCEPT ![v] = c]
            BY Zenon DEF AddClaim
        <3> QED
            BY Zenon, <3>1, <3>2
    <2>4. [q EXCEPT !.status = s].validatorClaims = q.validatorClaims
        BY Zenon, <2>3, StatusConsistent
    <2>5. /\ prophecy'[i].validatorClaims = [prophecy[i].validatorClaims EXCEPT ![v] = c]
          /\ \A id \in Prophecies : id # i => prophecy'[id] = prophecy[id]
        BY Zenon, <2>1, <2>2, <2>3, <2>4
    <2>6. v \in whitelist /\ whitelist' = whitelist
        BY Zenon, <1>1 DEF ProcessClaim, MayClaim
    <2>7. prophecy[i].validatorClaims \in [Validators -> Claims \cup {NoClaim}]
        BY Zenon, <2>1 DEF ProphecyType
    <2> QED
        BY Zenon, <2>5, <2>6, <2>7 DEF VotersWhitelisted
<1>2. CASE prophecy' = prophecy /\ whitelist \subseteq whitelist'
    BY Zenon, <1>2 DEF VotersWhitelisted
<1>3. GrowNext => Claim \/ (prophecy' = prophecy /\ whitelist \subseteq whitelist')
    BY Zenon DEF GrowNext, Staking, StakingEndBlock, ChangePower, AddOracleWhiteList
<1> QED
    BY Zenon, <1>1, <1>2, <1>3 DEF Claim, oracleVars

\* At genesis nobody has voted.
LEMMA InitWhitelisted == Init => VotersWhitelisted
    BY DEF Init, NewProphecy, VotersWhitelisted

\* The inductive invariant of the oracle without removals from the whitelist:
\* a well-formed store, each vote counted once, and every voter whitelisted.
THEOREM GrowInvariant == GrowSpec => []GrowInv
<1>1. Init => GrowInv
    BY Zenon, InitTypeOK, InitConsistent, InitWhitelisted DEF GrowInv
<1>2. GrowInv /\ [GrowNext]_oracleVars => GrowInv'
    BY Zenon, NextTypeOK, NextConsistent, NextWhitelisted, GrowIsNext DEF GrowInv
<1> QED
    BY <1>1, <1>2, PTL DEF GrowSpec

\* What GrowInv says of a prophecy that the next claim may produce.
LEMMA CompletionFacts ==
    ASSUME GrowInv, NEW r \in Completions
    PROVE  /\ r[1] \in ProphecyType
           /\ Consistent(r[1])
           /\ Voters(r[1]) \subseteq whitelist
           /\ whitelist \subseteq Validators
           /\ r[1].status.text = "PENDING"
           /\ r[2] = processCompletion(r[1])
<1>1. PICK y \in Prophecies \X Validators \X Claims :
          /\ MayClaim(y[2], y[1])
          /\ r = <<AddClaim(prophecy[y[1]], y[2], y[3]),
                   processCompletion(AddClaim(prophecy[y[1]], y[2], y[3]))>>
    BY Zenon DEF Completions
<1> DEFINE p == prophecy[y[1]]
<1>2. p \in ProphecyType /\ Consistent(p) /\ Voters(p) \subseteq whitelist
    BY Zenon DEF GrowInv, TypeOK, VotesConsistent, VotersWhitelisted, Voters
<1>3. /\ r[1] = AddClaim(p, y[2], y[3])
      /\ r[2] = processCompletion(r[1])
    BY Zenon, <1>1
<1>4. /\ y[2] \in Validators /\ y[3] \in Claims
      /\ y[2] \in whitelist
      /\ p.validatorClaims[y[2]] = NoClaim
      /\ p.status.text = "PENDING"
    BY Zenon, <1>1 DEF MayClaim
<1>5. /\ r[1] \in ProphecyType /\ r[1].status = p.status
      /\ r[1].validatorClaims = [p.validatorClaims EXCEPT ![y[2]] = y[3]]
    <2>1. AddClaim(p, y[2], y[3]) \in ProphecyType
        BY Zenon, <1>2, <1>4, AddClaimType
    <2>2. /\ r[1].status = p.status
          /\ r[1].validatorClaims = [p.validatorClaims EXCEPT ![y[2]] = y[3]]
        <3> HIDE DEF p
        <3>1. /\ AddClaim(p, y[2], y[3]).status = p.status
              /\ AddClaim(p, y[2], y[3]).validatorClaims
                     = [p.validatorClaims EXCEPT ![y[2]] = y[3]]
            BY Zenon DEF AddClaim
        <3>2. r[1] = AddClaim(p, y[2], y[3])
            BY Zenon, <1>3
        <3> QED
            BY Zenon, <3>1, <3>2, Zenon
    <2> QED
        BY Zenon, <1>3, <2>1, <2>2, Zenon
<1>6. Consistent(r[1])
    BY Zenon, <1>2, <1>3, <1>4, AddClaimConsistent
<1>7. p.validatorClaims \in [Validators -> Claims \cup {NoClaim}]
    BY Zenon, <1>2 DEF ProphecyType
<1>8. Voters(r[1]) \subseteq whitelist
    BY Zenon, <1>2, <1>4, <1>5, <1>7 DEF Voters
<1> QED
    BY Zenon, <1>3, <1>4, <1>5, <1>6, <1>8 DEF GrowInv, TypeOK

\* Two contents never share voters, so together they have at most the total.
LEMMA RivalClaims ==
    ASSUME NEW p \in ProphecyType, Consistent(p), Voters(p) \subseteq whitelist,
           whitelist \subseteq Validators,
           NEW c \in Claims, NEW d \in Claims, c # d
    PROVE  /\ ClaimPower(p, c) \in Nat /\ ClaimPower(p, d) \in Nat /\ TotalPower \in Nat
           /\ ClaimPower(p, c) + ClaimPower(p, d) <= TotalPower
<1> DEFINE A == Supporters(p, c)
           B == Supporters(p, d)
<1>1. A \in SUBSET Validators /\ B \in SUBSET Validators /\ A \cap B = {}
    BY Zenon DEF Supporters
<1>2. A \cup B \in SUBSET whitelist
    BY Zenon, ClaimsAssumption DEF Supporters, Voters
<1>3. Cardinality(ValidatorUnits(A \cup B)) <= TotalPower /\ TotalPower \in Nat
    BY Zenon, <1>2, UnitsMonotone, UnitsFinite DEF TotalPower
<1>4. Cardinality(ValidatorUnits(A \cup B))
          = Cardinality(ValidatorUnits(A)) + Cardinality(ValidatorUnits(B))
    BY Zenon, <1>1, UnitsDisjoint
<1>5. /\ ClaimPower(p, c) = Cardinality(ValidatorUnits(A))
      /\ ClaimPower(p, d) = Cardinality(ValidatorUnits(B))
    BY Zenon, ClaimPowerIsSupport
<1>6. Cardinality(ValidatorUnits(A)) \in Nat /\ Cardinality(ValidatorUnits(B)) \in Nat
    BY Zenon, <1>1, UnitsFinite
<1> QED
    BY Zenon, <1>3, <1>4, <1>5, <1>6

\* With a consensus ratio over one half, two claims that share the total
\* power cannot both reach it.
LEMMA RatioArithmetic ==
    ASSUME NEW n \in Nat, NEW total \in Nat, n + n <= total,
           2 * ConsensusNum > ConsensusDen
    PROVE  ~RatioReached(n, total)
<1>1. CASE total = 0
    BY <1>1 DEF RatioReached
<1>2. CASE total # 0 /\ ConsensusDen * n >= ConsensusNum * total
    <2>1. ConsensusNum \in Nat /\ ConsensusDen \in Nat
        BY Zenon, ConsensusAssumption
    <2>2. ConsensusNum * total >= ConsensusNum * (n + n)
        BY <2>1
    <2>3. ConsensusNum * (n + n) = (2 * ConsensusNum) * n
        BY <2>1
    <2>4. ConsensusDen * n >= (2 * ConsensusNum) * n
        BY SMTT(30), <1>2, <2>1, <2>2, <2>3
    <2>5. n > 0 => (2 * ConsensusNum) * n > ConsensusDen * n
        BY <2>1
    <2>6. n = 0
        BY <2>1, <2>4, <2>5
    <2>7. ConsensusDen * n = 0
        BY <2>1, <2>6
    <2>8. ConsensusNum * total > 0
        BY <1>2, ConsensusAssumption
    <2>9. FALSE
        BY SMTT(30), <1>2, <2>7, <2>8, ConsensusAssumption
    <2> QED
        BY Zenon, <2>9
<1> QED
    BY Zenon, <1>1, <1>2 DEF RatioReached

\* What a status of processCompletion was computed from.
LEMMA CompletionOf ==
    ASSUME NEW p \in ProphecyType, NEW s \in processCompletion(p)
    PROVE  \E c \in HighestClaims(p) :
               s = IF RatioReached(ClaimPower(p, c), TotalPower) THEN Success(c)
                   ELSE IF RatioMissed(ClaimPower(p, c) + (TotalPower - TotalClaimsPower(p)), TotalPower)
                        THEN Failed ELSE p.status
    BY DEF processCompletion, FindHighestClaim

\* With a ratio over one half (the code's 0.7) and a whitelist that only
\* grows, the Go map order never decides the status of a prophecy.
THEOREM Determinism ==
    ASSUME 2 * ConsensusNum > ConsensusDen
    PROVE  GrowSpec => []CompletionDeterministic
<1>1. GrowInv => CompletionDeterministic
    <2> SUFFICES ASSUME GrowInv, NEW r \in Completions, NEW s \in r[2], NEW t \in r[2]
                 PROVE  s = t
        BY Zenon DEF CompletionDeterministic
    <2> DEFINE p == r[1]
    <2>1. /\ p \in ProphecyType /\ Consistent(p) /\ Voters(p) \subseteq whitelist
          /\ whitelist \subseteq Validators
          /\ s \in processCompletion(p) /\ t \in processCompletion(p)
        BY Zenon, CompletionFacts
    <2> HIDE DEF p
    <2>2. PICK c \in HighestClaims(p) :
              s = IF RatioReached(ClaimPower(p, c), TotalPower) THEN Success(c)
                  ELSE IF RatioMissed(ClaimPower(p, c) + (TotalPower - TotalClaimsPower(p)), TotalPower)
                       THEN Failed ELSE p.status
        BY Zenon, <2>1, CompletionOf
    <2>3. PICK d \in HighestClaims(p) :
              t = IF RatioReached(ClaimPower(p, d), TotalPower) THEN Success(d)
                  ELSE IF RatioMissed(ClaimPower(p, d) + (TotalPower - TotalClaimsPower(p)), TotalPower)
                       THEN Failed ELSE p.status
        BY Zenon, <2>1, CompletionOf
    <2>4. CASE c = d
        BY Zenon, <2>2, <2>3, <2>4
    <2>5. CASE c # d
        <3>1. /\ c \in Claims /\ d \in Claims
              /\ ClaimPower(p, c) <= ClaimPower(p, d) /\ ClaimPower(p, d) <= ClaimPower(p, c)
            BY Zenon DEF HighestClaims, ClaimsOn
        <3>2. /\ ClaimPower(p, c) \in Nat /\ ClaimPower(p, d) \in Nat /\ TotalPower \in Nat
              /\ ClaimPower(p, c) + ClaimPower(p, d) <= TotalPower
            BY Zenon, <2>1, <2>5, <3>1, RivalClaims
        <3>3. ClaimPower(p, c) = ClaimPower(p, d)
            BY SMTT(30), <3>1, <3>2
        <3>4. ~RatioReached(ClaimPower(p, c), TotalPower)
            BY Zenon, <3>2, <3>3, RatioArithmetic
        <3> QED
            BY Zenon, <2>2, <2>3, <3>3, <3>4
    <2> QED
        BY Zenon, <2>4, <2>5
<1> QED
    BY <1>1, GrowInvariant, PTL

\* While the whitelist only grows, a claim succeeds only with the consensus
\* ratio of the whitelisted power behind it, whitelisted voters alone counted.
THEOREM QuorumBehindSuccess == GrowSpec => []SuccessHasWhitelistedQuorum
<1>1. GrowInv => SuccessHasWhitelistedQuorum
    <2> SUFFICES ASSUME GrowInv, NEW r \in Completions, NEW c \in Claims, Success(c) \in r[2]
                 PROVE  QuorumOf(Supporters(r[1], c))
        BY Zenon DEF SuccessHasWhitelistedQuorum
    <2> DEFINE p == r[1]
    <2>1. /\ p \in ProphecyType /\ Consistent(p) /\ Voters(p) \subseteq whitelist
          /\ p.status.text = "PENDING"
          /\ Success(c) \in processCompletion(p)
        BY Zenon, CompletionFacts
    <2> HIDE DEF p
    <2>2. PICK d \in HighestClaims(p) :
              Success(c) = IF RatioReached(ClaimPower(p, d), TotalPower) THEN Success(d)
                  ELSE IF RatioMissed(ClaimPower(p, d) + (TotalPower - TotalClaimsPower(p)), TotalPower)
                       THEN Failed ELSE p.status
        BY Zenon, <2>1, CompletionOf
    <2>3. Success(c) # Failed /\ Success(c) # p.status
        BY <2>1 DEF Success, Failed
    <2>4. RatioReached(ClaimPower(p, d), TotalPower) /\ Success(c) = Success(d)
        BY Zenon, <2>2, <2>3
    <2>5. RatioReached(ClaimPower(p, c), TotalPower)
        BY Zenon, <2>4 DEF Success
    <2>6. Supporters(p, c) \cap whitelist = Supporters(p, c)
        BY Zenon, <2>1, ClaimsAssumption DEF Supporters, Voters
    <2>7. ClaimPower(p, c) = Cardinality(ValidatorUnits(Supporters(p, c)))
        BY Zenon, <2>1, ClaimPowerIsSupport
    <2> QED
        BY Zenon, <2>5, <2>6, <2>7, Zenon DEF QuorumOf, p
<1> QED
    BY <1>1, GrowInvariant, PTL

\* The most a content can get: its own power and that of those yet to vote.
LEMMA BestOutcome ==
    ASSUME NEW p \in ProphecyType, Consistent(p), Voters(p) \subseteq whitelist,
           whitelist \subseteq Validators, NEW c \in Claims
    PROVE  Cardinality(ValidatorUnits((Supporters(p, c) \cup Supporters(p, NoClaim)) \cap whitelist))
               = ClaimPower(p, c) + (TotalPower - TotalClaimsPower(p))
<1> DEFINE A == Supporters(p, c)
           N == whitelist \ Voters(p)
<1>1. /\ A \in SUBSET Validators /\ N \in SUBSET Validators /\ Voters(p) \in SUBSET Validators
      /\ A \cap N = {} /\ Voters(p) \cap N = {}
    BY Zenon, ClaimsAssumption DEF Supporters, Voters
<1>2. (Supporters(p, c) \cup Supporters(p, NoClaim)) \cap whitelist = A \cup N
    BY Zenon, ClaimsAssumption DEF Supporters, Voters
<1>3. whitelist = Voters(p) \cup N
    BY Zenon
<1>4. Cardinality(ValidatorUnits(A \cup N))
          = Cardinality(ValidatorUnits(A)) + Cardinality(ValidatorUnits(N))
    BY Zenon, <1>1, UnitsDisjoint
<1>5. Cardinality(ValidatorUnits(Voters(p) \cup N))
          = Cardinality(ValidatorUnits(Voters(p))) + Cardinality(ValidatorUnits(N))
    BY Zenon, <1>1, UnitsDisjoint
<1>6. /\ Cardinality(ValidatorUnits(A)) \in Nat
      /\ Cardinality(ValidatorUnits(N)) \in Nat
      /\ Cardinality(ValidatorUnits(Voters(p))) \in Nat
    BY Zenon, <1>1, UnitsFinite
<1>7. /\ ClaimPower(p, c) = Cardinality(ValidatorUnits(A))
      /\ TotalClaimsPower(p) = Cardinality(ValidatorUnits(Voters(p)))
    BY Zenon, ClaimPowerIsSupport, ClaimedPowerIsVoters
<1>8. TotalPower = Cardinality(ValidatorUnits(Voters(p) \cup N))
    BY Zenon, <1>3 DEF TotalPower
<1> HIDE DEF A, N
<1>9. Cardinality(ValidatorUnits(A \cup N)) = ClaimPower(p, c) + (TotalPower - TotalClaimsPower(p))
    BY SMTT(30), <1>4, <1>5, <1>6, <1>7, <1>8
<1> QED
    BY Zenon, <1>2, <1>9, Zenon DEF A, N

\* A content that nobody claims has no power, so the highest claim is highest
\* among all contents.
LEMMA HighestOfAll ==
    ASSUME NEW p \in ProphecyType, Consistent(p), NEW d \in HighestClaims(p), NEW c \in Claims
    PROVE  /\ ClaimPower(p, c) \in Nat /\ ClaimPower(p, d) \in Nat
           /\ ClaimPower(p, c) <= ClaimPower(p, d)
<1>1. d \in Claims
    BY Zenon DEF HighestClaims, ClaimsOn
<1>2. \A e \in Claims : Supporters(p, e) \in SUBSET Validators
    BY Zenon DEF Supporters
<1>3. \A e \in Claims : ClaimPower(p, e) \in Nat
    BY Zenon, <1>2, ClaimPowerIsSupport, UnitsFinite
<1>4. CASE c \in ClaimsOn(p)
    BY Zenon, <1>1, <1>3, <1>4 DEF HighestClaims
<1>5. CASE c \notin ClaimsOn(p)
    <2>1. p.claimValidators[c] = <<>>
        BY Zenon, <1>5 DEF ClaimsOn
    <2>2. VoteUnits(<<>>) = {}
        BY DEF VoteUnits
    <2>3. ClaimPower(p, c) = 0
        BY Zenon, <2>1, <2>2, FS_EmptySet DEF ClaimPower
    <2> QED
        BY SMTT(30), <1>1, <1>3, <2>3
<1> QED
    BY Zenon, <1>4, <1>5

\* The two float64 comparisons of processCompletion exclude each other.
LEMMA MissedIsNotReached ==
    ASSUME NEW n \in Nat, NEW m \in Nat, n <= m, NEW total \in Nat, RatioMissed(m, total)
    PROVE  ~RatioReached(n, total)
<1>1. total # 0 /\ ConsensusDen * m < ConsensusNum * total
    BY DEF RatioMissed
<1>2. ConsensusDen * n <= ConsensusDen * m
    BY ConsensusAssumption
<1>3. ConsensusDen * n < ConsensusNum * total
    BY SMTT(30), <1>1, <1>2, ConsensusAssumption
<1> QED
    BY SMTT(30), <1>1, <1>3, ConsensusAssumption DEF RatioReached

\* While the whitelist only grows, a prophecy fails only when no content can
\* reach the ratio with the votes still outstanding.
THEOREM FailureMeansHopeless == GrowSpec => []FailureIsHopeless
<1>1. GrowInv => FailureIsHopeless
    <2> SUFFICES ASSUME GrowInv, NEW r \in Completions, Failed \in r[2], NEW c \in Claims
                 PROVE  ~QuorumOf(Supporters(r[1], c) \cup Supporters(r[1], NoClaim))
        BY Zenon DEF FailureIsHopeless
    <2> DEFINE p == r[1]
               Best(e) == ClaimPower(p, e) + (TotalPower - TotalClaimsPower(p))
    <2>1. /\ p \in ProphecyType /\ Consistent(p) /\ Voters(p) \subseteq whitelist
          /\ whitelist \subseteq Validators
          /\ p.status.text = "PENDING"
          /\ Failed \in processCompletion(p)
        BY Zenon, CompletionFacts
    <2> HIDE DEF p
    <2>2. PICK d \in HighestClaims(p) :
              Failed = IF RatioReached(ClaimPower(p, d), TotalPower) THEN Success(d)
                  ELSE IF RatioMissed(Best(d), TotalPower) THEN Failed ELSE p.status
        BY Zenon, <2>1, CompletionOf
    <2>3. Failed # Success(d) /\ Failed # p.status
        BY SMTT(30), <2>1 DEF Success, Failed
    <2>4. RatioMissed(Best(d), TotalPower)
        BY Zenon, <2>2, <2>3
    <2>5. d \in Claims
        BY Zenon DEF HighestClaims, ClaimsOn
    <2>6. ClaimPower(p, c) \in Nat /\ ClaimPower(p, d) \in Nat /\ ClaimPower(p, c) <= ClaimPower(p, d)
        BY Zenon, <2>1, HighestOfAll
    <2>7. /\ TotalPower \in Nat /\ TotalClaimsPower(p) \in Nat
          /\ TotalClaimsPower(p) <= TotalPower
        <3>1. /\ Cardinality(ValidatorUnits(Voters(p))) <= Cardinality(ValidatorUnits(whitelist))
              /\ Cardinality(ValidatorUnits(Voters(p))) \in Nat
              /\ Cardinality(ValidatorUnits(whitelist)) \in Nat
            BY Zenon, <2>1, UnitsMonotone, UnitsFinite DEF Voters
        <3> QED
            BY SMTT(30), <2>1, <3>1, ClaimedPowerIsVoters DEF TotalPower
    <2>8. Best(c) \in Nat /\ Best(d) \in Nat /\ Best(c) <= Best(d)
        BY SMTT(30), <2>6, <2>7
    <2>9. ~RatioReached(Best(c), TotalPower)
        BY Zenon, <2>4, <2>7, <2>8, MissedIsNotReached
    <2>10. Cardinality(ValidatorUnits((Supporters(p, c) \cup Supporters(p, NoClaim)) \cap whitelist)) = Best(c)
        BY Zenon, <2>1, BestOutcome
    <2> QED
        BY Zenon, <2>9, <2>10, Zenon DEF QuorumOf, p
<1> QED
    BY <1>1, GrowInvariant, PTL

-----------------------------------------------------------------------------
(***************************************************************************)
(* x/bank.                                                                 *)
(***************************************************************************)

\* What the accounts of the model hold of d under the balances b.
HeldOf(b, d) == SumFunctionOnSet([a \in Accounts |-> b[<<a, d>>]], Accounts)

\* No more of a denom is in accounts than there is.
SupplyCovers == \A d \in Denoms : HeldOf(balance, d) <= supply[d]

\* What one account holds is part of what all hold.
LEMMA HeldNat ==
    ASSUME NEW b \in [Accounts \X Denoms -> Nat], NEW d \in Denoms
    PROVE  HeldOf(b, d) \in Nat /\ \A a \in Accounts : b[<<a, d>>] <= HeldOf(b, d)
<1> DEFINE f == [a \in Accounts |-> b[<<a, d>>]]
<1>1. \A a \in Accounts : f[a] \in Nat /\ f[a] = b[<<a, d>>]
    BY Zenon
<1> HIDE DEF f
<1>2. SumFunctionOnSet(f, Accounts) \in Nat /\ \A a \in Accounts : f[a] <= SumFunctionOnSet(f, Accounts)
    BY Zenon, <1>1, AccountAssumption, SumNat
<1> QED BY Zenon, <1>1, <1>2 DEF HeldOf, f

\* The balances b and c differ in the account a's balance of e only.
DifferAt(b, c, a, e) ==
    \A x \in Accounts, d \in Denoms : x # a \/ d # e => c[<<x, d>>] = b[<<x, d>>]

\* One account's balance of e changes, and what all hold of it by as much.
LEMMA HeldChange ==
    ASSUME NEW b \in [Accounts \X Denoms -> Nat], NEW c \in [Accounts \X Denoms -> Nat],
           NEW a \in Accounts, NEW e \in Denoms, DifferAt(b, c, a, e)
    PROVE  HeldOf(c, e) = HeldOf(b, e) - b[<<a, e>>] + c[<<a, e>>]
<1> DEFINE f == [x \in Accounts |-> b[<<x, e>>]]
           g == [x \in Accounts |-> c[<<x, e>>]]
<1>1. \A x \in Accounts : f[x] \in Int /\ g[x] \in Int
    OBVIOUS
<1>2. HeldOf(b, e) = SumFunctionOnSet(f, Accounts) /\ HeldOf(c, e) = SumFunctionOnSet(g, Accounts)
    BY Zenon DEF HeldOf
<1>3. \A x \in Accounts \ {a} : g[x] = f[x]
    BY Zenon DEF DifferAt
<1>4. f[a] = b[<<a, e>>] /\ g[a] = c[<<a, e>>]
    BY Zenon
<1> HIDE DEF f, g
<1>5. SumFunctionOnSet(g, Accounts) = SumFunctionOnSet(f, Accounts) - f[a] + g[a]
    BY SMTT(30), <1>1, <1>3, AccountAssumption, SumChange
<1> QED BY Zenon, <1>2, <1>4, <1>5

\* What all hold of any other denom does not change.
LEMMA HeldSame ==
    ASSUME NEW b, NEW c, NEW a \in Accounts, NEW e \in Denoms, DifferAt(b, c, a, e),
           NEW d \in Denoms, d # e
    PROVE  HeldOf(c, d) = HeldOf(b, d)
<1> DEFINE f == [x \in Accounts |-> b[<<x, d>>]]
           g == [x \in Accounts |-> c[<<x, d>>]]
<1>1. HeldOf(b, d) = SumFunctionOnSet(f, Accounts) /\ HeldOf(c, d) = SumFunctionOnSet(g, Accounts)
    BY Zenon DEF HeldOf
<1>2. \A x \in Accounts : g[x] = f[x]
    BY Zenon DEF DifferAt
<1> HIDE DEF f, g
<1>3. SumFunctionOnSet(g, Accounts) = SumFunctionOnSet(f, Accounts)
    BY Zenon, <1>2, AccountAssumption, SumSame
<1> QED BY Zenon, <1>1, <1>3

\* Moving coins between accounts creates and destroys none.
LEMMA MoveHeld ==
    ASSUME NEW b \in [Accounts \X Denoms -> Nat], NEW from \in Accounts, NEW to \in Accounts,
           NEW d \in Denoms, NEW n \in Nat, n <= b[<<from, d>>]
    PROVE  /\ Move(b, from, to, d, n) \in [Accounts \X Denoms -> Nat]
           /\ \A e \in Denoms : HeldOf(Move(b, from, to, d, n), e) = HeldOf(b, e)
<1> DEFINE c == [b EXCEPT ![<<from, d>>] = @ - n]
           m == Move(b, from, to, d, n)
<1>1. CASE from = to
    <2>1. m = b
        BY <1>1 DEF Move
    <2> QED BY Zenon, <2>1
<1>2. CASE from # to
    <2>1. c \in [Accounts \X Denoms -> Nat]
        OBVIOUS
    <2>2. \A x \in Accounts \X Denoms : m[x] = IF x = <<to, d>> THEN c[x] + n ELSE c[x]
        BY <1>2 DEF Move
    <2>3. m \in [Accounts \X Denoms -> Nat]
        <3>1. \A x \in Accounts \X Denoms : m[x] \in Nat
            BY SMTT(30), <2>1, <2>2
        <3>2. m = [x \in Accounts \X Denoms |-> m[x]]
            BY Zenon DEF Move
        <3> HIDE DEF m
        <3> QED BY Zenon, <3>1, <3>2
    <2>4. /\ c[<<from, d>>] = b[<<from, d>>] - n
          /\ DifferAt(b, c, from, d)
        BY Zenon DEF DifferAt
    <2>5. /\ m[<<to, d>>] = c[<<to, d>>] + n
          /\ DifferAt(c, m, to, d)
        <3> HIDE DEF c, m
        <3> QED BY Zenon, <2>2 DEF DifferAt
    <2> HIDE DEF c, m
    <2>6. ASSUME NEW e \in Denoms PROVE HeldOf(m, e) = HeldOf(b, e)
        <3>1. HeldOf(b, e) \in Nat /\ b[<<from, d>>] \in Nat /\ c[<<to, d>>] \in Nat
            BY Zenon, <2>1, HeldNat
        <3>2. CASE e = d
            <4>1. HeldOf(c, d) = HeldOf(b, d) - b[<<from, d>>] + c[<<from, d>>]
                BY Zenon, <2>1, <2>4, HeldChange
            <4>2. HeldOf(m, d) = HeldOf(c, d) - c[<<to, d>>] + m[<<to, d>>]
                BY Zenon, <2>1, <2>3, <2>5, HeldChange
            <4> QED BY SMTT(30), <3>1, <3>2, <4>1, <4>2, <2>4, <2>5
        <3>3. CASE e # d
            <4>1. HeldOf(c, e) = HeldOf(b, e)
                BY <3>3, <2>4, HeldSame
            <4>2. HeldOf(m, e) = HeldOf(c, e)
                BY SMTT(30), <3>3, <2>5, HeldSame
            <4> QED BY Zenon, <4>1, <4>2
        <3> QED BY Zenon, <3>2, <3>3
    <2> QED BY Zenon, <2>3, <2>6 DEF m
<1> QED BY Zenon, <1>1, <1>2

-----------------------------------------------------------------------------
(***************************************************************************)
(* Types, and a supply that covers the balances: without the second, burn  *)
(* could take more from the supply than there is, which BridgeLedger rules *)
(* out.                                                                    *)
(***************************************************************************)
BankOK ==
    /\ balance \in [Accounts \X Denoms -> Nat]
    /\ supply \in [Denoms -> Int]
    /\ SupplyCovers

\* Minting to a receiver adds as much to the supply as to the balances.
LEMMA PayCovered ==
    ASSUME BankOK, NEW c \in Claims, ProcessSuccessfulClaim(c)
    PROVE  BankOK'
<1> DEFINE d == ClaimDenom(c)  a == c.receiver
<1>1. d \in Denoms /\ a \in Accounts /\ c.amount \in Nat
    BY Zenon, ContentAssumption
<1>2. /\ supply' = [supply EXCEPT ![d] = @ + c.amount]
      /\ balance' = [balance EXCEPT ![<<a, d>>] = @ + c.amount]
    BY Zenon DEF ProcessSuccessfulClaim
<1> HIDE DEF d, a
<1>3. balance \in [Accounts \X Denoms -> Nat] /\ supply \in [Denoms -> Int]
    BY Zenon DEF BankOK
<1>4. balance' \in [Accounts \X Denoms -> Nat] /\ supply' \in [Denoms -> Int]
    BY SMTT(30), <1>1, <1>2, <1>3
<1>5. DifferAt(balance, balance', a, d) /\ balance'[<<a, d>>] = balance[<<a, d>>] + c.amount
    BY Zenon, <1>1, <1>2, <1>3 DEF DifferAt
<1>6. ASSUME NEW e \in Denoms PROVE HeldOf(balance', e) <= supply'[e]
    <2>1. HeldOf(balance, e) \in Nat /\ HeldOf(balance, e) <= supply[e]
        BY Zenon, <1>3, HeldNat DEF BankOK, SupplyCovers
    <2>2. CASE e = d
        <3>1. HeldOf(balance', d) = HeldOf(balance, d) - balance[<<a, d>>] + balance'[<<a, d>>]
            BY Zenon, <1>1, <1>3, <1>4, <1>5, HeldChange
        <3>2. supply'[d] = supply[d] + c.amount /\ balance[<<a, d>>] \in Nat /\ supply[d] \in Int
            BY Zenon, <1>1, <1>2, <1>3
        <3> QED BY <2>1, <2>2, <3>1, <3>2, <1>1, <1>5
    <2>3. CASE e # d
        <3>1. HeldOf(balance', e) = HeldOf(balance, e)
            BY SMTT(30), <1>1, <1>5, <2>3, HeldSame
        <3>2. supply'[e] = supply[e]
            BY Zenon, <1>2, <1>3, <2>3
        <3> QED BY Zenon, <2>1, <3>1, <3>2
    <2> QED BY Zenon, <2>2, <2>3
<1> QED BY Zenon, <1>4, <1>6 DEF BankOK, SupplyCovers, HeldOf

\* A transfer leaves the supply and the sum of the balances as they are.
LEMMA MoveCovered ==
    ASSUME BankOK, NEW from \in Accounts, NEW to \in Accounts, NEW d \in Denoms, NEW n \in Nat,
           n <= balance[<<from, d>>], balance' = Move(balance, from, to, d, n), supply' = supply
    PROVE  BankOK'
<1>1. balance \in [Accounts \X Denoms -> Nat]
    BY Zenon DEF BankOK
<1>2. /\ balance' \in [Accounts \X Denoms -> Nat]
      /\ \A e \in Denoms : HeldOf(balance', e) = HeldOf(balance, e)
    BY SMTT(30), <1>1, MoveHeld
<1> QED BY Zenon, <1>2 DEF BankOK, SupplyCovers, HeldOf

\* A burn takes as much from the supply as from the balances.
LEMMA BurnCovered ==
    ASSUME BankOK, cethReceiver \in Accounts \cup {NoAccount},
           NEW a \in Accounts, NEW d \in Denoms, NEW n \in Nat, NEW fee \in Fees,
           TakeAndBurn(a, d, n, fee)
    PROVE  BankOK' /\ n <= supply[d]
<1> DEFINE b == PayFee(a, fee)
<1>1. FeeAccount \in Accounts /\ fee \in Nat /\ Ceth \in Denoms
    BY Zenon, AccountAssumption DEF FeeAccount
<1>2. balance \in [Accounts \X Denoms -> Nat] /\ supply \in [Denoms -> Int]
    BY Zenon DEF BankOK
<1>3. /\ fee <= balance[<<a, Ceth>>]
      /\ n <= b[<<a, d>>]
      /\ balance' = [b EXCEPT ![<<a, d>>] = @ - n]
      /\ supply' = [supply EXCEPT ![d] = @ - n]
    BY SMTT(30), <1>1, <1>2, SMT DEF TakeAndBurn
<1>4. /\ b \in [Accounts \X Denoms -> Nat]
      /\ \A e \in Denoms : HeldOf(b, e) = HeldOf(balance, e)
    <2> DEFINE to == FeeAccount
    <2>1. b = Move(balance, a, to, Ceth, fee) /\ to \in Accounts
        BY Zenon, <1>1 DEF PayFee
    <2>2. fee <= balance[<<a, Ceth>>] /\ a \in Accounts
        BY Zenon, <1>3
    <2>3. balance \in [Accounts \X Denoms -> Nat] /\ fee \in Nat /\ Ceth \in Denoms
        BY Zenon, <1>1, <1>2
    <2> HIDE DEF b, to
    <2>4. /\ Move(balance, a, to, Ceth, fee) \in [Accounts \X Denoms -> Nat]
          /\ \A e \in Denoms : HeldOf(Move(balance, a, to, Ceth, fee), e) = HeldOf(balance, e)
        BY ONLY SMTT(30), <2>1, <2>2, <2>3, MoveHeld
    <2> QED BY Zenon, <2>1, <2>4
<1> HIDE DEF b
<1>5. balance' \in [Accounts \X Denoms -> Nat] /\ supply' \in [Denoms -> Int]
    <2>1. b[<<a, d>>] - n \in Nat
        BY <1>3, <1>4
    <2>2. balance' \in [Accounts \X Denoms -> Nat]
        BY Zenon, <1>3, <1>4, <2>1
    <2>3. supply' \in [Denoms -> Int]
        BY SMTT(30), <1>2, <1>3
    <2> QED BY Zenon, <2>2, <2>3
<1>6. DifferAt(b, balance', a, d) /\ balance'[<<a, d>>] = b[<<a, d>>] - n /\ b[<<a, d>>] \in Nat
    BY Zenon, <1>3, <1>4 DEF DifferAt
<1>7. ASSUME NEW e \in Denoms PROVE HeldOf(b, e) \in Nat /\ HeldOf(b, e) <= supply[e] /\ supply[e] \in Int
    BY Zenon, <1>2, <1>4, HeldNat DEF BankOK, SupplyCovers
<1>8. ASSUME NEW e \in Denoms PROVE HeldOf(balance', e) <= supply'[e]
    <2>1. CASE e = d
        <3>1. HeldOf(balance', d) = HeldOf(b, d) - b[<<a, d>>] + balance'[<<a, d>>]
            BY Zenon, <1>4, <1>5, <1>6, HeldChange
        <3>2. supply'[d] = supply[d] - n
            BY Zenon, <1>2, <1>3
        <3> QED BY <1>6, <1>7, <2>1, <3>1, <3>2
    <2>2. CASE e # d
        <3>1. HeldOf(balance', e) = HeldOf(b, e)
            BY Zenon, <1>6, <2>2, HeldSame
        <3>2. supply'[e] = supply[e]
            BY Zenon, <1>2, <1>3, <2>2
        <3> QED BY Zenon, <1>7, <3>1, <3>2
    <2> QED BY Zenon, <2>1, <2>2
<1>9. n <= supply[d]
    <2>1. b[<<a, d>>] <= HeldOf(b, d)
        BY Zenon, <1>4, HeldNat
    <2> QED BY SMTT(30), <2>1, <1>3, <1>6, <1>7
<1> QED BY Zenon, <1>5, <1>8, <1>9 DEF BankOK, SupplyCovers, HeldOf

-----------------------------------------------------------------------------
(* Steps. *)

\* A status that says SUCCESS has a final claim, any other has none.
LEMMA StatusCases ==
    ASSUME NEW s \in Statuses
    PROVE  IF s.text = "SUCCESS" THEN s.finalClaim \in Claims ELSE s.finalClaim = NoClaim
BY DEF Statuses, Pending, Failed, Success

\* What CreateEthBridgeClaim does: the status of one prophecy that was pending is
\* computed anew, and if it says so the final claim is paid.
LEMMA ClaimEffect ==
    ASSUME TypeOK, NEW v \in Validators, NEW id \in Prophecies, NEW c \in Claims,
           CreateEthBridgeClaim(v, id, c)
    PROVE  /\ prophecy'[id].status \in Statuses
           /\ prophecy[id].status.finalClaim = NoClaim
           /\ \A i \in Prophecies \ {id} : prophecy'[i] = prophecy[i]
           /\ IF prophecy'[id].status.text = "SUCCESS"
              THEN ProcessSuccessfulClaim(prophecy'[id].status.finalClaim)
              ELSE UNCHANGED <<bankVars, peggyTokens>>
           /\ UNCHANGED <<adminVars, released>>
<1> DEFINE q == AddClaim(prophecy[id], v, c)
<1>1. ProcessClaim(v, id, c)
    BY Zenon DEF CreateEthBridgeClaim
<1>2. PICK s \in Statuses : prophecy' = [prophecy EXCEPT ![id] = [q EXCEPT !.status = s]]
    BY SMTT(30), <1>1, ProcessClaimStep
<1>3. prophecy \in [Prophecies -> ProphecyType] /\ q \in ProphecyType
    BY Zenon, AddClaimType DEF TypeOK
<1> HIDE DEF q
<1>4. [q EXCEPT !.status = s].status = s
    BY Zenon, <1>3 DEF ProphecyType
<1>5. prophecy'[id].status = s /\ \A i \in Prophecies \ {id} : prophecy'[i] = prophecy[i]
    BY Zenon, <1>2, <1>3, <1>4
<1>6. prophecy[id].status.finalClaim = NoClaim
    <2>1. prophecy[id].status \in Statuses /\ prophecy[id].status.text = "PENDING"
        BY Zenon, <1>1, <1>3 DEF ProphecyType, ProcessClaim, MayClaim
    <2> QED BY Zenon, <2>1, StatusCases
<1> QED BY Zenon, <1>5, <1>6 DEF CreateEthBridgeClaim

\* The bridge uses the oracle's operations and no others on its store.
LEMMA OracleSteps == BridgeNext => [Next]_oracleVars
<1>1. EthClaim => Next
    BY Zenon DEF EthClaim, CreateEthBridgeClaim, Next, Claim
<1>2. UserStep => UNCHANGED oracleVars
    BY Zenon DEF UserStep, Lock, Burn, BankSend
<1>3. AdminStep => UNCHANGED oracleVars
    BY Zenon DEF AdminStep, UpdateCethReceiverAccount, RescueCeth, SetPause, SetBlacklist
<1>4. OracleStep => [Next]_oracleVars
    BY Zenon DEF OracleStep, Next
<1> QED BY Zenon, <1>1, <1>2, <1>3, <1>4 DEF BridgeNext

BridgeInv == BridgeTypeOK /\ SupplyCovers

\* Every step keeps the types, and a supply that covers the balances.
LEMMA BridgeStep ==
    ASSUME BridgeInv, [BridgeNext]_bridgeVars
    PROVE  BridgeInv'
<1>t. BankOK /\ TypeOK /\ cethReceiver \in Accounts \cup {NoAccount}
    BY Zenon DEF BridgeInv, BridgeTypeOK, BankOK
<1>o. TypeOK'
    <2>1. [Next]_oracleVars
        BY Zenon, OracleSteps DEF bridgeVars
    <2> QED BY Zenon, <2>1, <1>t, NextTypeOK
<1>1. ASSUME NEW v \in Validators, NEW id \in Prophecies, NEW c \in Claims,
             CreateEthBridgeClaim(v, id, c)
      PROVE  BridgeInv'
    <2> DEFINE st == prophecy'[id].status
    <2>1. /\ st \in Statuses
          /\ IF st.text = "SUCCESS" THEN ProcessSuccessfulClaim(st.finalClaim)
             ELSE UNCHANGED <<bankVars, peggyTokens>>
          /\ UNCHANGED <<adminVars, released>>
        BY Zenon, <1>1, <1>t, ClaimEffect
    <2> HIDE DEF st
    <2>2. CASE st.text = "SUCCESS"
        <3>1. st.finalClaim \in Claims /\ ProcessSuccessfulClaim(st.finalClaim)
            BY Zenon, <2>1, <2>2, StatusCases
        <3>2. BankOK'
            BY Zenon, <3>1, <1>t, PayCovered
        <3>3. peggyTokens' \in SUBSET Denoms
            BY Zenon, <3>1, ContentAssumption DEF ProcessSuccessfulClaim, BridgeInv, BridgeTypeOK
        <3> QED BY Zenon, <2>1, <3>2, <3>3, <1>o DEF BankOK, BridgeInv, BridgeTypeOK, adminVars
    <2>3. CASE st.text # "SUCCESS"
        BY Zenon, <2>1, <2>3, <1>o, <1>t DEF BridgeInv, BridgeTypeOK, adminVars, bankVars, SupplyCovers, HeldOf
    <2> QED BY Zenon, <2>2, <2>3
<1>2. ASSUME NEW a \in Accounts, NEW d \in Denoms, NEW n \in Nat, NEW fee \in Fees,
             TakeAndBurn(a, d, n, fee), UNCHANGED <<adminVars, peggyTokens>>
      PROVE  BridgeInv'
    <2>1. BankOK'
        BY Zenon, <1>2, <1>t, BurnCovered
    <2>2. released' \in [Denoms -> Nat]
        BY SMTT(30), <1>2 DEF TakeAndBurn, BridgeInv, BridgeTypeOK
    <2> QED BY Zenon, <1>2, <2>1, <2>2, <1>o DEF BankOK, BridgeInv, BridgeTypeOK, adminVars
<1>3. ASSUME NEW from \in Accounts, NEW to \in Accounts, NEW d \in Denoms, NEW n \in Nat,
             n <= balance[<<from, d>>], balance' = Move(balance, from, to, d, n),
             UNCHANGED <<supply, adminVars, peggyTokens, released>>
      PROVE  BridgeInv'
    <2>1. BankOK'
        BY Zenon, <1>3, <1>t, MoveCovered
    <2> QED BY Zenon, <1>3, <2>1, <1>o DEF BankOK, BridgeInv, BridgeTypeOK, adminVars
<1>4. ASSUME UNCHANGED <<bankVars, peggyTokens, released>>,
             cethReceiver' \in Accounts \cup {NoAccount}, paused' \in BOOLEAN,
             blacklist' \in SUBSET EthReceivers
      PROVE  BridgeInv'
    BY Zenon, <1>4, <1>o DEF BridgeInv, BridgeTypeOK, bankVars, SupplyCovers, HeldOf
<1>5. CASE EthClaim
    BY Zenon, <1>1, <1>5 DEF EthClaim
<1>6. CASE UserStep
    <2>1. PICK a \in Accounts \ Blocked, d \in Denoms : \E n \in 1 .. balance[<<a, d>>] :
              \/ \E to \in EthReceivers, fee \in Fees : Lock(a, to, d, n, fee) \/ Burn(a, to, d, n, fee)
              \/ \E b \in Accounts : BankSend(a, b, d, n)
        BY Zenon, <1>6 DEF UserStep
    <2>2. PICK n \in 1 .. balance[<<a, d>>] :
              \/ \E to \in EthReceivers, fee \in Fees : Lock(a, to, d, n, fee) \/ Burn(a, to, d, n, fee)
              \/ \E b \in Accounts : BankSend(a, b, d, n)
        BY Zenon, <2>1
    <2>3. n \in Nat /\ a \in Accounts /\ n <= balance[<<a, d>>]
        BY SMTT(30), <1>t DEF BankOK
    <2>4. ASSUME NEW to \in EthReceivers, NEW fee \in Fees, Lock(a, to, d, n, fee) \/ Burn(a, to, d, n, fee)
          PROVE  BridgeInv'
        BY Zenon, <2>3, <2>4, <1>2 DEF Lock, Burn
    <2>5. ASSUME NEW b \in Accounts, BankSend(a, b, d, n)
          PROVE  BridgeInv'
        BY Zenon, <2>3, <2>5, <1>3 DEF BankSend
    <2> QED BY Zenon, <2>2, <2>4, <2>5
<1>7. CASE AdminStep
    <2>1. ASSUME NEW a \in Accounts, UpdateCethReceiverAccount(a)
          PROVE  BridgeInv'
        BY Zenon, <2>1, <1>4 DEF UpdateCethReceiverAccount, BridgeInv, BridgeTypeOK
    <2>2. ASSUME NEW a \in Accounts, NEW n \in 1 .. balance[<<Module, Ceth>>], RescueCeth(a, n)
          PROVE  BridgeInv'
        <3>1. Module \in Accounts /\ Ceth \in Denoms
            BY Zenon, AccountAssumption
        <3>2. n \in Nat /\ n <= balance[<<Module, Ceth>>]
            BY SMTT(30), <3>1, <1>t DEF BankOK
        <3> QED BY Zenon, <2>2, <3>1, <3>2, <1>3 DEF RescueCeth
    <2>3. ASSUME NEW b \in BOOLEAN, SetPause(b)
          PROVE  BridgeInv'
        BY Zenon, <2>3, <1>4 DEF SetPause, BridgeInv, BridgeTypeOK
    <2>4. ASSUME NEW s \in SUBSET EthReceivers, SetBlacklist(s)
          PROVE  BridgeInv'
        BY Zenon, <2>4, <1>4 DEF SetBlacklist, BridgeInv, BridgeTypeOK
    <2> QED BY Zenon, <1>7, <2>1, <2>2, <2>3, <2>4 DEF AdminStep
<1>8. CASE OracleStep \/ UNCHANGED bridgeVars
    BY Zenon, <1>8, <1>4 DEF OracleStep, bridgeVars, adminVars, BridgeInv, BridgeTypeOK
<1> QED
    BY Zenon, <1>5, <1>6, <1>7, <1>8 DEF BridgeNext

\* The genesis state of the bank has a supply that covers its balances.
LEMMA BridgeStart == BridgeInit => BridgeInv
<1> SUFFICES ASSUME BridgeInit PROVE BridgeInv
    BY Zenon
<1>1. TypeOK
    BY Zenon, InitTypeOK DEF BridgeInit
<1>2. ASSUME NEW d \in Denoms PROVE HeldOf(balance, d) <= supply[d]
    <2>1. balance = GenesisBalance /\ supply = GenesisSupply
        BY Zenon DEF BridgeInit
    <2>2. HeldOf(GenesisBalance, d) \in Nat /\ GenesisSupply[d] \in Nat
        BY Zenon, GenesisAssumption, HeldNat
    <2>3. GenesisSupply[d] >= HeldOf(GenesisBalance, d)
        BY Zenon, GenesisAssumption DEF HeldOf
    <2> QED BY Zenon, <2>1, <2>2, <2>3
<1>3. balance \in [Accounts \X Denoms -> Nat] /\ supply \in [Denoms -> Int]
    BY GenesisAssumption DEF BridgeInit
<1> QED
    BY Zenon, <1>1, <1>2, <1>3, GenesisAssumption DEF BridgeInit, BridgeInv, BridgeTypeOK, SupplyCovers

\* The stores of x/oracle, x/ethbridge and x/bank are well formed, and no lock,
\* burn, transfer or rescue takes more from an account than it has.
THEOREM BridgeTypeCorrect == BridgeSpec => []BridgeTypeOK
    BY BridgeStart, BridgeStep, PTL DEF BridgeSpec, BridgeInv

-----------------------------------------------------------------------------
(* What is decided is paid, and the module account keeps fees only. *)

\* A prophecy succeeds only together with its payment: the claim that would
\* decide it otherwise is reverted, vote and all.
THEOREM SuccessPayable == BridgeSpec => []SuccessIsPayable
<1>1. BridgeInit => SuccessIsPayable
    BY DEF BridgeInit, Init, NewProphecy, Pending, SuccessIsPayable
<1>2. BridgeInv /\ SuccessIsPayable /\ [BridgeNext]_bridgeVars => SuccessIsPayable'
    <2> SUFFICES ASSUME BridgeInv, SuccessIsPayable, [BridgeNext]_bridgeVars
                 PROVE  SuccessIsPayable'
        BY Zenon
    <2>1. ASSUME NEW v \in Validators, NEW id \in Prophecies, NEW c \in Claims,
                 CreateEthBridgeClaim(v, id, c)
          PROVE  SuccessIsPayable'
        <3>1. /\ \A i \in Prophecies \ {id} : prophecy'[i] = prophecy[i]
              /\ prophecy'[id].status.text = "SUCCESS"
                     => ProcessSuccessfulClaim(prophecy'[id].status.finalClaim)
            BY Zenon, <2>1, ClaimEffect DEF BridgeInv, BridgeTypeOK
        <3>2. prophecy'[id].status.text = "SUCCESS" => Deliverable(prophecy'[id].status.finalClaim)
            BY Zenon, <3>1 DEF ProcessSuccessfulClaim
        <3>3. \A i \in Prophecies \ {id} :
                  prophecy'[i].status.text = "SUCCESS" => Deliverable(prophecy'[i].status.finalClaim)
            BY Zenon, <3>1 DEF SuccessIsPayable
        <3> QED BY Zenon, <3>2, <3>3 DEF SuccessIsPayable, Deliverable
    <2>2. CASE prophecy' = prophecy
        BY Zenon, <2>2 DEF SuccessIsPayable, Deliverable
    <2>3. BridgeNext => EthClaim \/ prophecy' = prophecy
        BY Zenon DEF BridgeNext, UserStep, Lock, Burn, BankSend, AdminStep, UpdateCethReceiverAccount,
               RescueCeth, SetPause, SetBlacklist, OracleStep, Staking, StakingEndBlock, ChangePower,
               AddOracleWhiteList, RemoveOracleWhiteList, oracleVars
    <2> QED BY Zenon, <2>1, <2>2, <2>3 DEF EthClaim, bridgeVars, oracleVars
<1> QED
    BY <1>1, <1>2, BridgeStart, BridgeStep, PTL DEF BridgeSpec

\* A transfer between others, or of ceth, leaves the module account's other
\* balances alone.
LEMMA MoveElsewhere ==
    ASSUME NEW b \in [Accounts \X Denoms -> Nat], NEW from, NEW to, NEW e, NEW n,
           NEW a \in Accounts, NEW d \in Denoms, d # e \/ (a # from /\ a # to)
    PROVE  Move(b, from, to, e, n)[<<a, d>>] = b[<<a, d>>]
BY DEF Move

\* Minted coins are passed on and taken coins are burned in the transaction that
\* mints or takes them: only ceth fees stay in the module account.
THEOREM ModuleFeesOnly == BridgeSpec => []ModuleHoldsOnlyFees
<1>1. BridgeInit => ModuleHoldsOnlyFees
    BY Zenon, GenesisAssumption DEF BridgeInit, ModuleHoldsOnlyFees
<1>2. BridgeInv /\ ModuleHoldsOnlyFees /\ [BridgeNext]_bridgeVars => ModuleHoldsOnlyFees'
    <2> SUFFICES ASSUME BridgeInv, [BridgeNext]_bridgeVars,
                        NEW d \in Denoms, d # Ceth, balance[<<Module, d>>] = 0
                 PROVE  balance'[<<Module, d>>] = 0
        BY Zenon DEF ModuleHoldsOnlyFees
    <2>t. /\ balance \in [Accounts \X Denoms -> Nat] /\ TypeOK
          /\ Module \in Accounts /\ Module \in Blocked /\ Ceth \in Denoms
          /\ FeeAccount \in Accounts /\ Fees \subseteq Nat
        BY Zenon, AccountAssumption DEF BridgeInv, BridgeTypeOK, FeeAccount
    <2>1. ASSUME NEW v \in Validators, NEW id \in Prophecies, NEW c \in Claims,
                 CreateEthBridgeClaim(v, id, c)
          PROVE  balance'[<<Module, d>>] = 0
        <3> DEFINE st == prophecy'[id].status
        <3>1. /\ st \in Statuses
              /\ IF st.text = "SUCCESS" THEN ProcessSuccessfulClaim(st.finalClaim)
                 ELSE UNCHANGED <<bankVars, peggyTokens>>
            BY Zenon, <2>1, <2>t, ClaimEffect
        <3> HIDE DEF st
        <3>2. CASE st.text = "SUCCESS"
            <4>1. ProcessSuccessfulClaim(st.finalClaim)
                BY Zenon, <3>1, <3>2
            <4>2. st.finalClaim.receiver # Module
                BY Zenon, <4>1, <2>t DEF ProcessSuccessfulClaim, Deliverable
            <4> QED BY Zenon, <4>1, <4>2, <2>t DEF ProcessSuccessfulClaim
        <3>3. CASE st.text # "SUCCESS"
            BY Zenon, <3>1, <3>3 DEF bankVars
        <3> QED BY Zenon, <3>2, <3>3
    <2>2. ASSUME NEW a \in Accounts, a # Module, NEW e \in Denoms, NEW n \in Nat, NEW fee \in Fees,
                 TakeAndBurn(a, e, n, fee)
          PROVE  balance'[<<Module, d>>] = 0
        <3> DEFINE b == PayFee(a, fee)
        <3>1. b[<<Module, d>>] = balance[<<Module, d>>]
            <4> DEFINE to == FeeAccount
            <4>1. b = Move(balance, a, to, Ceth, fee)
                BY Zenon DEF PayFee
            <4> HIDE DEF b, to
            <4> QED BY SMTT(30), <4>1, <2>t, MoveElsewhere
        <3>2. b = [x \in Accounts \X Denoms |-> b[x]]
            BY Zenon DEF PayFee, Move
        <3>3. balance' = [b EXCEPT ![<<a, e>>] = @ - n]
            BY Zenon, <2>2 DEF TakeAndBurn
        <3> HIDE DEF b
        <3> QED BY Zenon, <3>1, <3>2, <3>3, <2>2, <2>t
    <2>3. ASSUME NEW from \in Accounts, NEW to \in Accounts, NEW e \in Denoms, NEW n \in Nat,
                 e = Ceth \/ (from # Module /\ to # Module), balance' = Move(balance, from, to, e, n)
          PROVE  balance'[<<Module, d>>] = 0
        <3>1. d # e \/ (Module # from /\ Module # to)
            BY Zenon, <2>3
        <3>2. Move(balance, from, to, e, n)[<<Module, d>>] = balance[<<Module, d>>]
            BY SMTT(30), <3>1, <2>t, MoveElsewhere
        <3> QED BY Zenon, <2>3, <3>2
    <2>4. CASE EthClaim
        BY Zenon, <2>1, <2>4 DEF EthClaim
    <2>5. CASE UserStep
        <3>1. PICK a \in Accounts \ Blocked, e \in Denoms : \E n \in 1 .. balance[<<a, e>>] :
                  \/ \E to \in EthReceivers, fee \in Fees : Lock(a, to, e, n, fee) \/ Burn(a, to, e, n, fee)
                  \/ \E b \in Accounts : BankSend(a, b, e, n)
            BY Zenon, <2>5 DEF UserStep
        <3>2. PICK n \in 1 .. balance[<<a, e>>] :
                  \/ \E to \in EthReceivers, fee \in Fees : Lock(a, to, e, n, fee) \/ Burn(a, to, e, n, fee)
                  \/ \E b \in Accounts : BankSend(a, b, e, n)
            BY Zenon, <3>1
        <3>3. n \in Nat /\ a \in Accounts /\ a # Module
            BY SMTT(30), <2>t
        <3>4. ASSUME NEW to \in EthReceivers, NEW fee \in Fees, Lock(a, to, e, n, fee) \/ Burn(a, to, e, n, fee)
              PROVE  balance'[<<Module, d>>] = 0
            BY Zenon, <3>3, <3>4, <2>2 DEF Lock, Burn
        <3>5. ASSUME NEW b \in Accounts, BankSend(a, b, e, n)
              PROVE  balance'[<<Module, d>>] = 0
            BY Zenon, <3>3, <3>5, <2>3, <2>t DEF BankSend
        <3> QED BY Zenon, <3>2, <3>4, <3>5
    <2>6. ASSUME NEW a \in Accounts, NEW n \in 1 .. balance[<<Module, Ceth>>], RescueCeth(a, n)
          PROVE  balance'[<<Module, d>>] = 0
        BY SMTT(30), <2>6, <2>3, <2>t DEF RescueCeth
    <2>7. CASE balance' = balance
        BY Zenon, <2>7
    <2>8. \/ EthClaim \/ UserStep \/ balance' = balance
          \/ \E a \in Accounts : \E n \in 1 .. balance[<<Module, Ceth>>] : RescueCeth(a, n)
        BY Zenon DEF BridgeNext, AdminStep, UpdateCethReceiverAccount, SetPause, SetBlacklist, OracleStep,
               bankVars, bridgeVars
    <2> QED BY Zenon, <2>4, <2>5, <2>6, <2>7, <2>8
<1> QED
    BY <1>1, <1>2, BridgeStart, BridgeStep, PTL DEF BridgeSpec

-----------------------------------------------------------------------------
(***************************************************************************)
(* The bridge implements BridgeLedger, step by step: the claim that        *)
(* decides a prophecy is a Pay, a lock or a burn is a Release, and every   *)
(* other step leaves the ledger alone.                                     *)
(***************************************************************************)
Paid == [id \in Prophecies |-> prophecy[id].status.finalClaim]

\* At genesis nothing is paid or released.
LEMMA LedgerInit == BridgeInit => Ledger!Init
BY DEF BridgeInit, Init, NewProphecy, Pending, Ledger!Init

\* CreateEthBridgeClaim pays the prophecy that it decides, which was unpaid, or
\* changes nothing that the ledger sees.
LEMMA ClaimPays ==
    ASSUME BridgeInv, NEW v \in Validators, NEW id \in Prophecies, NEW c \in Claims,
           CreateEthBridgeClaim(v, id, c)
    PROVE  [Ledger!Next]_(Ledger!ledgerVars)
<1> DEFINE st == prophecy'[id].status
<1>1. /\ st \in Statuses
      /\ prophecy[id].status.finalClaim = NoClaim
      /\ \A i \in Prophecies \ {id} : prophecy'[i] = prophecy[i]
      /\ IF st.text = "SUCCESS" THEN ProcessSuccessfulClaim(st.finalClaim)
         ELSE UNCHANGED <<bankVars, peggyTokens>>
      /\ released' = released
    BY Zenon, ClaimEffect DEF BridgeInv, BridgeTypeOK
<1>2. Paid' = [Paid EXCEPT ![id] = st.finalClaim]
    BY Zenon, <1>1 DEF Paid
<1>3. Paid[id] = NoClaim
    BY Zenon, <1>1 DEF Paid
<1> HIDE DEF st
<1>4. CASE st.text = "SUCCESS"
    <2>1. st.finalClaim \in Claims /\ ProcessSuccessfulClaim(st.finalClaim)
        BY Zenon, <1>1, <1>4, StatusCases
    <2>2. supply' = [supply EXCEPT ![ClaimDenom(st.finalClaim)] = @ + ClaimAmount(st.finalClaim)]
        BY Zenon, <2>1 DEF ProcessSuccessfulClaim, ClaimAmount
    <2>3. PICK p \in Claims : p = st.finalClaim
        BY Zenon, <2>1
    <2>4. Ledger!Pay(id, p)
        BY Zenon, <1>1, <1>2, <1>3, <2>2, <2>3 DEF Ledger!Pay, Paid
    <2> QED BY Zenon, <2>4 DEF Ledger!Next
<1>5. CASE st.text # "SUCCESS"
    <2>1. st.finalClaim = NoClaim
        BY Zenon, <1>1, <1>5, StatusCases
    <2>2. Paid' = Paid
        BY Zenon, <1>2, <1>3, <2>1 DEF Paid
    <2> QED BY Zenon, <1>1, <1>5, <2>2 DEF Ledger!ledgerVars, bankVars, Paid
<1> QED BY Zenon, <1>4, <1>5

\* Lock and Burn release what they burn, and there is that much to burn.
LEMMA TakeReleases ==
    ASSUME BridgeInv, NEW a \in Accounts, NEW d \in Denoms, NEW n \in Nat \ {0}, NEW fee \in Fees,
           TakeAndBurn(a, d, n, fee), prophecy' = prophecy
    PROVE  Ledger!Next
<1>1. n <= supply[d] /\ supply[d] \in Int
    BY Zenon, BurnCovered DEF BridgeInv, BridgeTypeOK, BankOK
<1>2. n \in 1 .. supply[d]
    BY SMTT(30), <1>1
<1>3. Ledger!Release(d, n)
    BY Zenon, <1>1 DEF TakeAndBurn, Ledger!Release
<1> QED BY Zenon, <1>2, <1>3 DEF Ledger!Next

\* Every step of the bridge is a step of the ledger, or leaves it alone.
LEMMA LedgerStep ==
    ASSUME BridgeInv, [BridgeNext]_bridgeVars
    PROVE  [Ledger!Next]_(Ledger!ledgerVars)
<1>1. CASE EthClaim
    BY Zenon, <1>1, ClaimPays DEF EthClaim
<1>2. CASE UserStep
    <2>1. PICK a \in Accounts \ Blocked, d \in Denoms : \E n \in 1 .. balance[<<a, d>>] :
              \/ \E to \in EthReceivers, fee \in Fees : Lock(a, to, d, n, fee) \/ Burn(a, to, d, n, fee)
              \/ \E b \in Accounts : BankSend(a, b, d, n)
        BY Zenon, <1>2 DEF UserStep
    <2>2. PICK n \in 1 .. balance[<<a, d>>] :
              \/ \E to \in EthReceivers, fee \in Fees : Lock(a, to, d, n, fee) \/ Burn(a, to, d, n, fee)
              \/ \E b \in Accounts : BankSend(a, b, d, n)
        BY Zenon, <2>1
    <2>3. n \in Nat \ {0} /\ a \in Accounts
        BY SMTT(30) DEF BridgeInv, BridgeTypeOK
    <2>4. ASSUME NEW to \in EthReceivers, NEW fee \in Fees, Lock(a, to, d, n, fee) \/ Burn(a, to, d, n, fee)
          PROVE  Ledger!Next
        BY Zenon, <2>3, <2>4, TakeReleases DEF Lock, Burn, oracleVars
    <2>5. ASSUME NEW b \in Accounts, BankSend(a, b, d, n)
          PROVE  UNCHANGED Ledger!ledgerVars
        BY Zenon, <2>5 DEF BankSend, oracleVars, Ledger!ledgerVars
    <2> QED BY Zenon, <2>2, <2>4, <2>5
<1>3. CASE UNCHANGED <<prophecy, supply, released>>
    BY Zenon, <1>3 DEF Ledger!ledgerVars
<1>4. EthClaim \/ UserStep \/ UNCHANGED <<prophecy, supply, released>>
    BY Zenon DEF BridgeNext, AdminStep, UpdateCethReceiverAccount, RescueCeth, SetPause, SetBlacklist,
           OracleStep, Staking, StakingEndBlock, ChangePower, AddOracleWhiteList,
           RemoveOracleWhiteList, bankVars, bridgeVars, oracleVars
<1> QED BY Zenon, <1>1, <1>2, <1>3, <1>4

\* Each prophecy is paid at most once, with the content the validators agreed
\* on, in the step that decides it; nothing else mints, and coins are burned
\* only against an emitted event and never beyond the supply.
THEOREM BridgeImplementsLedger == BridgeSpec => ImplementsLedger
    BY LedgerInit, LedgerStep, BridgeStart, BridgeStep, PTL DEF BridgeSpec, ImplementsLedger, Ledger!Spec

=============================================================================
