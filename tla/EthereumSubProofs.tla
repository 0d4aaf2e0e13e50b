------------------------- MODULE EthereumSubProofs -------------------------
(***************************************************************************)
(* Ethereum to Furynet: what every step of the goroutine EthereumSub, of   *)
(* Ethereum and of x/ethbridge preserves, for any number of validators and *)
(* logs and any trailing distance.                                         *)
(*                                                                         *)
(* SubInv: every claim in a batch, in the pool or in a prophecy is that of *)
(* an event of a block that Ethereum can no longer replace, and what lies  *)
(* behind a cursor, in LevelDB or in memory, is claimed, on its way, or    *)
(* was in a transaction that failed.  The last part counts what the claims *)
(* pay.                                                                    *)
(***************************************************************************)
EXTENDS EthereumSub, SumLemmas, TLAPS

\* The time that a leaf may take.
USE SMTT(30)

-----------------------------------------------------------------------------
(***************************************************************************)
(* The chain of Ethereum.                                                  *)
(***************************************************************************)

\* The events of the blocks that Ethereum can no longer replace, and the claims
\* they give.
FixedEvents == {e \in LogEvents : \E n \in 1 .. highest - Trailing : e \in ethChain[n]}
FixedClaims == ClaimsOf(FixedEvents)

Apart(logs) == \A e, f \in logs : e.id = f.id => e = f

ChainOK ==
    /\ ethChain \in Seq(SUBSET LogEvents)
    /\ highest \in Nat
    /\ Len(ethChain) <= highest /\ highest - Trailing <= Len(ethChain)
    /\ Apart(LogsOf(ethChain))

HeadsOK ==
    /\ heads \in [Validators -> Seq(Int)]
    /\ \A v \in Validators : \A i \in DOMAIN heads[v] : heads[v][i] <= highest

\* What the step keeps of the chain.
Keeps ==
    /\ highest' \in Nat /\ highest <= highest'
    /\ \A n \in 1 .. highest - Trailing : n \in DOMAIN ethChain' /\ ethChain'[n] = ethChain[n]

\* The logs of a chain with one more block.
LEMMA LogsAppended ==
    ASSUME NEW chain \in Seq(SUBSET LogEvents), NEW logs \in SUBSET LogEvents
    PROVE  /\ LogsOf(Append(chain, logs)) = LogsOf(chain) \cup logs
           /\ LogsOf(chain) \subseteq LogEvents
<1> DEFINE S == SUBSET LogEvents
<1>1. chain \in Seq(S) /\ logs \in S
    BY Zenon
<1> HIDE DEF S
<1>2. /\ DOMAIN chain = 1 .. Len(chain) /\ Len(chain) \in Nat
      /\ DOMAIN Append(chain, logs) = 1 .. Len(chain) + 1
      /\ \A n \in 1 .. Len(chain) : Append(chain, logs)[n] = chain[n] /\ chain[n] \in S
      /\ Append(chain, logs)[Len(chain) + 1] = logs
    BY <1>1
<1>3. LogsOf(chain) \subseteq LogEvents
    BY Zenon, <1>2 DEF LogsOf, S
<1>4. ASSUME NEW e \in LogsOf(Append(chain, logs))
      PROVE  e \in LogsOf(chain) \cup logs
    BY <1>2, <1>4 DEF LogsOf
<1>5. ASSUME NEW e \in LogsOf(chain)
      PROVE  e \in LogsOf(Append(chain, logs))
    BY <1>2, <1>5 DEF LogsOf
<1>6. logs \subseteq LogsOf(Append(chain, logs))
    BY <1>2 DEF LogsOf
<1> QED BY Zenon, <1>3, <1>4, <1>5, <1>6

\* Logs that BridgeBank numbers one by one have a number each.
LEMMA NumberedApart ==
    ASSUME NEW chain \in Seq(SUBSET LogEvents), NEW logs \in SUBSET LogEvents, Fits(chain, logs)
    PROVE  Apart(LogsOf(chain) \cup logs)
<1> DEFINE all == LogsOf(chain) \cup logs
           id == [e \in all |-> e.id]
<1>1. IsFiniteSet(all)
    BY Zenon, LogsAppended, LogAssumption, FS_Subset
<1>2. {e.id : e \in all} = 1 .. Cardinality(all) /\ Cardinality(all) \in Nat
    BY Zenon, <1>1, FS_CardinalityType DEF Fits
<1> HIDE DEF all
<1>3. Cardinality(1 .. Cardinality(all)) = Cardinality(all)
    BY <1>2, FS_Interval
<1>4. id \in Surjection(all, 1 .. Cardinality(all))
    BY Zenon, <1>2 DEF Surjection
<1>5. id \in Injection(all, 1 .. Cardinality(all))
    BY Zenon, <1>1, <1>3, <1>4, FS_SurjSameCardinalityImpliesInj
<1>6. \A e, f \in all : id[e] = id[f] => e = f
    BY Zenon, <1>5 DEF Injection, IsInjective
<1>7. \A e, f \in all : e.id = f.id => e = f
    BY Zenon, <1>6
<1> QED BY Zenon, <1>7 DEF Apart, all

\* A sequence with one more element.
LEMMA Appending ==
    ASSUME NEW S, NEW s \in Seq(S), NEW x \in S
    PROVE  /\ Append(s, x) \in Seq(S)
           /\ Len(Append(s, x)) = Len(s) + 1
           /\ DOMAIN Append(s, x) = 1 .. Len(s) + 1
           /\ \A n \in 1 .. Len(s) : Append(s, x)[n] = s[n]
           /\ Len(s) \in Nat
OBVIOUS

\* A block is mined: the chain stays numbered, and what was fixed stays.
LEMMA MineKeeps ==
    ASSUME ChainOK, NEW logs \in SUBSET LogEvents, MineBlock(logs)
    PROVE  ChainOK' /\ Keeps
<1> DEFINE S == SUBSET LogEvents
<1>1. /\ ethChain \in Seq(S) /\ logs \in S /\ highest \in Nat /\ Trailing \in Nat
      /\ Len(ethChain) <= highest /\ highest - Trailing <= Len(ethChain)
    BY Zenon, SetupAssumption DEF ChainOK
<1>2. /\ ethChain' = Append(ethChain, logs)
      /\ highest' = IF Len(ethChain) + 1 > highest THEN Len(ethChain) + 1 ELSE highest
    BY Zenon DEF MineBlock, Height
<1>3. Apart(LogsOf(ethChain'))
    <2>1. Fits(ethChain, logs)
        BY Zenon DEF MineBlock
    <2> QED BY Zenon, <1>1, <1>2, <2>1, LogsAppended, NumberedApart
<1> HIDE DEF S
<1>4. /\ Append(ethChain, logs) \in Seq(S)
      /\ Len(Append(ethChain, logs)) = Len(ethChain) + 1
      /\ DOMAIN Append(ethChain, logs) = 1 .. Len(ethChain) + 1
      /\ \A n \in 1 .. Len(ethChain) : Append(ethChain, logs)[n] = ethChain[n]
      /\ Len(ethChain) \in Nat
    BY Zenon, <1>1, Appending
<1>5. /\ highest' \in Nat /\ highest <= highest'
      /\ Len(ethChain') <= highest' /\ highest' - Trailing <= Len(ethChain')
    BY <1>1, <1>2, <1>4
<1>6. \A n \in 1 .. highest - Trailing : n \in DOMAIN ethChain' /\ ethChain'[n] = ethChain[n]
    BY <1>1, <1>2, <1>4
<1> QED BY Zenon, <1>2, <1>3, <1>4, <1>5, <1>6 DEF ChainOK, Keeps, S

\* A reorganisation replaces blocks that fewer than Trailing others followed.
LEMMA ReorgKeeps ==
    ASSUME ChainOK, NEW logs \in SUBSET LogEvents, NEW k \in 1 .. Trailing, Reorg(k, logs)
    PROVE  ChainOK' /\ Keeps
<1> DEFINE S == SUBSET LogEvents
           kept == SubSeq(ethChain, 1, Len(ethChain) - k)
<1>1. /\ ethChain \in Seq(S) /\ logs \in S /\ highest \in Nat /\ Trailing \in Nat
      /\ Len(ethChain) <= highest /\ highest - Trailing <= Len(ethChain)
      /\ k \in Nat \ {0}
    BY SetupAssumption DEF ChainOK
<1>2. /\ ethChain' = Append(kept, logs) /\ highest' = highest
      /\ k <= Len(ethChain) /\ Len(ethChain) - k >= highest - Trailing
      /\ Fits(kept, logs)
    BY Zenon DEF Reorg, Height
<1> HIDE DEF S
<1>3. /\ \A n \in 1 .. Len(ethChain) - k : ethChain[n] \in S
      /\ Len(ethChain) \in Nat /\ Len(ethChain) - k \in Nat
    BY <1>1, <1>2
<1>4. /\ kept \in Seq(S) /\ Len(kept) = Len(ethChain) - k
      /\ \A n \in 1 .. Len(ethChain) - k : kept[n] = ethChain[n]
    BY <1>1, <1>3
<1> HIDE DEF kept
<1>5. Apart(LogsOf(ethChain'))
    BY Zenon, <1>1, <1>2, <1>4, LogsAppended, NumberedApart DEF S
<1>6. /\ Append(kept, logs) \in Seq(S)
      /\ Len(Append(kept, logs)) = Len(kept) + 1
      /\ DOMAIN Append(kept, logs) = 1 .. Len(kept) + 1
      /\ \A n \in 1 .. Len(kept) : Append(kept, logs)[n] = kept[n]
    <2>1. kept \in Seq(S) /\ logs \in S
        BY Zenon, <1>1, <1>4
    <2> QED BY ONLY Zenon, <2>1, Appending
<1>7. Len(ethChain') <= highest' /\ highest' - Trailing <= Len(ethChain')
    BY <1>1, <1>2, <1>3, <1>4, <1>6
<1>8. \A n \in 1 .. highest - Trailing : n \in DOMAIN ethChain' /\ ethChain'[n] = ethChain[n]
    BY <1>1, <1>2, <1>3, <1>4, <1>6
<1> QED BY <1>1, <1>2, <1>5, <1>6, <1>7, <1>8 DEF ChainOK, Keeps, S

\* More logs give more claims.
LEMMA ClaimsGrow == ASSUME NEW S, NEW T, S \subseteq T PROVE ClaimsOf(S) \subseteq ClaimsOf(T)
BY Zenon DEF ClaimsOf

\* What is fixed stays fixed, and reads the same.
LEMMA FixedStays ==
    ASSUME ChainOK, ChainOK', Keeps
    PROVE  /\ FixedEvents \subseteq FixedEvents' /\ FixedClaims \subseteq FixedClaims'
           /\ \A a \in Int, b \in Int : b <= highest - Trailing => FilterLogs(a, b)' = FilterLogs(a, b)
<1>1. /\ highest \in Nat /\ highest' \in Nat /\ highest <= highest' /\ Trailing \in Nat
      /\ highest - Trailing <= Len(ethChain) /\ DOMAIN ethChain = 1 .. Len(ethChain)
      /\ Len(ethChain) \in Nat
    BY SetupAssumption DEF ChainOK, Keeps
<1>2. FixedEvents \subseteq FixedEvents'
    <2> SUFFICES ASSUME NEW e \in FixedEvents PROVE e \in FixedEvents'
        BY Zenon
    <2>1. PICK n \in 1 .. highest - Trailing : e \in ethChain[n]
        BY Zenon DEF FixedEvents
    <2>2. ethChain'[n] = ethChain[n]
        BY Zenon, <2>1 DEF Keeps
    <2>3. n \in 1 .. highest' - Trailing
        <3>1. PICK h \in Nat : h = highest'
            BY Zenon, <1>1
        <3>2. n \in Int /\ 1 <= n /\ n <= highest - Trailing /\ highest <= h
            BY <1>1, <3>1
        <3>3. n \in 1 .. h - Trailing
            BY <1>1, <3>2
        <3> QED BY Zenon, <3>1, <3>3
    <2>4. e \in LogEvents
        BY Zenon DEF FixedEvents
    <2> QED BY Zenon, <2>1, <2>2, <2>3, <2>4 DEF FixedEvents
<1>3. FixedClaims \subseteq FixedClaims'
    <2>1. PICK T : T = FixedEvents'
        BY Zenon
    <2>2. FixedClaims' = ClaimsOf(T)
        BY Zenon, <2>1 DEF FixedClaims, ClaimsOf, Parses, EthereumEventToEthBridgeClaim, EthereumToFurynet
    <2> QED BY Zenon, <1>2, <2>1, <2>2, ClaimsGrow DEF FixedClaims
<1>4. ASSUME NEW a \in Int, NEW b \in Int, b <= highest - Trailing
      PROVE  FilterLogs(a, b)' = FilterLogs(a, b)
    <2>1. \A n \in 1 .. highest - Trailing :
              n \in DOMAIN ethChain' /\ ethChain'[n] = ethChain[n] /\ n \in DOMAIN ethChain
        BY <1>1 DEF Keeps
    <2>2. DOMAIN ethChain' \subseteq Nat \ {0} /\ DOMAIN ethChain \subseteq Nat \ {0}
        BY <1>1 DEF ChainOK
    <2>3. \A n \in a .. b : n \in DOMAIN ethChain <=> n \in DOMAIN ethChain'
        BY <1>1, <1>4, <2>1, <2>2
    <2>4. \A n \in (a .. b) \cap DOMAIN ethChain : ethChain'[n] = ethChain[n]
        BY <1>1, <1>4, <2>1, <2>2
    <2> QED BY Zenon, <2>3, <2>4 DEF FilterLogs
<1> QED BY Zenon, <1>2, <1>3, <1>4

\* The claims that may be sent are claims of EthBridge.
LEMMA FixedClaimIs ==
    ASSUME NEW c \in FixedClaims
    PROVE  /\ c.id \in Prophecies /\ c.content \in Claims
           /\ c = [id |-> c.id, content |-> c.content]
           /\ \E e \in FixedEvents : Parses(e) /\ c = EthereumEventToEthBridgeClaim(e)
<1>1. PICK e \in FixedEvents : Parses(e) /\ c = EthereumEventToEthBridgeClaim(e)
    BY Zenon DEF FixedClaims, ClaimsOf
<1>2. e \in LogEvents
    BY Zenon DEF FixedEvents
<1>3. c.id = e.id /\ c = [id |-> c.id, content |-> c.content]
    BY Zenon, <1>1 DEF EthereumEventToEthBridgeClaim
<1> QED BY Zenon, <1>1, <1>2, <1>3, LogAssumption

\* A nonce never means two events: final claims with one id are one claim.
LEMMA OneClaimEach ==
    ASSUME ChainOK, NEW c \in FixedClaims, NEW d \in FixedClaims, c.id = d.id
    PROVE  c = d
<1>1. PICK e \in FixedEvents : c = EthereumEventToEthBridgeClaim(e)
    BY Zenon, FixedClaimIs
<1>2. PICK f \in FixedEvents : d = EthereumEventToEthBridgeClaim(f)
    BY Zenon, FixedClaimIs
<1>3. FixedEvents \subseteq LogsOf(ethChain)
    BY SetupAssumption DEF FixedEvents, LogsOf, ChainOK
<1>4. e.id = f.id
    BY Zenon, <1>1, <1>2 DEF EthereumEventToEthBridgeClaim
<1>5. e = f
    BY Zenon, <1>3, <1>4 DEF ChainOK, Apart
<1> QED BY Zenon, <1>1, <1>2, <1>5

-----------------------------------------------------------------------------
(***************************************************************************)
(* The votes on Furynet.                                                   *)
(***************************************************************************)

PropheciesOK ==
    /\ prophecy \in [Prophecies -> ProphecyType]
    /\ setup \in Setups /\ whitelist = setup.relayers /\ bonded = Validators

Finalized(id, c) == [id |-> id, content |-> c] \in FixedClaims

VotesFixed(q, id) ==
    \A c \in Claims :
        (\/ q.claimValidators[c] # <<>>
         \/ q.status = Success(c)
         \/ \E v \in Validators : q.validatorClaims[v] = c) => Finalized(id, c)

\* What has a vote or was decided, and what is on its way, is final on Ethereum.
VotesOK ==
    /\ \A tx \in txPool : tx.from \in whitelist /\ tx.claims \subseteq FixedClaims
    /\ \A id \in Prophecies : VotesFixed(prophecy[id], id)

\* A prophecy is decided for a claim that has a vote.
OnlyVoted(p, q) ==
    \A d \in Claims : q.status = Success(d) => q.claimValidators[d] # <<>> \/ p.status = q.status

Outcome(p, v, c, s) == [AddClaim(p, v, c) EXCEPT !.status = s]

\* What a message that succeeds does to its prophecy.
LEMMA OutcomeIs ==
    ASSUME NEW p \in ProphecyType, NEW v \in Validators, NEW c \in Claims,
           NEW s \in processCompletion(AddClaim(p, v, c)),
           NEW q, q = Outcome(p, v, c, s)
    PROVE  /\ q \in ProphecyType
           /\ q.validatorClaims = [p.validatorClaims EXCEPT ![v] = c]
           /\ q.claimValidators = [p.claimValidators EXCEPT ![c] = Append(@, v)]
           /\ q.status = s
           /\ OnlyVoted(p, q)
<1> DEFINE a == AddClaim(p, v, c)
<1>1. /\ p.status \in Statuses
      /\ p.claimValidators \in [Claims -> Seq(Validators)]
      /\ p.validatorClaims \in [Validators -> Claims \cup {NoClaim}]
    BY Zenon DEF ProphecyType
<1>2. /\ a.status = p.status
      /\ a.claimValidators = [p.claimValidators EXCEPT ![c] = Append(@, v)]
      /\ a.validatorClaims = [p.validatorClaims EXCEPT ![v] = c]
      /\ q = [status |-> s, claimValidators |-> a.claimValidators, validatorClaims |-> a.validatorClaims]
    BY Zenon DEF AddClaim, Outcome
<1>3. PICK h \in FindHighestClaim(a) :
          s = IF RatioReached(h.power, h.total) THEN Success(h.claim)
              ELSE IF RatioMissed(h.power + (h.total - h.claimed), h.total) THEN Failed
              ELSE a.status
    BY Zenon DEF processCompletion
<1>4. h.claim \in Claims /\ a.claimValidators[h.claim] # <<>>
    BY DEF FindHighestClaim, HighestClaims, ClaimsOn
<1>5. s \in Statuses
    BY Zenon, <1>1, <1>2, <1>3, <1>4 DEF Statuses
<1>6. a.claimValidators \in [Claims -> Seq(Validators)]
    BY <1>1, <1>2
<1>7. a.validatorClaims \in [Validators -> Claims \cup {NoClaim}]
    BY Zenon, <1>1, <1>2
<1>8. q \in ProphecyType
    BY <1>2, <1>5, <1>6, <1>7 DEF ProphecyType
<1>9. ASSUME NEW d \in Claims, s = Success(d), p.status # s
      PROVE  a.claimValidators[d] # <<>>
    <2>1. s = Success(h.claim)
        BY <1>2, <1>3, <1>9 DEF Success, Failed
    <2> QED BY <1>4, <1>9, <2>1 DEF Success
<1>10. q.status = s /\ q.claimValidators = a.claimValidators /\ q.validatorClaims = a.validatorClaims
    BY <1>2
<1>11. OnlyVoted(p, q)
    BY Zenon, <1>9, <1>10 DEF OnlyVoted
<1> QED BY Zenon, <1>2, <1>8, <1>10, <1>11

\* What a transaction whose messages all succeed does to the prophecies: no two
\* of its claims have one id.
LEMMA Accepted ==
    ASSUME ChainOK, PropheciesOK, NEW v \in Validators, NEW claims \in SUBSET FixedClaims,
           NEW status, CreateEthBridgeClaims(v, claims, status)
    PROVE  /\ \A id \in Prophecies : (\A c \in claims : c.id # id) => prophecy'[id] = prophecy[id]
           /\ \A c \in claims :
                  /\ MayClaim(v, c.id)
                  /\ status[c] \in processCompletion(Voted(v, c))
                  /\ prophecy'[c.id] = [Voted(v, c) EXCEPT !.status = status[c]]
           /\ prophecy' \in [Prophecies -> ProphecyType]
<1> DEFINE new(id) == IF \E c \in claims : c.id = id
                      THEN LET c == CHOOSE c \in claims : c.id = id
                           IN  [Voted(v, c) EXCEPT !.status = status[c]]
                      ELSE prophecy[id]
<1>1. prophecy' = [id \in Prophecies |-> new(id)]
    BY Zenon DEF CreateEthBridgeClaims
<1>2. \A c \in claims : MayClaim(v, c.id) /\ status[c] \in processCompletion(Voted(v, c))
    BY Zenon DEF CreateEthBridgeClaims, Outcomes
<1>3. ASSUME NEW c \in claims
      PROVE  new(c.id) = [Voted(v, c) EXCEPT !.status = status[c]]
    <2>1. PICK d : d = CHOOSE x \in claims : x.id = c.id
        BY Zenon
    <2>2. d \in claims /\ d.id = c.id
        BY Zenon, <2>1
    <2>3. d = c
        BY Zenon, <2>2, OneClaimEach
    <2>4. new(c.id) = [Voted(v, d) EXCEPT !.status = status[d]]
        BY Zenon, <2>1
    <2> QED BY Zenon, <2>3, <2>4
<1>4. \A id \in Prophecies : (\A c \in claims : c.id # id) => new(id) = prophecy[id]
    BY Zenon
<1>5. ASSUME NEW id \in Prophecies
      PROVE  new(id) \in ProphecyType
    <2>1. CASE \A c \in claims : c.id # id
        BY Zenon, <1>4, <2>1 DEF PropheciesOK
    <2>2. CASE \E c \in claims : c.id = id
        <3>1. PICK c \in claims : c.id = id
            BY Zenon, <2>2
        <3>2. PICK p \in ProphecyType : p = prophecy[id]
            BY Zenon DEF PropheciesOK
        <3>3. PICK x \in Claims : x = c.content
            BY Zenon, FixedClaimIs
        <3>4. PICK s \in processCompletion(AddClaim(p, v, x)) : s = status[c]
            BY Zenon, <1>2, <3>1, <3>2, <3>3 DEF Voted
        <3>5. new(c.id) = [AddClaim(p, v, x) EXCEPT !.status = s]
            BY Zenon, <1>3, <3>1, <3>2, <3>3, <3>4 DEF Voted
        <3>6. Outcome(p, v, x, s) \in ProphecyType
            BY Zenon, OutcomeIs
        <3> HIDE DEF new
        <3> QED BY Zenon, <3>1, <3>5, <3>6 DEF Outcome
    <2> QED BY Zenon, <2>1, <2>2
<1> HIDE DEF new
<1>6. \A c \in claims : c.id \in Prophecies
    BY Zenon, FixedClaimIs
<1> QED BY Zenon, <1>1, <1>2, <1>3, <1>4, <1>5, <1>6

KeepsVotes(p, q) ==
    \A w \in Validators, d \in Claims : p.validatorClaims[w] = d => q.validatorClaims[w] = d

\* A vote for a final claim leaves the prophecy with final claims only.
LEMMA VoteIsFixed ==
    ASSUME PropheciesOK, NEW v \in Validators, NEW c \in FixedClaims,
           MayClaim(v, c.id), VotesFixed(prophecy[c.id], c.id),
           NEW s \in processCompletion(Voted(v, c)),
           NEW q, q = [Voted(v, c) EXCEPT !.status = s]
    PROVE  /\ VotesFixed(q, c.id)
           /\ q.validatorClaims[v] = c.content
           /\ KeepsVotes(prophecy[c.id], q)
           /\ prophecy[c.id].status.text = "PENDING"
<1>0. PICK p \in ProphecyType : p = prophecy[c.id]
    BY Zenon, FixedClaimIs DEF PropheciesOK
<1>1. c.content \in Claims /\ Finalized(c.id, c.content)
    BY Zenon, FixedClaimIs DEF PropheciesOK, Finalized
<1>2. /\ q.validatorClaims = [p.validatorClaims EXCEPT ![v] = c.content]
      /\ q.claimValidators = [p.claimValidators EXCEPT ![c.content] = Append(@, v)]
      /\ q.status = s
      /\ OnlyVoted(p, q)
    <2>1. PICK x \in Claims : x = c.content
        BY Zenon, <1>1
    <2>2. s \in processCompletion(AddClaim(p, v, x)) /\ q = Outcome(p, v, x, s)
        BY Zenon, <1>0, <2>1 DEF Voted, Outcome
    <2>3. /\ q.validatorClaims = [p.validatorClaims EXCEPT ![v] = x]
          /\ q.claimValidators = [p.claimValidators EXCEPT ![x] = Append(@, v)]
          /\ q.status = s
          /\ OnlyVoted(p, q)
        BY ONLY <2>2, OutcomeIs, p \in ProphecyType, x \in Claims, v \in Validators
    <2> QED BY Zenon, <2>1, <2>3
<1>3. /\ p.validatorClaims \in [Validators -> Claims \cup {NoClaim}]
      /\ p.claimValidators \in [Claims -> Seq(Validators)]
    BY Zenon DEF ProphecyType
<1>4. p.status.text = "PENDING" /\ p.validatorClaims[v] = NoClaim
    BY Zenon, <1>0 DEF MayClaim
<1>5. ASSUME NEW d \in Claims, q.claimValidators[d] # <<>>
      PROVE  Finalized(c.id, d)
    <2>1. CASE d = c.content
        BY Zenon, <1>1, <2>1
    <2>2. CASE d # c.content
        BY Zenon, <1>0, <1>2, <1>3, <1>5, <2>2 DEF VotesFixed
    <2> QED BY Zenon, <2>1, <2>2
<1>6. ASSUME NEW d \in Claims, q.status = Success(d)
      PROVE  Finalized(c.id, d)
    BY <1>2, <1>4, <1>5, <1>6 DEF Success, OnlyVoted
<1>7. ASSUME NEW d \in Claims, NEW w \in Validators, q.validatorClaims[w] = d
      PROVE  Finalized(c.id, d)
    <2>1. CASE w = v
        BY <1>1, <1>2, <1>3, <1>7, <2>1
    <2>2. CASE w # v
        BY <1>0, <1>2, <1>3, <1>7, <2>2 DEF VotesFixed
    <2> QED BY Zenon, <2>1, <2>2
<1>8. \A w \in Validators, d \in Claims : p.validatorClaims[w] = d => q.validatorClaims[w] = d
    BY Zenon, <1>2, <1>3, <1>4, ClaimsAssumption
<1>9. q.validatorClaims[v] = c.content
    BY <1>2, <1>3
<1> QED BY Zenon, <1>0, <1>4, <1>5, <1>6, <1>7, <1>8, <1>9 DEF VotesFixed, KeepsVotes

\* What a relayer need not send any more.
Handled(v, c) == Voiced(v, c) \/ c \in dropped[v]

\* A claim that a relayer may not make was made, or is decided.
LEMMA MadeOrDecided ==
    ASSUME ChainOK, PropheciesOK, VotesOK, NEW v \in whitelist, NEW c \in FixedClaims, ~MayClaim(v, c.id)
    PROVE  \/ prophecy[c.id].status.text # "PENDING"
           \/ prophecy[c.id].validatorClaims[v] = c.content
<1>1. v \in Validators /\ v \in bonded /\ c.id \in Prophecies
    BY Zenon, FixedClaimIs, SetupAssumption DEF PropheciesOK
<1>2. SUFFICES ASSUME prophecy[c.id].validatorClaims[v] # NoClaim
               PROVE  prophecy[c.id].validatorClaims[v] = c.content
    BY Zenon, <1>1 DEF MayClaim
<1>3. prophecy[c.id] \in ProphecyType
    BY Zenon, <1>1 DEF PropheciesOK
<1>4. PICK d \in Claims : prophecy[c.id].validatorClaims[v] = d
    BY Zenon, <1>1, <1>2, <1>3 DEF ProphecyType
<1>5. [id |-> c.id, content |-> d] \in FixedClaims
    BY Zenon, <1>1, <1>4 DEF VotesOK, VotesFixed, Finalized
<1>6. PICK e \in FixedClaims : e = [id |-> c.id, content |-> d]
    BY Zenon, <1>5
<1>7. e = c
    BY Zenon, <1>6, OneClaimEach
<1> QED BY <1>4, <1>6, <1>7

\* What has been handled stays so when votes and decisions stay and the pool only
\* loses transactions whose claims are voted or dropped.
LEMMA HandledStays ==
    ASSUME NEW v \in Validators, NEW c, c.id \in Prophecies, Handled(v, c),
           dropped[v] \subseteq dropped'[v],
           prophecy[c.id].status.text # "PENDING" => prophecy'[c.id].status.text # "PENDING",
           prophecy[c.id].validatorClaims[v] = c.content
               => prophecy'[c.id].validatorClaims[v] = c.content,
           \A tx \in txPool \ txPool' :
               tx.from = v /\ c \in tx.claims
                   => \/ prophecy'[c.id].status.text # "PENDING"
                      \/ prophecy'[c.id].validatorClaims[v] = c.content
                      \/ c \in dropped'[v]
    PROVE  Handled(v, c)'
<1>1. CASE c \in dropped[v]
    BY Zenon, <1>1 DEF Handled
<1>2. CASE prophecy[c.id].status.text # "PENDING"
    BY Zenon, <1>2 DEF Handled, Voiced
<1>3. CASE prophecy[c.id].validatorClaims[v] = c.content
    BY Zenon, <1>3 DEF Handled, Voiced
<1>4. CASE \E tx \in txPool : tx.from = v /\ c \in tx.claims
    <2>1. PICK tx \in txPool : tx.from = v /\ c \in tx.claims
        BY Zenon, <1>4
    <2>2. CASE tx \in txPool'
        BY Zenon, <2>1, <2>2 DEF Handled, Voiced
    <2>3. CASE tx \notin txPool'
        BY Zenon, <2>1, <2>3 DEF Handled, Voiced
    <2> QED BY Zenon, <2>2, <2>3
<1> QED BY Zenon, <1>1, <1>2, <1>3, <1>4 DEF Handled, Voiced

AllHandledStay == \A v \in Validators, c \in FixedClaims : Handled(v, c) => Handled(v, c)'

\* A transaction is delivered: the votes stay final, and nothing that was handled
\* is lost.
LEMMA DeliverKeeps ==
    ASSUME ChainOK, PropheciesOK, VotesOK, dropped \in [Validators -> SUBSET ClaimsOf(LogEvents)],
           NEW tx \in txPool, DeliverTx(tx)
    PROVE  /\ PropheciesOK' /\ VotesOK' /\ AllHandledStay
           /\ dropped' \in [Validators -> SUBSET ClaimsOf(LogEvents)]
<1> DEFINE v == tx.from
<1>1. v \in whitelist /\ v \in Validators /\ tx.claims \in SUBSET FixedClaims
    BY Zenon, SetupAssumption DEF VotesOK, PropheciesOK
<1>2. /\ txPool' = txPool \ {tx} /\ setup' = setup /\ FixedClaims' = FixedClaims
      /\ whitelist' = whitelist /\ bonded' = bonded
    BY Zenon DEF DeliverTx, dbVars, ethVars, FixedClaims, FixedEvents, ClaimsOf, Parses,
           EthereumEventToEthBridgeClaim, EthereumToFurynet, CreateEthBridgeClaims, oracleVars
<1>3. CASE \E status \in [tx.claims -> UNION {Outcomes(tx.from, c) : c \in tx.claims}] :
               CreateEthBridgeClaims(tx.from, tx.claims, status) /\ dropped' = dropped
    <2>1. PICK status : CreateEthBridgeClaims(tx.from, tx.claims, status) /\ dropped' = dropped
        BY Zenon, <1>3
    <2>2. /\ \A id \in Prophecies : (\A c \in tx.claims : c.id # id) => prophecy'[id] = prophecy[id]
          /\ \A c \in tx.claims :
                 /\ MayClaim(v, c.id)
                 /\ status[c] \in processCompletion(Voted(v, c))
                 /\ prophecy'[c.id] = [Voted(v, c) EXCEPT !.status = status[c]]
          /\ prophecy' \in [Prophecies -> ProphecyType]
        BY Zenon, <1>1, <2>1, Accepted
    <2>3. ASSUME NEW c \in tx.claims
          PROVE  /\ VotesFixed(prophecy'[c.id], c.id)
                 /\ prophecy'[c.id].validatorClaims[v] = c.content
                 /\ KeepsVotes(prophecy[c.id], prophecy'[c.id])
                 /\ prophecy[c.id].status.text = "PENDING"
        <3>1. c \in FixedClaims /\ VotesFixed(prophecy[c.id], c.id) /\ MayClaim(v, c.id)
            BY Zenon, <1>1, <2>2, FixedClaimIs DEF VotesOK
        <3>2. PICK s \in processCompletion(Voted(v, c)) : s = status[c]
            BY Zenon, <2>2
        <3>3. PICK q : q = [Voted(v, c) EXCEPT !.status = s]
            BY Zenon
        <3>4. prophecy'[c.id] = q
            BY Zenon, <2>2, <3>2, <3>3
        <3>5. PICK w \in Validators : w = v
            BY Zenon, <1>1
        <3>6. VotesFixed(q, c.id) /\ q.validatorClaims[w] = c.content
              /\ KeepsVotes(prophecy[c.id], q) /\ prophecy[c.id].status.text = "PENDING"
            <4> HIDE DEF v
            <4>1. MayClaim(w, c.id) /\ s \in processCompletion(Voted(w, c)) /\ q = [Voted(w, c) EXCEPT !.status = s]
                BY Zenon, <3>1, <3>3, <3>5
            <4> QED BY ONLY Zenon, <3>1, <4>1, VoteIsFixed, PropheciesOK, w \in Validators
        <3> QED BY Zenon, <3>4, <3>5, <3>6
    <2>4. ASSUME NEW id \in Prophecies
          PROVE  VotesFixed(prophecy'[id], id)
        BY Zenon, <2>2, <2>3 DEF VotesOK
    <2>5. \A id \in Prophecies : VotesFixed(prophecy[id], id)'
        BY Zenon, <1>2, <2>4 DEF VotesFixed, Finalized, Success
    <2>6. ASSUME NEW w \in Validators, NEW c \in FixedClaims, Handled(w, c)
          PROVE  Handled(w, c)'
        <3>1. c.id \in Prophecies /\ c.content \in Claims
            BY Zenon, FixedClaimIs
        <3>2. prophecy[c.id].status.text # "PENDING" => prophecy'[c.id].status.text # "PENDING"
            BY Zenon, <2>2, <2>3, <3>1
        <3>3. prophecy[c.id].validatorClaims[w] = c.content
                  => prophecy'[c.id].validatorClaims[w] = c.content
            BY <2>2, <2>3, <3>1 DEF KeepsVotes
        <3>4. \A t \in txPool \ txPool' :
                  t.from = w /\ c \in t.claims => prophecy'[c.id].validatorClaims[w] = c.content
            BY Zenon, <1>2, <2>3
        <3> QED BY Zenon, <2>1, <2>6, <3>1, <3>2, <3>3, <3>4, HandledStays
    <2> QED BY Zenon, <1>2, <2>1, <2>2, <2>5, <2>6 DEF PropheciesOK, VotesOK, AllHandledStay
<1>4. CASE Drop(tx) /\ prophecy' = prophecy
    <2>1. dropped' = [dropped EXCEPT ![v] = @ \cup {c \in tx.claims : MayClaim(v, c.id)}]
        BY Zenon, <1>4 DEF Drop
    <2>2. FixedClaims \subseteq ClaimsOf(LogEvents)
        BY Zenon, ClaimsGrow DEF FixedClaims, FixedEvents
    <2>3. dropped' \in [Validators -> SUBSET ClaimsOf(LogEvents)]
        BY Zenon, <1>1, <2>1, <2>2
    <2>4. ASSUME NEW w \in Validators, NEW c \in FixedClaims, Handled(w, c)
          PROVE  Handled(w, c)'
        <3>1. c.id \in Prophecies
            BY Zenon, FixedClaimIs
        <3>2. dropped[w] \subseteq dropped'[w]
            BY Zenon, <1>1, <2>1
        <3>3. ASSUME v = w, c \in tx.claims
              PROVE  \/ prophecy'[c.id].status.text # "PENDING"
                     \/ prophecy'[c.id].validatorClaims[w] = c.content
                     \/ c \in dropped'[w]
            <4>1. CASE MayClaim(v, c.id)
                BY Zenon, <1>1, <2>1, <3>3, <4>1
            <4>2. CASE ~MayClaim(v, c.id)
                BY Zenon, <1>1, <1>4, <3>3, <4>2, MadeOrDecided
            <4> QED BY Zenon, <4>1, <4>2
        <3> QED BY Zenon, <1>2, <1>4, <2>4, <3>1, <3>2, <3>3, HandledStays
    <2>5. \A id \in Prophecies : VotesFixed(prophecy[id], id)'
        BY Zenon, <1>2, <1>4 DEF VotesOK, VotesFixed, Finalized, Success
    <2> QED BY Zenon, <1>2, <1>4, <2>3, <2>4, <2>5 DEF PropheciesOK, VotesOK, AllHandledStay
<1> QED BY Zenon, <1>3, <1>4 DEF DeliverTx, oracleVars

-----------------------------------------------------------------------------
(***************************************************************************)
(* The goroutine.                                                          *)
(***************************************************************************)

Running == {"idle", "relay", "wait", "put"}

SubTypes ==
    [pc : Running \cup {"none", "down", "dead"}, last : Nat, ending : Nat, batch : SUBSET LogEvents]

SubOK ==
    /\ sub \in [Validators -> SubTypes]
    /\ cursor \in [Validators -> Nat] /\ since \in [Validators -> Nat]
    /\ dropped \in [Validators -> SUBSET ClaimsOf(LogEvents)]
    /\ \A v \in Validators : sub[v].pc # "none" => v \in whitelist

\* The claims of a range of blocks are handled.
RangeHandled(v, a, b) == \A c \in ClaimsOf(FilterLogs(a, b)) : Handled(v, c)

\* A running goroutine reads on from its cursor; between reading a range and
\* saving the cursor it has that range in its batch, and once the transaction is
\* sent the range is handled.  Behind the cursor all is final and handled; a
\* cursor that was there at first has nothing behind it.
CursorOK(v) ==
    /\ sub[v].pc \in Running /\ cursor[v] # 0 => sub[v].last = cursor[v]
    /\ sub[v].pc \in {"relay", "wait", "put"} =>
           /\ sub[v].ending <= highest - Trailing
           /\ sub[v].batch = FilterLogs(sub[v].last, sub[v].ending)
    /\ sub[v].pc \in {"wait", "put"} => RangeHandled(v, sub[v].last, sub[v].ending)
    /\ since[v] < cursor[v] => cursor[v] - 1 <= highest - Trailing
    /\ RangeHandled(v, since[v], cursor[v] - 1)

\* What is Trailing blocks old is final.
LEMMA RangeFixed ==
    ASSUME ChainOK, NEW a \in Int, NEW b \in Int, b <= highest - Trailing
    PROVE  /\ FilterLogs(a, b) \subseteq FixedEvents
           /\ ClaimsOf(FilterLogs(a, b)) \subseteq FixedClaims
<1>1. FilterLogs(a, b) \subseteq FixedEvents
    <2> SUFFICES ASSUME NEW e \in FilterLogs(a, b) PROVE e \in FixedEvents
        BY Zenon
    <2>1. PICK n \in (a .. b) \cap DOMAIN ethChain : e \in ethChain[n]
        BY Zenon DEF FilterLogs
    <2>2. n \in 1 .. Len(ethChain) /\ ethChain[n] \in SUBSET LogEvents
        BY <2>1 DEF ChainOK
    <2>3. n \in 1 .. highest - Trailing
        BY <2>2, SetupAssumption DEF ChainOK
    <2> QED BY Zenon, <2>1, <2>2, <2>3 DEF FixedEvents
<1> QED BY Zenon, <1>1, ClaimsGrow DEF FixedClaims

\* An empty range has nothing to handle.
LEMMA RangeEmpty == ASSUME NEW v, NEW a \in Int, NEW b \in Int, a > b PROVE RangeHandled(v, a, b)
<1>1. a .. b = {}
    OBVIOUS
<1> QED BY Zenon, <1>1 DEF RangeHandled, FilterLogs, ClaimsOf

\* A range that is final and handled stays so.
LEMMA RangeStays ==
    ASSUME ChainOK, ChainOK', Keeps, AllHandledStay, NEW v \in Validators, NEW a \in Int, NEW b \in Int,
           a <= b => b <= highest - Trailing, RangeHandled(v, a, b)
    PROVE  RangeHandled(v, a, b)'
<1>1. CASE a > b
    <2>1. a .. b = {}
        BY <1>1
    <2> QED BY Zenon, <2>1 DEF RangeHandled, FilterLogs, ClaimsOf
<1>2. CASE a <= b
    <2>1. PICK S : S = ClaimsOf(FilterLogs(a, b))
        BY Zenon
    <2>2. S = ClaimsOf(FilterLogs(a, b))'
        BY Zenon, <1>2, <2>1, FixedStays
           DEF ClaimsOf, Parses, EthereumEventToEthBridgeClaim, EthereumToFurynet
    <2>3. S \subseteq FixedClaims
        BY Zenon, <1>2, <2>1, RangeFixed
    <2>4. \A c \in S : Handled(v, c)'
        BY Zenon, <2>1, <2>3 DEF RangeHandled, AllHandledStay
    <2> QED BY Zenon, <2>2, <2>4 DEF RangeHandled
<1> QED BY <1>1, <1>2

\* What a relayer keeps while others, or the chains, move on.
LEMMA CursorStays ==
    ASSUME ChainOK, ChainOK', Keeps, AllHandledStay, SubOK, NEW v \in Validators, CursorOK(v),
           sub'[v] = sub[v], cursor'[v] = cursor[v], since'[v] = since[v]
    PROVE  CursorOK(v)'
<1>1. /\ sub[v] \in SubTypes /\ sub[v].last \in Nat /\ sub[v].ending \in Nat
      /\ cursor[v] \in Nat /\ since[v] \in Nat
    BY Zenon DEF SubOK, SubTypes
<1>2. PICK a \in Nat, b \in Nat, s \in Nat, t \in Int :
          a = sub[v].last /\ b = sub[v].ending /\ s = since[v] /\ t = cursor[v] - 1
    BY Zenon, IntegersClosed, <1>1
<1>3. highest \in Nat /\ highest' \in Nat /\ highest <= highest' /\ Trailing \in Nat
    BY Zenon, SetupAssumption DEF ChainOK, Keeps
<1>4. since[v] < cursor[v] <=> s <= t
    BY <1>1, <1>2
<1>5. RangeHandled(v, s, t)'
    <2>1. RangeHandled(v, s, t) /\ (s <= t => t <= highest - Trailing)
        BY Zenon, <1>2, <1>4 DEF CursorOK
    <2> QED BY Zenon, IntegersClosed, <2>1, RangeStays
<1>6. ASSUME sub[v].pc \in {"relay", "wait", "put"}
      PROVE  /\ sub[v].batch = FilterLogs(a, b)' /\ b <= highest - Trailing
             /\ RangeHandled(v, a, b) => RangeHandled(v, a, b)'
    <2>1. b <= highest - Trailing /\ sub[v].batch = FilterLogs(a, b)
        BY Zenon, <1>2, <1>6 DEF CursorOK
    <2> QED BY Zenon, IntegersClosed, <2>1, FixedStays, RangeStays
<1>7. \A n \in Int : n <= highest - Trailing => n <= highest' - Trailing
    <2>1. PICK h \in Nat : h = highest'
        BY Zenon, <1>3
    <2>2. highest <= h
        BY Zenon, <1>3, <2>1
    <2>3. \A n \in Int : n <= highest - Trailing => n <= h - Trailing
        BY <1>3, <2>2
    <2> QED BY Zenon, <2>1, <2>3
<1>8. since[v] < cursor[v] => t <= highest' - Trailing
    BY Zenon, <1>2, <1>7 DEF CursorOK
<1>9. sub[v].pc \in {"relay", "wait", "put"} => b <= highest' - Trailing
    BY Zenon, IntegersClosed, <1>6, <1>7
<1>10. sub[v].pc \in {"wait", "put"} => RangeHandled(v, a, b)'
    BY Zenon, <1>2, <1>6 DEF CursorOK
<1> QED BY Zenon, <1>2, <1>5, <1>6, <1>8, <1>9, <1>10 DEF CursorOK

SubInv ==
    /\ ChainOK /\ HeadsOK /\ PropheciesOK /\ VotesOK /\ SubOK
    /\ \A v \in Validators : CursorOK(v)

\* Steps of the goroutine leave the chain and the votes alone.
OnlySub == UNCHANGED <<ethChain, highest, prophecy, whitelist, bonded, setup>>

\* Such a step keeps the invariant when it keeps what the goroutine itself knows.
LEMMA OnlySubKeeps ==
    ASSUME SubInv, OnlySub, HeadsOK', SubOK',
           \A tx \in txPool' : tx.from \in whitelist /\ tx.claims \subseteq FixedClaims,
           AllHandledStay, NEW v \in Validators, CursorOK(v)',
           \A w \in Validators \ {v} :
               sub'[w] = sub[w] /\ cursor'[w] = cursor[w] /\ since'[w] = since[w]
    PROVE  SubInv'
<1>1. ChainOK' /\ PropheciesOK'
    BY Zenon DEF SubInv, OnlySub, ChainOK, PropheciesOK
<1>2. Keeps
    BY SetupAssumption DEF SubInv, OnlySub, ChainOK, Keeps
<1>3. FixedClaims' = FixedClaims
    BY Zenon DEF OnlySub, FixedClaims, FixedEvents, ClaimsOf, Parses, EthereumEventToEthBridgeClaim,
           EthereumToFurynet
<1>4. VotesOK'
    BY Zenon, <1>3 DEF SubInv, OnlySub, VotesOK, VotesFixed, Finalized, Success
<1>5. \A w \in Validators : CursorOK(w)'
    BY Zenon, <1>1, <1>2, CursorStays DEF SubInv
<1> QED BY Zenon, <1>1, <1>4, <1>5 DEF SubInv

\* Votes, pool and drops as they were: what was handled is.
LEMMA HandledSame ==
    ASSUME UNCHANGED <<prophecy, txPool, dropped>>
    PROVE  AllHandledStay
BY Zenon DEF AllHandledStay, Handled, Voiced

OthersSame(v) == \A w \in Validators \ {v} : sub'[w] = sub[w]

\* What SetSub sets.
LEMMA SetSubIs ==
    ASSUME sub \in [Validators -> SubTypes], NEW v \in Validators,
           NEW pc \in Running \cup {"none", "down", "dead"}, NEW last \in Nat, NEW ending \in Nat,
           NEW batch \in SUBSET LogEvents, SetSub(v, pc, last, ending, batch)
    PROVE  /\ sub' \in [Validators -> SubTypes] /\ OthersSame(v)
           /\ sub'[v].pc = pc /\ sub'[v].last = last /\ sub'[v].ending = ending
           /\ sub'[v].batch = batch
<1> DEFINE new == [pc |-> pc, last |-> last, ending |-> ending, batch |-> batch]
<1>1. new \in SubTypes
    BY Zenon DEF SubTypes
<1>2. sub' = [sub EXCEPT ![v] = new]
    BY Zenon DEF SetSub
<1>3. new.pc = pc /\ new.last = last /\ new.ending = ending /\ new.batch = batch
    BY Zenon
<1> HIDE DEF new
<1> QED BY Zenon, <1>1, <1>2, <1>3 DEF OthersSame

\* The goroutine starts, from the cursor that LevelDB holds.
LEMMA StartKeeps ==
    ASSUME SubInv, NEW v \in Validators, Start(v)
    PROVE  SubInv'
<1>1. OnlySub /\ UNCHANGED <<txPool, dropped, cursor, since, heads, ethChain>>
    BY Zenon DEF Start, bridgeVars, oracleVars, ethVars, dbVars, poolVars, OnlySub
<1>2. AllHandledStay
    BY Zenon, <1>1, HandledSame DEF OnlySub
<1>3. sub[v].pc = "down" /\ sub \in [Validators -> SubTypes] /\ cursor \in [Validators -> Nat]
    BY Zenon DEF Start, SubInv, SubOK
<1>4. /\ sub' \in [Validators -> SubTypes] /\ OthersSame(v)
      /\ sub'[v].pc \in {"idle", "dead"}
      /\ sub'[v].pc = "idle" => sub'[v].last = cursor[v]
    <2>1. cursor[v] \in Nat /\ 0 \in Nat /\ {} \in SUBSET LogEvents
        BY Zenon, <1>3
    <2>2. CASE SetSub(v, "idle", cursor[v], 0, {})
        BY Zenon, <1>3, <2>1, <2>2, SetSubIs DEF Running
    <2>3. CASE SetSub(v, "dead", 0, 0, {})
        BY Zenon, <1>3, <2>1, <2>3, SetSubIs DEF Running
    <2> QED BY Zenon, <2>2, <2>3 DEF Start
<1>6. SubOK'
    BY Zenon, <1>1, <1>3, <1>4 DEF SubInv, SubOK, OnlySub, OthersSame
<1>7. HeadsOK'
    BY Zenon, <1>1 DEF SubInv, HeadsOK, OnlySub
<1>8. CursorOK(v)'
    <2>1. CursorOK(v)
        BY Zenon DEF SubInv
    <2>2. RangeHandled(v, since[v], cursor[v] - 1)'
        BY <1>1, <2>1 DEF CursorOK, RangeHandled, FilterLogs, Handled, Voiced, OnlySub
    <2> QED BY Zenon, <1>1, <1>4, <2>1, <2>2 DEF CursorOK, Running, OnlySub
<1>9. \A tx \in txPool' : tx.from \in whitelist /\ tx.claims \subseteq FixedClaims
    BY Zenon, <1>1 DEF SubInv, VotesOK
<1> QED BY Zenon, <1>1, <1>2, <1>4, <1>6, <1>7, <1>8, <1>9, OnlySubKeeps DEF OthersSame

\* The goroutine stops, between any two steps.
LEMMA StopKeeps ==
    ASSUME SubInv, NEW v \in Validators, Stop(v)
    PROVE  SubInv'
<1>1. OnlySub /\ UNCHANGED <<txPool, dropped, cursor, since, ethChain>>
    BY Zenon DEF Stop, bridgeVars, oracleVars, ethVars, dbVars, poolVars, OnlySub
<1>2. AllHandledStay
    BY Zenon, <1>1, HandledSame DEF OnlySub
<1>3. sub[v].pc # "none" /\ sub \in [Validators -> SubTypes]
    BY Zenon DEF Stop, SubInv, SubOK
<1>4. sub' \in [Validators -> SubTypes] /\ OthersSame(v) /\ sub'[v].pc = "down"
    BY <1>3, SetSubIs DEF Stop, Running
<1>6. SubOK'
    BY Zenon, <1>1, <1>3, <1>4 DEF SubInv, SubOK, OnlySub, OthersSame
<1>7. HeadsOK'
    <2>1. heads' = [heads EXCEPT ![v] = <<>>] /\ heads \in [Validators -> Seq(Int)]
        BY Zenon DEF Stop, SubInv, HeadsOK
    <2>2. heads' \in [Validators -> Seq(Int)] /\ DOMAIN heads'[v] = {}
        BY <2>1
    <2> QED BY Zenon, <1>1, <2>1, <2>2 DEF SubInv, HeadsOK, OnlySub
<1>8. CursorOK(v)'
    <2>1. CursorOK(v)
        BY Zenon DEF SubInv
    <2>2. RangeHandled(v, since[v], cursor[v] - 1)'
        BY <1>1, <2>1 DEF CursorOK, RangeHandled, FilterLogs, Handled, Voiced, OnlySub
    <2> QED BY Zenon, <1>1, <1>4, <2>1, <2>2 DEF CursorOK, Running, OnlySub
<1>9. \A tx \in txPool' : tx.from \in whitelist /\ tx.claims \subseteq FixedClaims
    BY Zenon, <1>1 DEF SubInv, VotesOK
<1> QED BY Zenon, <1>1, <1>2, <1>4, <1>6, <1>7, <1>8, <1>9, OnlySubKeeps DEF OthersSame

\* Two ranges that follow one another.
LEMMA RangeJoin ==
    ASSUME NEW v, NEW a \in Int, NEW b \in Int, NEW d \in Int,
           RangeHandled(v, a, b - 1), RangeHandled(v, b, d)
    PROVE  RangeHandled(v, a, d)
<1>1. a .. d \subseteq (a .. b - 1) \cup (b .. d)
    OBVIOUS
<1>2. FilterLogs(a, d) \subseteq FilterLogs(a, b - 1) \cup FilterLogs(b, d)
    BY Zenon, <1>1 DEF FilterLogs
<1>3. ClaimsOf(FilterLogs(a, d)) \subseteq ClaimsOf(FilterLogs(a, b - 1)) \cup ClaimsOf(FilterLogs(b, d))
    BY Zenon, <1>2 DEF ClaimsOf
<1> QED BY Zenon, <1>3 DEF RangeHandled

\* The cursor is saved after a range that is final and handled.
LEMMA SaveKeeps ==
    ASSUME SubInv, OnlySub, UNCHANGED <<txPool, dropped>>, HeadsOK', NEW v \in Validators,
           NEW last \in Nat, NEW ending \in Nat, ending <= highest - Trailing,
           sub[v].pc \in Running, cursor[v] # 0 => last = cursor[v],
           RangeHandled(v, last, ending), SaveCursor(v, last, ending)
    PROVE  SubInv'
<1>1. AllHandledStay
    BY Zenon, HandledSame DEF OnlySub
<1>2. /\ sub \in [Validators -> SubTypes] /\ cursor \in [Validators -> Nat]
      /\ since \in [Validators -> Nat] /\ cursor[v] \in Nat /\ since[v] \in Nat
    BY Zenon DEF SubInv, SubOK
<1>3. ending + 1 \in Nat /\ ending + 1 # 0 /\ ending + 1 - 1 = ending /\ ending \in Int
    OBVIOUS
<1>4. /\ cursor' = [cursor EXCEPT ![v] = ending + 1]
      /\ since' = [since EXCEPT ![v] = IF cursor[v] = 0 THEN last ELSE @]
      /\ SetSub(v, "idle", ending + 1, 0, {})
    BY Zenon DEF SaveCursor
<1>5. /\ sub' \in [Validators -> SubTypes] /\ OthersSame(v)
      /\ sub'[v].pc = "idle" /\ sub'[v].last = ending + 1
    BY <1>2, <1>3, <1>4, SetSubIs DEF Running
<1>6. /\ cursor' \in [Validators -> Nat] /\ cursor'[v] = ending + 1
      /\ since' \in [Validators -> Nat] /\ since'[v] = IF cursor[v] = 0 THEN last ELSE since[v]
      /\ \A w \in Validators \ {v} : cursor'[w] = cursor[w] /\ since'[w] = since[w]
    BY Zenon, <1>2, <1>3, <1>4
<1>7. SubOK'
    BY Zenon, <1>5, <1>6 DEF SubInv, SubOK, OnlySub, OthersSame, Running
<1>8. PICK s \in Nat : s = since'[v]
    BY Zenon, <1>6
<1>9. RangeHandled(v, s, ending)
    <2>1. CASE cursor[v] = 0
        BY Zenon, <1>6, <1>8, <2>1
    <2>2. CASE cursor[v] # 0
        <3>1. s = since[v] /\ last = cursor[v]
            BY Zenon, <1>6, <1>8, <2>2
        <3>2. RangeHandled(v, since[v], cursor[v] - 1)
            BY Zenon DEF SubInv, CursorOK
        <3>3. RangeHandled(v, s, last - 1)
            BY Zenon, <3>1, <3>2
        <3> QED BY Zenon, IntegersClosed, <1>3, <3>3, RangeJoin
    <2> QED BY Zenon, <2>1, <2>2
<1>10. RangeHandled(v, s, ending)'
    BY Zenon, <1>9 DEF RangeHandled, FilterLogs, Handled, Voiced, OnlySub
<1>11. CursorOK(v)'
    BY <1>3, <1>5, <1>6, <1>8, <1>10 DEF CursorOK, OnlySub
<1>12. \A tx \in txPool' : tx.from \in whitelist /\ tx.claims \subseteq FixedClaims
    BY Zenon DEF SubInv, VotesOK
<1> QED BY Zenon, <1>1, <1>5, <1>6, <1>7, <1>11, <1>12, OnlySubKeeps DEF OthersSame

\* A head is read and its range searched.
LEMMA NewHeadKeeps ==
    ASSUME SubInv, NEW v \in Validators, NewHead(v)
    PROVE  SubInv'
<1>1. /\ sub[v].pc = "idle" /\ heads[v] # <<>> /\ heads' = [heads EXCEPT ![v] = Tail(@)]
      /\ UNCHANGED <<prophecy, whitelist, bonded, ethChain, highest, txPool, dropped>>
    BY Zenon DEF NewHead, bridgeVars, oracleVars, ethVars, poolVars
<1>2. /\ sub \in [Validators -> SubTypes] /\ sub[v].last \in Nat /\ highest \in Nat /\ Trailing \in Nat
      /\ heads \in [Validators -> Seq(Int)] /\ cursor[v] \in Nat /\ since[v] \in Nat
    BY Zenon, SetupAssumption DEF SubInv, ChainOK, HeadsOK, SubOK, SubTypes
<1>3. Head(heads[v]) \in Int /\ Head(heads[v]) <= highest
    <2>1. heads[v] \in Seq(Int) /\ 1 \in DOMAIN heads[v] /\ Head(heads[v]) = heads[v][1]
        BY <1>1, <1>2
    <2> QED BY <2>1 DEF SubInv, HeadsOK
<1>4. HeadsOK'
    <2>1. heads[v] \in Seq(Int)
        BY Zenon, <1>2
    <2>2. /\ Tail(heads[v]) \in Seq(Int)
          /\ \A i \in DOMAIN Tail(heads[v]) :
                 i + 1 \in DOMAIN heads[v] /\ Tail(heads[v])[i] = heads[v][i + 1]
        BY <1>1, <2>1
    <2>3. heads' \in [Validators -> Seq(Int)]
        BY Zenon, <1>1, <1>2, <2>2
    <2> QED BY Zenon, <1>1, <1>2, <2>2, <2>3 DEF SubInv, HeadsOK
<1>5. PICK ending \in Int, last \in Nat :
          /\ ending = Head(heads[v]) - Trailing
          /\ last = IF sub[v].last = 0 /\ ending >= 0 THEN ending ELSE sub[v].last
    BY <1>2, <1>3
<1>6. ReadBlocks(v, last, ending) /\ ending <= highest - Trailing
    BY <1>2, <1>3, <1>5 DEF NewHead
<1>7. cursor[v] # 0 => last = cursor[v]
    <2>1. cursor[v] # 0 => sub[v].last = cursor[v]
        BY Zenon, <1>1 DEF SubInv, CursorOK, Running
    <2> QED BY Zenon, <1>5, <2>1
<1>8. AllHandledStay
    BY Zenon, <1>1, HandledSame
<1>9. \A tx \in txPool' : tx.from \in whitelist /\ tx.claims \subseteq FixedClaims
    BY Zenon, <1>1 DEF SubInv, VotesOK
<1>10. ASSUME UNCHANGED dbVars, sub' \in [Validators -> SubTypes], OthersSame(v),
              sub'[v].pc \in {"idle", "relay"}, cursor[v] # 0 => sub'[v].last = cursor[v],
              sub'[v].pc = "relay" =>
                  /\ sub'[v].ending <= highest - Trailing
                  /\ sub'[v].batch = FilterLogs(sub'[v].last, sub'[v].ending)
       PROVE  SubInv'
    <2>1. OnlySub /\ UNCHANGED <<cursor, since>>
        BY Zenon, <1>1, <1>10 DEF OnlySub, dbVars
    <2>2. SubOK'
        BY Zenon, <1>1, <1>10, <2>1 DEF SubInv, SubOK, OnlySub, OthersSame
    <2>3. RangeHandled(v, since[v], cursor[v] - 1)'
        BY <1>1, <2>1 DEF SubInv, CursorOK, RangeHandled, FilterLogs, Handled, Voiced
    <2>4. CursorOK(v)
        BY Zenon DEF SubInv
    <2>5. sub'[v].pc = "relay" => sub'[v].batch = FilterLogs(sub[v].last, sub[v].ending)'
        BY Zenon, <1>1, <1>10 DEF FilterLogs
    <2>6. CursorOK(v)'
        BY Zenon, <1>1, <1>10, <2>1, <2>3, <2>4, <2>5 DEF CursorOK, Running
    <2> QED BY Zenon, <1>4, <1>8, <1>9, <1>10, <2>1, <2>2, <2>6, OnlySubKeeps DEF OthersSame
<1>11. CASE ending < 0 /\ UNCHANGED <<sub, dbVars, faults>>
    BY Zenon, <1>1, <1>2, <1>10, <1>11 DEF OthersSame, SubInv, CursorOK, Running
<1>12. CASE SetSub(v, "idle", last, 0, {}) /\ UNCHANGED dbVars
    <2>1. /\ sub' \in [Validators -> SubTypes] /\ OthersSame(v)
          /\ sub'[v].pc = "idle" /\ sub'[v].last = last
        <3>1. "idle" \in Running /\ 0 \in Nat /\ {} \in SUBSET LogEvents
            BY Zenon DEF Running
        <3> QED BY Zenon, <1>2, <1>12, <3>1, SetSubIs
    <2> QED BY Zenon, <1>7, <1>10, <1>12, <2>1
<1>13. CASE ending >= 0 /\ FilterLogs(last, ending) = {} /\ SaveCursor(v, last, ending)
    <2>1. OnlySub /\ UNCHANGED <<txPool, dropped>>
        BY Zenon, <1>1, <1>13 DEF OnlySub, SaveCursor
    <2>2. RangeHandled(v, last, ending)
        BY Zenon, <1>13 DEF RangeHandled, ClaimsOf
    <2>3. ending \in Nat /\ sub[v].pc \in Running
        BY <1>1, <1>13 DEF Running
    <2> QED BY Zenon, <1>4, <1>6, <1>7, <1>13, <2>1, <2>2, <2>3, SaveKeeps
<1>14. CASE ending >= 0 /\ SetSub(v, "relay", last, ending, FilterLogs(last, ending)) /\ UNCHANGED dbVars
    <2>1. FilterLogs(last, ending) \in SUBSET LogEvents /\ ending \in Nat
        BY <1>6, <1>14, RangeFixed DEF SubInv, FixedEvents
    <2>2. /\ sub' \in [Validators -> SubTypes] /\ OthersSame(v)
          /\ sub'[v].pc = "relay" /\ sub'[v].last = last /\ sub'[v].ending = ending
          /\ sub'[v].batch = FilterLogs(last, ending)
        BY Zenon, <1>2, <1>14, <2>1, SetSubIs DEF Running
    <2> QED BY Zenon, <1>6, <1>7, <1>10, <1>14, <2>2
<1> QED BY Zenon, <1>6, <1>11, <1>12, <1>13, <1>14 DEF ReadBlocks

\* Only pc changes.
LEMMA SetPcIs ==
    ASSUME sub \in [Validators -> SubTypes], NEW v \in Validators,
           NEW pc \in Running \cup {"none", "down", "dead"}, sub' = [sub EXCEPT ![v].pc = pc]
    PROVE  /\ sub' \in [Validators -> SubTypes] /\ OthersSame(v)
           /\ sub'[v].pc = pc /\ sub'[v].last = sub[v].last /\ sub'[v].ending = sub[v].ending
           /\ sub'[v].batch = sub[v].batch
<1>1. sub[v] \in SubTypes
    BY Zenon
<1>2. PICK new \in SubTypes :
          /\ new = [sub[v] EXCEPT !.pc = pc]
          /\ new.pc = pc /\ new.last = sub[v].last /\ new.ending = sub[v].ending
          /\ new.batch = sub[v].batch
    BY <1>1 DEF SubTypes
<1>3. sub' = [sub EXCEPT ![v] = new]
    BY Zenon, <1>2
<1> QED BY Zenon, <1>2, <1>3 DEF OthersSame

\* On from relay or wait once the range is handled; the rest of v's state as it was.
LEMMA MovesOn ==
    ASSUME SubInv, OnlySub, UNCHANGED <<heads, cursor, since>>, AllHandledStay,
           \A tx \in txPool' : tx.from \in whitelist /\ tx.claims \subseteq FixedClaims,
           dropped' \in [Validators -> SUBSET ClaimsOf(LogEvents)],
           NEW v \in Validators, sub[v].pc \in {"relay", "wait"},
           NEW pc \in {"wait", "put"}, sub' = [sub EXCEPT ![v].pc = pc],
           \A c \in ClaimsOf(sub[v].batch) : Handled(v, c)'
    PROVE  SubInv'
<1>1. /\ sub' \in [Validators -> SubTypes] /\ OthersSame(v)
      /\ sub'[v].pc = pc /\ sub'[v].last = sub[v].last /\ sub'[v].ending = sub[v].ending
      /\ sub'[v].batch = sub[v].batch
    BY Zenon, SetPcIs DEF SubInv, SubOK, Running
<1>2. SubOK'
    BY Zenon, <1>1 DEF SubInv, SubOK, OnlySub, OthersSame
<1>3. HeadsOK'
    BY Zenon DEF SubInv, HeadsOK, OnlySub
<1>4. /\ sub[v].last \in Int /\ sub[v].ending \in Int /\ cursor[v] \in Nat /\ since[v] \in Nat
      /\ sub[v].ending <= highest - Trailing
      /\ sub[v].batch = FilterLogs(sub[v].last, sub[v].ending)
      /\ cursor[v] # 0 => sub[v].last = cursor[v]
      /\ since[v] < cursor[v] => cursor[v] - 1 <= highest - Trailing
      /\ RangeHandled(v, since[v], cursor[v] - 1)
    BY Zenon, IntegersClosed DEF SubInv, SubOK, SubTypes, CursorOK, Running
<1>5. PICK a \in Int, b \in Int, s \in Int, t \in Int :
          a = sub[v].last /\ b = sub[v].ending /\ s = since[v] /\ t = cursor[v] - 1
    BY Zenon, IntegersClosed, <1>4
<1>6. RangeHandled(v, s, t)'
    <2>1. Keeps /\ ChainOK /\ ChainOK'
        BY SetupAssumption DEF SubInv, OnlySub, ChainOK, Keeps
    <2>2. RangeHandled(v, s, t) /\ (s <= t => t <= highest - Trailing)
        BY <1>4, <1>5
    <2> QED BY Zenon, <2>1, <2>2, RangeStays
<1>7. FilterLogs(a, b)' = sub[v].batch
    BY <1>4, <1>5 DEF FilterLogs, OnlySub
<1>8. RangeHandled(v, a, b)'
    BY Zenon, <1>7 DEF RangeHandled, ClaimsOf, Parses, EthereumEventToEthBridgeClaim, EthereumToFurynet
<1>9. CursorOK(v)'
    BY Zenon, <1>1, <1>4, <1>5, <1>6, <1>7, <1>8 DEF CursorOK, OnlySub
<1> QED BY Zenon, <1>1, <1>2, <1>3, <1>9, OnlySubKeeps DEF OthersSame

\* The transaction for the batch is sent, or fails and its claims are dropped.
LEMMA RelayKeeps ==
    ASSUME SubInv, NEW v \in Validators, RelayToCosmos(v)
    PROVE  SubInv'
<1> DEFINE tx == Tx(v, sub[v].batch)
<1>1. /\ sub[v].pc = "relay" /\ OnlySub /\ UNCHANGED <<heads, cursor, since>>
    BY Zenon DEF RelayToCosmos, bridgeVars, oracleVars, ethVars, dbVars, OnlySub
<1>2. /\ ChainOK /\ PropheciesOK /\ VotesOK /\ v \in whitelist
      /\ dropped \in [Validators -> SUBSET ClaimsOf(LogEvents)]
    BY Zenon, <1>1 DEF SubInv, SubOK
<1>3. tx.from = v /\ tx.claims = ClaimsOf(sub[v].batch)
    BY Zenon DEF Tx
<1>4. tx.claims \subseteq FixedClaims
    <2>1. /\ sub[v].last \in Int /\ sub[v].ending \in Int /\ sub[v].ending <= highest - Trailing
          /\ sub[v].batch = FilterLogs(sub[v].last, sub[v].ending)
        BY Zenon, IntegersClosed, <1>1 DEF SubInv, SubOK, SubTypes, CursorOK
    <2> QED BY Zenon, <1>2, <1>3, <2>1, RangeFixed
<1>5. FixedClaims \subseteq ClaimsOf(LogEvents)
    BY Zenon, ClaimsGrow DEF FixedClaims, FixedEvents
<1>6. \A t \in txPool : t.from \in whitelist /\ t.claims \subseteq FixedClaims
    BY Zenon, <1>2 DEF VotesOK
<1>7. CASE txPool' = txPool \cup {tx} /\ sub' = [sub EXCEPT ![v].pc = "wait"] /\ dropped' = dropped
    <2>1. AllHandledStay
        BY Zenon, <1>1, <1>7 DEF AllHandledStay, Handled, Voiced, OnlySub
    <2>2. \A c \in ClaimsOf(sub[v].batch) : Handled(v, c)'
        BY Zenon, <1>3, <1>7 DEF Handled, Voiced
    <2>3. \A t \in txPool' : t.from \in whitelist /\ t.claims \subseteq FixedClaims
        BY Zenon, <1>2, <1>3, <1>4, <1>6, <1>7
    <2> QED BY Zenon, <1>1, <1>2, <1>7, <2>1, <2>2, <2>3, MovesOn
<1>8. CASE txPool' = txPool /\ sub' = [sub EXCEPT ![v].pc = "put"] /\ Drop(tx)
    <2>1. dropped' = [dropped EXCEPT ![v] = @ \cup {c \in tx.claims : MayClaim(v, c.id)}]
        BY Zenon, <1>3, <1>8 DEF Drop
    <2>2. /\ dropped' \in [Validators -> SUBSET ClaimsOf(LogEvents)]
          /\ \A w \in Validators : dropped[w] \subseteq dropped'[w]
          /\ {c \in tx.claims : MayClaim(v, c.id)} \subseteq dropped'[v]
        BY Zenon, <1>2, <1>4, <1>5, <2>1
    <2>3. AllHandledStay
        BY Zenon, <1>1, <1>8, <2>2 DEF AllHandledStay, Handled, Voiced, OnlySub
    <2>4. ASSUME NEW c \in tx.claims
          PROVE  Handled(v, c)'
        <3>1. CASE MayClaim(v, c.id)
            BY Zenon, <2>2, <3>1 DEF Handled
        <3>2. CASE ~MayClaim(v, c.id)
            BY Zenon, <1>1, <1>2, <1>4, <3>2, MadeOrDecided DEF Handled, Voiced, OnlySub
        <3> QED BY Zenon, <3>1, <3>2
    <2> QED BY Zenon, <1>1, <1>2, <1>3, <1>6, <1>8, <2>2, <2>3, <2>4, MovesOn
<1> QED BY Zenon, <1>7, <1>8 DEF RelayToCosmos

\* The broadcast times out.
LEMMA TimeoutKeeps ==
    ASSUME SubInv, NEW v \in Validators, BroadcastTimeout(v)
    PROVE  SubInv'
<1>1. /\ sub[v].pc = "wait" /\ sub' = [sub EXCEPT ![v].pc = "put"]
      /\ OnlySub /\ UNCHANGED <<heads, cursor, since, txPool, dropped>>
    BY Zenon DEF BroadcastTimeout, bridgeVars, oracleVars, ethVars, dbVars, poolVars, OnlySub
<1>2. AllHandledStay
    BY Zenon, <1>1, HandledSame DEF OnlySub
<1>3. \A c \in ClaimsOf(sub[v].batch) : Handled(v, c)
    BY Zenon, <1>1 DEF SubInv, CursorOK, RangeHandled
<1>4. \A c \in ClaimsOf(sub[v].batch) : Handled(v, c)'
    BY Zenon, <1>1, <1>3 DEF Handled, Voiced, OnlySub
<1>5. /\ \A tx \in txPool' : tx.from \in whitelist /\ tx.claims \subseteq FixedClaims
      /\ dropped' \in [Validators -> SUBSET ClaimsOf(LogEvents)]
    BY Zenon, <1>1 DEF SubInv, VotesOK, SubOK
<1> QED BY Zenon, <1>1, <1>2, <1>4, <1>5, MovesOn

\* The cursor is saved after the range of the batch.
LEMMA PutKeeps ==
    ASSUME SubInv, NEW v \in Validators, Put(v)
    PROVE  SubInv'
<1>1. /\ sub[v].pc = "put" /\ SaveCursor(v, sub[v].last, sub[v].ending)
      /\ UNCHANGED <<heads, txPool, dropped>>
      /\ OnlySub
    BY Zenon DEF Put, bridgeVars, oracleVars, ethVars, poolVars, OnlySub, SaveCursor
<1>2. HeadsOK'
    BY Zenon, <1>1 DEF SubInv, HeadsOK, OnlySub
<1>3. PICK a \in Nat, b \in Nat : a = sub[v].last /\ b = sub[v].ending
    BY Zenon DEF SubInv, SubOK, SubTypes
<1>4. /\ b <= highest - Trailing /\ (cursor[v] # 0 => a = cursor[v]) /\ RangeHandled(v, a, b)
      /\ sub[v].pc \in Running
    BY Zenon, <1>1, <1>3 DEF SubInv, CursorOK, Running
<1>5. SaveCursor(v, a, b)
    BY Zenon, <1>1, <1>3
<1> QED BY Zenon, <1>1, <1>2, <1>4, <1>5, SaveKeeps

\* A transaction is in a block of Furynet.
LEMMA DeliverTxKeeps ==
    ASSUME SubInv, NEW tx \in txPool, DeliverTx(tx)
    PROVE  SubInv'
<1>1. /\ ChainOK /\ PropheciesOK /\ VotesOK /\ SubOK
      /\ dropped \in [Validators -> SUBSET ClaimsOf(LogEvents)]
      /\ sub \in [Validators -> SubTypes]
    BY Zenon DEF SubInv, SubOK
<1>2. /\ PropheciesOK' /\ VotesOK' /\ AllHandledStay
      /\ dropped' \in [Validators -> SUBSET ClaimsOf(LogEvents)]
    BY Zenon, <1>1, DeliverKeeps
<1>3. /\ UNCHANGED <<ethChain, highest, cursor, since, setup, heads>>
      /\ sub' = [sub EXCEPT ![tx.from].pc =
                    IF @ = "wait" /\ tx = Tx(tx.from, sub[tx.from].batch) THEN "put" ELSE @]
    BY Zenon DEF DeliverTx, ethVars, dbVars
<1>4. ChainOK' /\ HeadsOK' /\ Keeps
    BY <1>3, SetupAssumption DEF SubInv, ChainOK, HeadsOK, Keeps
<1>5. PICK v \in Validators : v = tx.from
    BY Zenon, <1>1, SetupAssumption DEF VotesOK, PropheciesOK
<1>6. PICK pc \in Running \cup {"none", "down", "dead"} :
          /\ sub' = [sub EXCEPT ![v].pc = pc]
          /\ pc = sub[v].pc \/ (sub[v].pc = "wait" /\ pc = "put")
    <2>1. sub[v].pc \in Running \cup {"none", "down", "dead"}
        BY Zenon, <1>1 DEF SubTypes
    <2>2. CASE sub[v].pc = "wait" /\ tx = Tx(v, sub[v].batch)
        BY Zenon, <1>3, <1>5, <2>2 DEF Running
    <2>3. CASE ~(sub[v].pc = "wait" /\ tx = Tx(v, sub[v].batch))
        BY Zenon, <1>3, <1>5, <2>1, <2>3
    <2> QED BY Zenon, <2>2, <2>3
<1>7. /\ sub' \in [Validators -> SubTypes] /\ OthersSame(v)
      /\ sub'[v].pc = pc /\ sub'[v].last = sub[v].last /\ sub'[v].ending = sub[v].ending
      /\ sub'[v].batch = sub[v].batch
    BY Zenon, <1>1, <1>6, SetPcIs
<1>8. whitelist' = whitelist
    BY Zenon, <1>2, <1>3 DEF SubInv, PropheciesOK
<1>9. SubOK'
    BY Zenon, <1>1, <1>2, <1>3, <1>6, <1>7, <1>8 DEF SubOK, OthersSame
<1>10. \A w \in Validators \ {v} : CursorOK(w)'
    BY Zenon, <1>1, <1>2, <1>3, <1>4, <1>7, CursorStays DEF SubInv, OthersSame
<1>11. CursorOK(v)'
    <2>1. /\ sub[v].last \in Int /\ sub[v].ending \in Int /\ cursor[v] \in Nat /\ since[v] \in Nat
          /\ CursorOK(v)
        BY Zenon, IntegersClosed, <1>1 DEF SubInv, SubOK, SubTypes
    <2>2. PICK a \in Int, b \in Int, s \in Int, t \in Int :
              a = sub[v].last /\ b = sub[v].ending /\ s = since[v] /\ t = cursor[v] - 1
        BY Zenon, IntegersClosed, <2>1
    <2>3. RangeHandled(v, s, t)'
        <3>1. RangeHandled(v, s, t) /\ (s <= t => t <= highest - Trailing)
            BY <2>1, <2>2 DEF CursorOK
        <3> QED BY Zenon, <1>1, <1>2, <1>4, <3>1, RangeStays
    <2>4. sub[v].pc \in {"wait", "put"} => RangeHandled(v, a, b)'
        <3>1. sub[v].pc \in {"wait", "put"} => RangeHandled(v, a, b) /\ b <= highest - Trailing
            BY Zenon, <2>1, <2>2 DEF CursorOK
        <3> QED BY Zenon, <1>1, <1>2, <1>4, <3>1, RangeStays
    <2>5. FilterLogs(a, b)' = FilterLogs(a, b)
        BY Zenon, <1>3 DEF FilterLogs
    <2> QED BY Zenon, <1>3, <1>6, <1>7, <2>1, <2>2, <2>3, <2>4, <2>5 DEF CursorOK, Running
<1> QED BY Zenon, <1>2, <1>4, <1>9, <1>10, <1>11 DEF SubInv

\* The operator replays what is final.
LEMMA ReplayKeeps ==
    ASSUME SubInv, NEW v \in setup.operators, Replay(v)
    PROVE  SubInv'
<1> DEFINE events == {e \in LogEvents : Final(e) /\ Parses(e)}
<1>1. /\ txPool' = txPool \cup {Tx(v, {e}) : e \in events}
      /\ OnlySub /\ UNCHANGED <<heads, cursor, since, dropped, sub>>
    BY Zenon DEF Replay, bridgeVars, oracleVars, ethVars, dbVars, OnlySub
<1>2. v \in whitelist /\ v \in Validators
    BY Zenon, SetupAssumption DEF SubInv, PropheciesOK
<1>3. events \subseteq FixedEvents
    <2>1. 1 .. Len(ethChain) - Trailing \subseteq 1 .. highest - Trailing
        BY SetupAssumption DEF SubInv, ChainOK
    <2> QED BY Zenon, <2>1 DEF FixedEvents, Final, Height
<1>4. ASSUME NEW e \in events
      PROVE  Tx(v, {e}).from = v /\ Tx(v, {e}).claims \subseteq FixedClaims
    <2>1. ClaimsOf({e}) \subseteq FixedClaims
        BY Zenon, <1>3, ClaimsGrow DEF FixedClaims
    <2> QED BY Zenon, <2>1 DEF Tx
<1>5. \A tx \in txPool' : tx.from \in whitelist /\ tx.claims \subseteq FixedClaims
    BY Zenon, <1>1, <1>2, <1>4 DEF SubInv, VotesOK
<1>6. AllHandledStay
    BY Zenon, <1>1 DEF AllHandledStay, Handled, Voiced, OnlySub
<1>7. HeadsOK' /\ SubOK'
    BY Zenon, <1>1 DEF SubInv, HeadsOK, SubOK, OnlySub
<1>8. CursorOK(v)'
    <2>1. Keeps /\ ChainOK /\ ChainOK' /\ SubOK /\ CursorOK(v)
        BY <1>1, <1>2, SetupAssumption DEF SubInv, OnlySub, ChainOK, Keeps
    <2> QED BY Zenon, <1>1, <1>2, <1>6, <2>1, CursorStays
<1> QED BY Zenon, <1>1, <1>2, <1>5, <1>6, <1>7, <1>8, OnlySubKeeps

\* Ethereum mines a block or replaces some, and announces the new head.
LEMMA EthereumKeeps ==
    ASSUME SubInv, Ethereum
    PROVE  SubInv'
<1>1. PICK logs \in SUBSET LogEvents, k \in 0 .. Trailing :
          IF k = 0 THEN MineBlock(logs) ELSE Reorg(k, logs)
    <2>1. PICK logs \in SUBSET LogEvents : MineBlock(logs) \/ \E k \in 1 .. Trailing : Reorg(k, logs)
        BY Zenon DEF Ethereum
    <2>2. CASE MineBlock(logs)
        BY <2>2, SetupAssumption
    <2>3. CASE \E k \in 1 .. Trailing : Reorg(k, logs)
        <3>1. PICK k \in 1 .. Trailing : Reorg(k, logs)
            BY Zenon, <2>3
        <3>2. k \in 0 .. Trailing /\ k # 0
            BY SetupAssumption
        <3> QED BY Zenon, <3>1, <3>2
    <2> QED BY Zenon, <2>1, <2>2, <2>3
<1>2. ChainOK' /\ Keeps /\ ChainOK
    <2>1. k # 0 => k \in 1 .. Trailing
        BY SetupAssumption
    <2> QED BY Zenon, <1>1, <2>1, MineKeeps, ReorgKeeps DEF SubInv
<1>3. /\ UNCHANGED <<prophecy, whitelist, bonded, setup, cursor, since, txPool, dropped, sub>>
      /\ Announce(Height - k + 1)
    <2>1. CASE k = 0
        <3>1. Height - k + 1 = Height + 1
            BY <1>2, <2>1 DEF Height, ChainOK
        <3> QED BY Zenon, <1>1, <2>1, <3>1 DEF MineBlock, bridgeVars, oracleVars, dbVars, poolVars
    <2>2. CASE k # 0
        BY Zenon, <1>1, <2>2 DEF Reorg, bridgeVars, oracleVars, dbVars, poolVars
    <2> QED BY Zenon, <2>1, <2>2
<1>4. AllHandledStay
    BY Zenon, <1>3, HandledSame
<1>5. FixedClaims \subseteq FixedClaims'
    BY Zenon, <1>2, FixedStays
<1>6. PropheciesOK' /\ SubOK' /\ SubOK
    BY Zenon, <1>3 DEF SubInv, PropheciesOK, SubOK
<1>7. VotesOK'
    BY Zenon, <1>3, <1>5 DEF SubInv, VotesOK, VotesFixed, Finalized, Success
<1>8. \A v \in Validators : CursorOK(v)'
    BY Zenon, <1>2, <1>3, <1>4, <1>6, CursorStays DEF SubInv
<1>9. HeadsOK'
    <2>1. PICK n \in Int : n = Height - k + 1
        BY <1>2 DEF ChainOK, Height
    <2>2. n <= highest'
        <3>1. PICK h \in Nat : h = highest'
            BY Zenon, <1>2 DEF Keeps
        <3>2. CASE k = 0
            BY <1>1, <1>2, <2>1, <3>1, <3>2 DEF MineBlock, ChainOK, Height
        <3>3. CASE k # 0
            BY <1>2, <2>1, <3>1, <3>3 DEF ChainOK, Keeps, Height
        <3> QED BY Zenon, <3>1, <3>2, <3>3
    <2>3. heads' = [v \in Validators |-> IF sub[v].pc \in {"none", "down", "dead"} THEN <<>>
                                         ELSE Append(heads[v], n)]
        BY Zenon, <1>3, <2>1 DEF Announce
    <2>4. ASSUME NEW v \in Validators
          PROVE  heads'[v] \in Seq(Int) /\ \A i \in DOMAIN heads'[v] : heads'[v][i] <= highest'
        <3>1. CASE heads'[v] = <<>>
            BY <3>1
        <3>2. CASE heads'[v] = Append(heads[v], n)
            <4>1. /\ heads[v] \in Seq(Int) /\ \A i \in DOMAIN heads[v] : heads[v][i] <= highest
                  /\ highest \in Nat /\ highest' \in Nat /\ highest <= highest'
                BY Zenon, <1>2 DEF SubInv, HeadsOK, Keeps, ChainOK
            <4>2. /\ Append(heads[v], n) \in Seq(Int)
                  /\ \A i \in DOMAIN Append(heads[v], n) :
                         \/ i \in DOMAIN heads[v] /\ Append(heads[v], n)[i] = heads[v][i]
                            /\ heads[v][i] \in Int
                         \/ Append(heads[v], n)[i] = n
                BY <4>1
            <4>3. PICK h \in Nat : h = highest'
                BY Zenon, <4>1
            <4>4. \A m \in Int : m <= highest => m <= h
                BY <4>1, <4>3
            <4> QED BY Zenon, <2>2, <3>2, <4>1, <4>2, <4>3, <4>4
        <3> QED BY Zenon, <2>3, <3>1, <3>2
    <2> QED BY Zenon, <2>3, <2>4 DEF HeadsOK
<1> QED BY Zenon, <1>2, <1>6, <1>7, <1>8, <1>9 DEF SubInv

-----------------------------------------------------------------------------
(***************************************************************************)
(* Every step keeps the invariant, and it says what the properties say.    *)
(***************************************************************************)

\* The relayers are about to start: nothing is read and nothing voted.
LEMMA SubStart == SubInit => SubInv
<1> SUFFICES ASSUME SubInit PROVE SubInv
    BY Zenon
<1>1. ChainOK
    BY SetupAssumption DEF SubInit, ChainOK, LogsOf, Apart
<1>2. HeadsOK
    BY DEF SubInit, HeadsOK
<1>3. NewProphecy \in ProphecyType
    BY DEF NewProphecy, ProphecyType, Statuses
<1>4. PropheciesOK
    BY Zenon, <1>3 DEF SubInit, PropheciesOK
<1>5. ASSUME NEW id \in Prophecies
      PROVE  VotesFixed(prophecy[id], id)
    <2>1. prophecy[id] = NewProphecy
        BY Zenon DEF SubInit
    <2>2. \A c \in Claims :
              /\ NewProphecy.claimValidators[c] = <<>>
              /\ NewProphecy.status # Success(c)
              /\ \A v \in Validators : NewProphecy.validatorClaims[v] # c
        BY Zenon, ClaimsAssumption DEF NewProphecy, Pending, Success
    <2> QED BY Zenon, <2>1, <2>2 DEF VotesFixed
<1>6. VotesOK
    BY Zenon, <1>5 DEF SubInit, VotesOK
<1>7. \A v \in Validators :
          /\ sub[v] \in SubTypes /\ sub[v].pc \in {"none", "down"}
          /\ sub[v].pc # "none" => v \in setup.relayers
    BY Zenon DEF SubInit, SubTypes, Running
<1>8. SubOK
    <2>1. sub \in [Validators -> SubTypes]
        BY Zenon, <1>7 DEF SubInit
    <2> QED BY Zenon, <1>7, <2>1, SetupAssumption DEF SubInit, SubOK
<1>9. ASSUME NEW v \in Validators
      PROVE  CursorOK(v)
    <2>1. since[v] = cursor[v] /\ cursor[v] \in Nat
        BY Zenon, SetupAssumption DEF SubInit
    <2>2. RangeHandled(v, since[v], cursor[v] - 1)
        BY <2>1, RangeEmpty
    <2> QED BY <1>7, <2>1, <2>2 DEF CursorOK, Running
<1> QED BY Zenon, <1>1, <1>2, <1>4, <1>6, <1>8, <1>9 DEF SubInv

\* Nothing that the invariant is about changes.
LEMMA SubUnchanged ==
    ASSUME SubInv, OnlySub, UNCHANGED <<heads, sub, cursor, since, txPool, dropped>>
    PROVE  SubInv'
<1>1. FixedClaims' = FixedClaims
    BY Zenon DEF OnlySub, FixedClaims, FixedEvents, ClaimsOf, Parses, EthereumEventToEthBridgeClaim,
           EthereumToFurynet
<1>2. VotesOK'
    BY Zenon, <1>1 DEF SubInv, OnlySub, VotesOK, VotesFixed, Finalized, Success
<1>3. AllHandledStay
    BY Zenon, HandledSame DEF OnlySub
<1>4. ChainOK' /\ PropheciesOK' /\ HeadsOK' /\ SubOK' /\ Keeps /\ ChainOK /\ SubOK
    BY SetupAssumption DEF SubInv, OnlySub, ChainOK, PropheciesOK, HeadsOK, SubOK, Keeps
<1>5. \A v \in Validators : CursorOK(v)'
    BY Zenon, <1>3, <1>4, CursorStays DEF SubInv
<1> QED BY Zenon, <1>2, <1>4, <1>5 DEF SubInv

\* Every step of the goroutines, the operators and Furynet's blocks.
LEMMA SubNextKeeps ==
    ASSUME SubInv, SubNext
    PROVE  SubInv'
<1>1. ASSUME NEW v \in Validators, EthereumRelayer(v) PROVE SubInv'
    BY Zenon, <1>1, NewHeadKeeps, RelayKeeps, PutKeeps DEF EthereumRelayer
<1>2. ASSUME NEW v \in Validators, BroadcastTimeout(v) PROVE SubInv'
    BY Zenon, <1>2, TimeoutKeeps
<1>3. ASSUME NEW v \in Validators, LostSubscription(v) PROVE SubInv'
    BY Zenon, <1>3, StopKeeps DEF LostSubscription
<1>4. ASSUME NEW tx \in txPool, DeliverTx(tx) PROVE SubInv'
    BY Zenon, <1>4, DeliverTxKeeps
<1>5. ASSUME NEW v \in setup.operators, Replay(v) PROVE SubInv'
    BY Zenon, <1>5, ReplayKeeps
<1> QED BY Zenon, <1>1, <1>2, <1>3, <1>4, <1>5 DEF SubNext

\* What the invariant says about claims and cursors.
LEMMA SubInvMeans == SubInv => ClaimsAreFinal /\ BehindCursorHandled
<1> SUFFICES ASSUME SubInv PROVE ClaimsAreFinal /\ BehindCursorHandled
    BY Zenon
<1>1. ASSUME NEW id \in Prophecies, NEW v \in Validators, NEW c \in Claims,
             prophecy[id].validatorClaims[v] = c
      PROVE  \E n \in 1 .. highest - Trailing : \E e \in ethChain[n] :
                 EthereumEventToEthBridgeClaim(e) = [id |-> id, content |-> c]
    <2>1. PICK d \in FixedClaims : d = [id |-> id, content |-> c]
        BY Zenon, <1>1 DEF SubInv, VotesOK, VotesFixed, Finalized
    <2>2. PICK e \in FixedEvents : d = EthereumEventToEthBridgeClaim(e)
        BY Zenon, FixedClaimIs
    <2> QED BY Zenon, <2>1, <2>2 DEF FixedEvents
<1>2. ASSUME NEW v \in Validators, NEW c \in Behind(v)
      PROVE  Voiced(v, c) \/ c \in dropped[v]
    BY Zenon DEF SubInv, CursorOK, RangeHandled, Behind, Handled
<1> QED BY Zenon, <1>1, <1>2 DEF ClaimsAreFinal, BehindCursorHandled

-----------------------------------------------------------------------------
(***************************************************************************)
(* What is paid.  An event is paid when its prophecy succeeded with its    *)
(* own claim; the coins minted are those of the events that come to be     *)
(* paid, although CreateEthBridgeClaim mints what the prophecy's final     *)
(* claim says and not what the message says.                               *)
(***************************************************************************)
Paying(e) == EthereumEventToEthBridgeClaim(e).content
PaidFor(e) == prophecy[e.id].status = Success(Paying(e))
PaidEvents(d) == {e \in FixedEvents : Parses(e) /\ PaidFor(e) /\ ClaimDenom(Paying(e)) = d}
Values == [e \in LogEvents |-> e.value]
Value(S) == SumFunctionOnSet(Values, S)

\* The value of some logs.
LEMMA ValueIs ==
    ASSUME NEW S \in SUBSET LogEvents
    PROVE  IsFiniteSet(S) /\ Value(S) \in Nat /\ \A e \in S : Values[e] \in Int
<1>1. IsFiniteSet(S) /\ \A e \in S : Values[e] \in Nat
    BY Zenon, LogAssumption, FS_Subset DEF Values
<1> QED BY Zenon, IntegersClosed, <1>1, SumNat DEF Value

\* The value of logs of two sets.
LEMMA ValueUnion ==
    ASSUME NEW S \in SUBSET LogEvents, NEW R \in SUBSET LogEvents, S \cap R = {}
    PROVE  Value(S \cup R) = Value(S) + Value(R)
<1>1. IsFiniteSet(S) /\ IsFiniteSet(R) /\ \A e \in S \cup R : Values[e] \in Int
    BY Zenon, ValueIs
<1> QED BY Zenon, <1>1, SumUnion DEF Value

\* A message that decides its prophecy decides it for its own claim.
LEMMA DecidedForOwn ==
    ASSUME ChainOK, PropheciesOK, VotesOK, PropheciesOK', VotesOK', FixedClaims' = FixedClaims,
           NEW v \in Validators, NEW claims \in SUBSET FixedClaims, NEW status,
           CreateEthBridgeClaims(v, claims, status), NEW c \in claims
    PROVE  /\ prophecy'[c.id].status = status[c] /\ prophecy[c.id].status.text = "PENDING"
           /\ status[c].text = "SUCCESS" => status[c] = Success(c.content)
<1>1. c \in FixedClaims /\ c.id \in Prophecies /\ c.content \in Claims
    BY Zenon, FixedClaimIs
<1>2. /\ \A id \in Prophecies : (\A d \in claims : d.id # id) => prophecy'[id] = prophecy[id]
      /\ \A d \in claims :
             /\ MayClaim(v, d.id)
             /\ status[d] \in processCompletion(Voted(v, d))
             /\ prophecy'[d.id] = [Voted(v, d) EXCEPT !.status = status[d]]
      /\ prophecy' \in [Prophecies -> ProphecyType]
    BY ONLY Zenon, Accepted, ChainOK, PropheciesOK, v \in Validators, claims \in SUBSET FixedClaims,
            CreateEthBridgeClaims(v, claims, status)
<1>3. VotesFixed(prophecy[c.id], c.id)
    BY Zenon, <1>1 DEF VotesOK
<1>4. prophecy[c.id].status.text = "PENDING"
    BY Zenon, <1>2 DEF MayClaim
<1>5. prophecy'[c.id].status = status[c]
    <2>1. PICK p \in ProphecyType, x \in Claims : p = prophecy[c.id] /\ x = c.content
        BY Zenon, <1>1 DEF PropheciesOK
    <2>2. PICK s \in processCompletion(Voted(v, c)) : s = status[c]
        BY Zenon, <1>2
    <2>3. PICK q : q = [Voted(v, c) EXCEPT !.status = s]
        BY Zenon
    <2>4. s \in processCompletion(AddClaim(p, v, x)) /\ q = Outcome(p, v, x, s)
        BY Zenon, <2>1, <2>3 DEF Voted, Outcome
    <2>5. /\ q.validatorClaims = [p.validatorClaims EXCEPT ![v] = x]
          /\ q.claimValidators = [p.claimValidators EXCEPT ![x] = Append(@, v)]
          /\ q.status = s
          /\ OnlyVoted(p, q)
        BY ONLY <2>4, OutcomeIs, p \in ProphecyType, x \in Claims, v \in Validators
    <2> QED BY Zenon, <1>2, <2>2, <2>3, <2>5
<1>6. ASSUME status[c].text = "SUCCESS"
      PROVE  status[c] = Success(c.content)
    <2>1. prophecy'[c.id].status \in Statuses
        BY Zenon, <1>1 DEF PropheciesOK, ProphecyType
    <2>2. PICK x \in Claims : status[c] = Success(x)
        BY <1>5, <1>6, <2>1 DEF Statuses, Pending, Failed
    <2>3. Finalized(c.id, x)'
        BY Zenon, <1>1, <1>5, <2>2 DEF VotesOK, VotesFixed, Success
    <2>4. [id |-> c.id, content |-> x] \in FixedClaims
        BY Zenon, <2>3 DEF Finalized
    <2>5. PICK d \in FixedClaims : d = [id |-> c.id, content |-> x]
        BY Zenon, <2>4
    <2>6. c = d
        BY Zenon, <1>1, <2>5, OneClaimEach
    <2> QED BY <2>2, <2>5, <2>6
<1> QED BY Zenon, <1>4, <1>5, <1>6

\* The events that a transaction comes to pay.
NewlyPaid(claims, status, d) ==
    {e \in FixedEvents : /\ Parses(e) /\ ClaimDenom(Paying(e)) = d
                         /\ EthereumEventToEthBridgeClaim(e) \in claims
                         /\ status[EthereumEventToEthBridgeClaim(e)].text = "SUCCESS"}

\* An event whose claim is final and parses is paid when its prophecy is decided for
\* it, and it was not paid before.
LEMMA PaysEvent ==
    ASSUME ChainOK, PropheciesOK, VotesOK, PropheciesOK', VotesOK', FixedClaims' = FixedClaims,
           NEW v \in Validators, NEW claims \in SUBSET FixedClaims, NEW status,
           CreateEthBridgeClaims(v, claims, status), NEW e \in FixedEvents, Parses(e)
    PROVE  IF EthereumEventToEthBridgeClaim(e) \in claims
           THEN /\ ~PaidFor(e)
                /\ prophecy'[e.id].status = Success(Paying(e))
                       <=> status[EthereumEventToEthBridgeClaim(e)].text = "SUCCESS"
           ELSE prophecy'[e.id] = prophecy[e.id]
<1>1. PICK c \in FixedClaims : c = EthereumEventToEthBridgeClaim(e)
    BY Zenon DEF FixedClaims, ClaimsOf
<1>2. c.id = e.id /\ c.content = Paying(e) /\ c.id \in Prophecies
    BY Zenon, <1>1, FixedClaimIs DEF Paying, EthereumEventToEthBridgeClaim
<1>3. CASE c \in claims
    <2>1. /\ prophecy'[c.id].status = status[c] /\ prophecy[c.id].status.text = "PENDING"
          /\ status[c].text = "SUCCESS" => status[c] = Success(c.content)
        BY Zenon, <1>3, DecidedForOwn
    <2>2. \A x : Success(x).text = "SUCCESS"
        BY Zenon DEF Success
    <2>3. ~PaidFor(e)
        BY Zenon, <1>2, <2>1, <2>2 DEF PaidFor
    <2>4. prophecy'[e.id].status = Success(Paying(e)) <=> status[c].text = "SUCCESS"
        BY Zenon, <1>2, <2>1, <2>2
    <2> QED BY Zenon, <1>1, <1>3, <2>3, <2>4
<1>4. CASE c \notin claims
    <2>1. \A d \in claims : d.id # c.id
        BY Zenon, <1>4, OneClaimEach
    <2>2. /\ \A id \in Prophecies : (\A d \in claims : d.id # id) => prophecy'[id] = prophecy[id]
          /\ \A d \in claims :
                 /\ MayClaim(v, d.id)
                 /\ status[d] \in processCompletion(Voted(v, d))
                 /\ prophecy'[d.id] = [Voted(v, d) EXCEPT !.status = status[d]]
          /\ prophecy' \in [Prophecies -> ProphecyType]
        BY ONLY Zenon, Accepted, ChainOK, PropheciesOK, v \in Validators, claims \in SUBSET FixedClaims,
                CreateEthBridgeClaims(v, claims, status)
    <2> QED BY Zenon, <1>1, <1>2, <1>4, <2>1, <2>2
<1> QED BY Zenon, <1>3, <1>4

\* The events of a denom that are paid afterwards are those paid before and the
\* newly paid.
LEMMA PaysEvents ==
    ASSUME ChainOK, PropheciesOK, VotesOK, PropheciesOK', VotesOK',
           FixedEvents' = FixedEvents, FixedClaims' = FixedClaims,
           NEW v \in Validators, NEW claims \in SUBSET FixedClaims, NEW status,
           CreateEthBridgeClaims(v, claims, status), NEW d
    PROVE  /\ PaidEvents(d)' = PaidEvents(d) \cup NewlyPaid(claims, status, d)
           /\ PaidEvents(d) \cap NewlyPaid(claims, status, d) = {}
<1> DEFINE of(e) == EthereumEventToEthBridgeClaim(e)
<1>1. \A e \in FixedEvents : Parses(e) =>
          IF of(e) \in claims
          THEN ~PaidFor(e) /\ (prophecy'[e.id].status = Success(Paying(e)) <=> status[of(e)].text = "SUCCESS")
          ELSE prophecy'[e.id] = prophecy[e.id]
    BY Zenon, PaysEvent
<1>2. PaidEvents(d)' = {e \in FixedEvents : /\ Parses(e) /\ ClaimDenom(Paying(e)) = d
                                            /\ prophecy'[e.id].status = Success(Paying(e))}
    BY Zenon DEF PaidEvents, PaidFor, Parses, Paying, EthereumEventToEthBridgeClaim, EthereumToFurynet,
           ClaimDenom, Success
<1>3. PaidEvents(d) = {e \in FixedEvents : /\ Parses(e) /\ ClaimDenom(Paying(e)) = d
                                            /\ prophecy[e.id].status = Success(Paying(e))}
    BY Zenon DEF PaidEvents, PaidFor
<1>4. \A e \in FixedEvents : PaidFor(e) <=> prophecy[e.id].status = Success(Paying(e))
    BY Zenon DEF PaidFor
<1> HIDE DEF of
<1>5. NewlyPaid(claims, status, d) = {e \in FixedEvents : /\ Parses(e) /\ ClaimDenom(Paying(e)) = d
                                             /\ of(e) \in claims /\ status[of(e)].text = "SUCCESS"}
    BY Zenon DEF NewlyPaid, of
<1> QED BY Zenon, <1>1, <1>2, <1>3, <1>4, <1>5

\* What a transaction mints of a denom is the value of the events it pays.
LEMMA MintsNewlyPaid ==
    ASSUME ChainOK, PropheciesOK, VotesOK, PropheciesOK', VotesOK', FixedClaims' = FixedClaims,
           NEW v \in Validators, NEW claims \in SUBSET FixedClaims, NEW status,
           CreateEthBridgeClaims(v, claims, status), NEW d \in Denoms
    PROVE  supply'[d] = supply[d] + Value(NewlyPaid(claims, status, d))
<1> DEFINE settled == {c \in claims : status[c].text = "SUCCESS"}
           amounts == [c \in settled |-> status[c].finalClaim.amount]
           S == {c \in settled : ClaimDenom(status[c].finalClaim) = d
                                     /\ status[c].finalClaim.receiver \in Accounts}
           N == NewlyPaid(claims, status, d)
           h == [e \in N |-> EthereumEventToEthBridgeClaim(e)]
<1>1. supply'[d] = supply[d] + SumFunctionOnSet(amounts, S)
    BY Zenon DEF CreateEthBridgeClaims
<1>2. \A c \in settled : status[c].finalClaim = c.content /\ c.content \in Claims
    <2> TAKE c \in settled
    <2>1. /\ prophecy'[c.id].status = status[c] /\ prophecy[c.id].status.text = "PENDING"
          /\ status[c].text = "SUCCESS" => status[c] = Success(c.content)
        BY Zenon, DecidedForOwn
    <2> QED BY <2>1, FixedClaimIs DEF Success
<1>3. N \in SUBSET LogEvents /\ IsFiniteSet(N) /\ \A e \in N : Values[e] = e.value /\ Values[e] \in Int
    <2>1. N \in SUBSET LogEvents
        BY Zenon DEF NewlyPaid, FixedEvents
    <2> QED BY Zenon, <2>1, ValueIs DEF Values
<1>4. \A e \in N : h[e] \in S /\ amounts[h[e]] = Values[e]
    <2> TAKE e \in N
    <2>1. PICK c \in settled : c = EthereumEventToEthBridgeClaim(e) /\ ClaimDenom(Paying(e)) = d
        BY Zenon DEF NewlyPaid
    <2>2. c.content = Paying(e) /\ c.content.amount = e.value
        BY Zenon, <2>1 DEF Paying, EthereumEventToEthBridgeClaim
    <2>3. c.content.receiver \in Accounts
        BY Zenon, <1>2, ContentAssumption
    <2> QED BY Zenon, <1>2, <1>3, <2>1, <2>2, <2>3
<1>5. \A c \in S : \E e \in N : c = h[e]
    <2> TAKE c \in S
    <2>1. c \in FixedClaims /\ c \in claims /\ ClaimDenom(c.content) = d /\ status[c].text = "SUCCESS"
        BY Zenon, <1>2
    <2>2. PICK e \in FixedEvents : Parses(e) /\ c = EthereumEventToEthBridgeClaim(e)
        BY Zenon, <2>1, FixedClaimIs
    <2>3. c.content = Paying(e)
        BY Zenon, <2>2 DEF Paying
    <2>4. e \in N
        BY Zenon, <2>1, <2>2, <2>3 DEF NewlyPaid
    <2> QED BY Zenon, <2>2, <2>4
<1>6. \A e, f \in N : h[e] = h[f] => e = f
    <2> TAKE e, f \in N
    <2> HAVE h[e] = h[f]
    <2>1. e \in FixedEvents /\ f \in FixedEvents /\ e.id = f.id
        BY Zenon DEF NewlyPaid, EthereumEventToEthBridgeClaim
    <2>2. FixedEvents \subseteq LogsOf(ethChain)
        BY SetupAssumption DEF FixedEvents, LogsOf, ChainOK
    <2> QED BY Zenon, <2>1, <2>2 DEF ChainOK, Apart
<1>7. S = {h[e] : e \in N}
    BY Zenon, <1>4, <1>5
<1> HIDE DEF S, N, h, amounts
<1>8. SumFunctionOnSet(amounts, {h[e] : e \in N}) = SumFunctionOnSet(Values, N)
    BY <1>3, <1>4, <1>6, SumImage
<1> QED BY Zenon, <1>1, <1>7, <1>8 DEF Value, N

\* The value of the events of a denom that are paid.
PaidValue(d) == Value(PaidEvents(d))

\* A transaction that is delivered mints the value of the events it pays.
LEMMA DeliverPays ==
    ASSUME SubInv, NEW tx \in txPool, DeliverTx(tx), supply \in [Denoms -> Int], NEW d \in Denoms
    PROVE  supply' \in [Denoms -> Int] /\ supply'[d] - PaidValue(d)' = supply[d] - PaidValue(d)
<1>1. /\ ChainOK /\ PropheciesOK /\ VotesOK
      /\ tx.from \in Validators /\ tx.claims \in SUBSET FixedClaims
    BY Zenon, SetupAssumption DEF SubInv, VotesOK, PropheciesOK
<1>2. SubInv'
    BY Zenon, DeliverTxKeeps
<1>3. ChainOK' /\ PropheciesOK' /\ VotesOK'
    BY Zenon, <1>2 DEF SubInv
<1>4. FixedEvents' = FixedEvents /\ FixedClaims' = FixedClaims
    BY Zenon DEF DeliverTx, ethVars, FixedClaims, FixedEvents, ClaimsOf, Parses,
           EthereumEventToEthBridgeClaim, EthereumToFurynet
<1>5. CASE \E status : CreateEthBridgeClaims(tx.from, tx.claims, status)
    <2>1. PICK status : CreateEthBridgeClaims(tx.from, tx.claims, status)
        BY Zenon, <1>5
    <2>2. PICK v \in Validators, claims \in SUBSET FixedClaims : v = tx.from /\ claims = tx.claims
        BY Zenon, <1>1
    <2>3. CreateEthBridgeClaims(v, claims, status)
        BY Zenon, <2>1, <2>2
    <2>4. \A b \in Denoms :
              /\ PaidEvents(b)' = PaidEvents(b) \cup NewlyPaid(claims, status, b)
              /\ PaidEvents(b) \cap NewlyPaid(claims, status, b) = {}
        BY ONLY Zenon, <1>1, <1>3, <1>4, <2>3, PaysEvents, v \in Validators, claims \in SUBSET FixedClaims
    <2>5. \A b \in Denoms : supply'[b] = supply[b] + Value(NewlyPaid(claims, status, b))
        BY ONLY Zenon, <1>1, <1>3, <1>4, <2>3, MintsNewlyPaid, v \in Validators, claims \in SUBSET FixedClaims
    <2>6. \A b \in Denoms : PaidEvents(b) \in SUBSET LogEvents /\ NewlyPaid(claims, status, b) \in SUBSET LogEvents
        BY Zenon DEF PaidEvents, NewlyPaid, FixedEvents
    <2>7. \A b \in Denoms : Value(PaidEvents(b)) \in Int /\ Value(NewlyPaid(claims, status, b)) \in Int
        BY Zenon, IntegersClosed, <2>6, ValueIs
    <2>8. PaidValue(d)' = PaidValue(d) + Value(NewlyPaid(claims, status, d))
        <3>1. PICK P \in SUBSET LogEvents, N \in SUBSET LogEvents :
                  P = PaidEvents(d) /\ N = NewlyPaid(claims, status, d)
            BY Zenon, <2>6
        <3>2. Value(P \cup N) = Value(P) + Value(N)
            BY Zenon, <2>4, <3>1, ValueUnion
        <3>3. PaidValue(d)' = Value(PaidEvents(d)')
            BY Zenon DEF PaidValue, Value, Values
        <3> QED BY Zenon, <2>4, <3>1, <3>2, <3>3 DEF PaidValue
    <2>9. supply' \in [Denoms -> Int]
        <3>1. PICK g : supply' = [b \in Denoms |-> g[b]]
            <4> DEFINE s0 == supply'
            <4>1. s0 = [b \in Denoms |-> s0[b]]
                BY Zenon, <2>3 DEF CreateEthBridgeClaims
            <4> QED BY Zenon, <4>1
        <3> QED BY <2>5, <2>7, <3>1
    <2> QED BY <2>5, <2>7, <2>8, <2>9 DEF PaidValue
<1>6. CASE UNCHANGED <<prophecy, supply>>
    <2>1. PaidEvents(d)' = PaidEvents(d)
        BY Zenon, <1>4, <1>6 DEF PaidEvents, PaidFor, Parses, Paying, EthereumEventToEthBridgeClaim,
           EthereumToFurynet, ClaimDenom, Success
    <2>2. PaidValue(d)' = PaidValue(d)
        BY Zenon, <2>1 DEF PaidValue, Value, Values
    <2> QED BY Zenon, <1>6, <2>2
<1> QED BY Zenon, <1>5, <1>6 DEF DeliverTx, oracleVars, bankVars

\* A log of the chain that is paid is one that Ethereum can no longer replace, and
\* it could be converted.
LEMMA PaidIsFixed ==
    ASSUME SubInv, NEW e \in LogsOf(ethChain), PaidFor(e)
    PROVE  e \in FixedEvents /\ Parses(e)
<1>1. ChainOK /\ PropheciesOK /\ VotesOK
    BY Zenon DEF SubInv
<1>2. e \in LogEvents /\ e.id \in Prophecies
    BY <1>1, LogAssumption DEF ChainOK, LogsOf
<1>3. prophecy[e.id].status \in Statuses
    BY Zenon, <1>1, <1>2 DEF PropheciesOK, ProphecyType
<1>4. PICK x \in Claims : Success(x) = Success(Paying(e))
    BY <1>3 DEF PaidFor, Statuses, Success, Pending, Failed
<1>5. x = Paying(e)
    BY Zenon, <1>4 DEF Success
<1>6. Finalized(e.id, x)
    BY Zenon, <1>1, <1>2, <1>5 DEF PaidFor, VotesOK, VotesFixed
<1>7. PICK c \in FixedClaims : c.id = e.id
    BY Zenon, <1>6 DEF Finalized
<1>8. PICK f \in FixedEvents : Parses(f) /\ c = EthereumEventToEthBridgeClaim(f)
    BY Zenon, <1>7, FixedClaimIs
<1>9. f.id = e.id
    BY Zenon, <1>7, <1>8 DEF EthereumEventToEthBridgeClaim
<1>10. FixedEvents \subseteq LogsOf(ethChain)
    BY <1>1, SetupAssumption DEF FixedEvents, LogsOf, ChainOK
<1>11. f = e
    BY Zenon, <1>1, <1>9, <1>10 DEF ChainOK, Apart
<1> QED BY Zenon, <1>8, <1>11

\* Blocks that Ethereum adds or replaces pay nothing.
LEMMA EthereumPaysNone ==
    ASSUME SubInv, SubInv', FixedEvents \subseteq FixedEvents', prophecy' = prophecy, NEW d
    PROVE  PaidValue(d)' = PaidValue(d)
<1>1. ChainOK /\ ChainOK' /\ PropheciesOK /\ VotesOK
    BY Zenon DEF SubInv
<1>2. ASSUME NEW e \in FixedEvents'
      PROVE  e \in LogsOf(ethChain')
    <2>1. PICK c \in Seq(SUBSET LogEvents), h \in Nat :
              c = ethChain' /\ h = highest' /\ h - Trailing <= Len(c)
        BY Zenon, <1>1 DEF ChainOK
    <2>2. PICK n \in 1 .. h - Trailing : e \in c[n]
        BY Zenon, <2>1 DEF FixedEvents
    <2>3. n \in DOMAIN c
        <3>1. Trailing \in Nat
            BY Zenon, SetupAssumption
        <3>2. Len(c) \in Nat /\ DOMAIN c = 1 .. Len(c)
            OBVIOUS
        <3>3. n \in Int /\ 1 <= n /\ n <= h - Trailing
            BY <3>1
        <3>4. h - Trailing <= Len(c)
            BY Zenon, <2>1
        <3>5. n <= Len(c)
            BY ONLY <3>1, <3>2, <3>3, <3>4, h \in Nat
        <3> QED BY <3>2, <3>3, <3>5
    <2> QED BY Zenon, <2>1, <2>2, <2>3 DEF LogsOf
<1>3. ASSUME NEW e \in FixedEvents', prophecy[e.id].status = Success(Paying(e))
      PROVE  e \in FixedEvents
    <2>1. e \in LogEvents /\ e.id \in Prophecies
        BY Zenon, LogAssumption DEF FixedEvents
    <2>2. prophecy[e.id].status \in Statuses
        BY Zenon, <1>1, <2>1 DEF PropheciesOK, ProphecyType
    <2>3. PICK x \in Claims : Success(x) = Success(Paying(e))
        BY <1>3, <2>2 DEF Statuses, Success, Pending, Failed
    <2>4. x = Paying(e)
        BY Zenon, <2>3 DEF Success
    <2>5. Finalized(e.id, x)
        BY Zenon, <1>1, <1>3, <2>1, <2>4 DEF VotesOK, VotesFixed
    <2>6. PICK c \in FixedClaims : c.id = e.id
        BY Zenon, <2>5 DEF Finalized
    <2>7. PICK f \in FixedEvents : Parses(f) /\ c = EthereumEventToEthBridgeClaim(f)
        BY Zenon, <2>6, FixedClaimIs
    <2>8. f.id = e.id
        BY Zenon, <2>6, <2>7 DEF EthereumEventToEthBridgeClaim
    <2>9. f = e
        BY Zenon, <1>1, <1>2, <2>8 DEF ChainOK, Apart
    <2> QED BY Zenon, <2>9
<1>4. PaidEvents(d)' = PaidEvents(d)
    <2>1. PaidEvents(d)' = {e \in FixedEvents' : /\ Parses(e) /\ ClaimDenom(Paying(e)) = d
                                                 /\ prophecy[e.id].status = Success(Paying(e))}
        BY Zenon DEF PaidEvents, PaidFor, Parses, Paying, EthereumEventToEthBridgeClaim, EthereumToFurynet,
               ClaimDenom, Success
    <2>2. PaidEvents(d) = {e \in FixedEvents : /\ Parses(e) /\ ClaimDenom(Paying(e)) = d
                                               /\ prophecy[e.id].status = Success(Paying(e))}
        BY Zenon DEF PaidEvents, PaidFor
    <2> QED BY Zenon, <1>3, <2>1, <2>2
<1> QED BY Zenon, <1>4 DEF PaidValue, Value, Values

=============================================================================
