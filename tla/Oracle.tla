------------------------------- MODULE Oracle -------------------------------
(***************************************************************************)
(* x/oracle: validators on a whitelist vote on the content of prophecies   *)
(* (events seen on another chain).  A prophecy is decided when the claims  *)
(* on one content reach the consensus ratio of the whitelisted bonded      *)
(* power, and fails when no content can reach it any more.                 *)
(*                                                                         *)
(* Staking is the SDK's: power[v] is the validator's place in the power    *)
(* index, which transactions change at once, and bonded is the set of      *)
(* validators whose status is Bonded, which changes only at the end of a   *)
(* block.  A handler that returns an error writes nothing and is not an    *)
(* action.                                                                 *)
(***************************************************************************)
EXTENDS BridgeValidators

CONSTANTS
    Prophecies,     \* prophecy ids
    Claims,         \* claim contents
    NoClaim,        \* the empty string: no claim recorded
    ConsensusNum,   \* consensusNeeded is ConsensusNum / ConsensusDen
    ConsensusDen

ASSUME ClaimsAssumption == IsFiniteSet(Claims) /\ NoClaim \notin Claims
\* NewKeeper panics unless 0 < consensusNeeded <= 1.
ASSUME ConsensusAssumption ==
    /\ ConsensusNum \in Nat \ {0}
    /\ ConsensusDen \in Nat \ {0}
    /\ ConsensusNum <= ConsensusDen

VARIABLES
    prophecy,   \* prophecy store; an id with no claims is one never stored
    whitelist,  \* the oracle whitelist
    power,      \* external: staking power index
    bonded      \* external: validators with status Bonded

oracleVars == <<prophecy, whitelist, power, bonded>>

Pending == [text |-> "PENDING", finalClaim |-> NoClaim]
Failed == [text |-> "FAILED", finalClaim |-> NoClaim]
Success(c) == [text |-> "SUCCESS", finalClaim |-> c]

Statuses == {Pending, Failed} \cup {Success(c) : c \in Claims}

NewProphecy ==
    [status          |-> Pending,
     claimValidators |-> [c \in Claims |-> <<>>],
     validatorClaims |-> [v \in Validators |-> NoClaim]]

ProphecyType ==
    [status          : Statuses,
     claimValidators : [Claims -> Seq(Validators)],
     validatorClaims : [Validators -> Claims \cup {NoClaim}]]

-----------------------------------------------------------------------------
(***************************************************************************)
(* Power.  A sum of consensus powers is the number of units of power in    *)
(* the set: unit u of validator v is the pair <<v, u>>.  Votes are counted *)
(* per entry of the list, so a validator listed twice would count twice.   *)
(***************************************************************************)

HasUnit(v, u) == v \in bonded /\ u <= power[v]

ValidatorUnits(vals) == {x \in vals \X (1 .. MaxPower) : HasUnit(x[1], x[2])}
VoteUnits(votes) ==
    {x \in (1 .. Len(votes)) \X (1 .. MaxPower) : HasUnit(votes[x[1]], x[2])}

TotalPower == Cardinality(ValidatorUnits(whitelist))
ClaimPower(p, c) == Cardinality(VoteUnits(p.claimValidators[c]))

\* The contents that are keys of the ClaimValidators map.
ClaimsOn(p) == {c \in Claims : p.claimValidators[c] # <<>>}

\* Units voting for any content.
ClaimedUnits(p) ==
    UNION {{<<c, x>> : x \in VoteUnits(p.claimValidators[c])} : c \in Claims}

TotalClaimsPower(p) == Cardinality(ClaimedUnits(p))

\* The loop ranges over a Go map, so of several highest claims any may win.
HighestClaims(p) ==
    {c \in ClaimsOn(p) : \A d \in ClaimsOn(p) : ClaimPower(p, d) <= ClaimPower(p, c)}

\* Mutant: the total counts only the validators that have claimed.
FindHighestClaimOfClaimed(p) ==
    {[claim |-> c, power |-> ClaimPower(p, c),
      claimed |-> TotalClaimsPower(p), total |-> TotalClaimsPower(p)] : c \in HighestClaims(p)}

\* FindHighestClaim: the possible results.
FindHighestClaim(p) ==
    {[claim |-> c, power |-> ClaimPower(p, c),
      claimed |-> TotalClaimsPower(p), total |-> TotalPower] : c \in HighestClaims(p)}

\* Mutant: half of the power is enough.
RatioReachedByHalf(n, total) ==
    IF total = 0 THEN n > 0 ELSE 2 * n >= total

(***************************************************************************)
(* float64(n) / float64(total) compared with consensusNeeded.  Division by *)
(* zero gives +Inf, -Inf or NaN, and every comparison with NaN is false.   *)
(***************************************************************************)
RatioReached(n, total) ==
    IF total = 0 THEN n > 0 ELSE ConsensusDen * n >= ConsensusNum * total

RatioMissed(n, total) ==
    IF total = 0 THEN n < 0 ELSE ConsensusDen * n < ConsensusNum * total

\* Mutant: the power of the leading claim is not added to what remains.
processCompletionFailsEarly(p) ==
    {IF RatioReached(h.power, h.total) THEN Success(h.claim)
     ELSE IF RatioMissed(h.total - h.claimed, h.total) THEN Failed
     ELSE p.status : h \in FindHighestClaim(p)}

\* processCompletion: the possible statuses of a pending prophecy p.
processCompletion(p) ==
    {IF RatioReached(h.power, h.total) THEN Success(h.claim)
     ELSE IF RatioMissed(h.power + (h.total - h.claimed), h.total) THEN Failed
     ELSE p.status : h \in FindHighestClaim(p)}

AddClaim(p, v, c) ==
    [status          |-> p.status,
     claimValidators |-> [p.claimValidators EXCEPT ![c] = Append(@, v)],
     validatorClaims |-> [p.validatorClaims EXCEPT ![v] = c]]

\* Mutant: the duplicate check reads the wrong map, so a validator votes twice.
MayClaimTwice(v, id) ==
    /\ v \in whitelist
    /\ v \in bonded
    /\ prophecy[id].status.text = "PENDING"

\* Mutant: a decided prophecy accepts late claims.
MayClaimLate(v, id) ==
    /\ v \in whitelist
    /\ v \in bonded
    /\ prophecy[id].validatorClaims[v] = NoClaim

\* The checks of ProcessClaim before the claim is added.
MayClaim(v, id) ==
    /\ v \in whitelist
    /\ v \in bonded
    /\ prophecy[id].status.text = "PENDING"
    /\ prophecy[id].validatorClaims[v] = NoClaim

ProcessClaim(v, id, c) ==
    /\ MayClaim(v, id)
    /\ LET p == AddClaim(prophecy[id], v, c)
       IN \E s \in processCompletion(p) :
              prophecy' = [prophecy EXCEPT ![id] = [p EXCEPT !.status = s]]
    /\ UNCHANGED <<whitelist, power, bonded>>

-----------------------------------------------------------------------------
(***************************************************************************)
(* ProcessUpdateWhiteListValidator, sent by the oracle's admin account.    *)
(***************************************************************************)
AddOracleWhiteList(v) ==
    /\ whitelist' = whitelist \cup {v}
    /\ UNCHANGED <<prophecy, power, bonded>>

RemoveOracleWhiteList(v) ==
    /\ whitelist' = whitelist \ {v}
    /\ UNCHANGED <<prophecy, power, bonded>>

(***************************************************************************)
(* External: staking.  Delegations, slashing and jailing move a validator  *)
(* in the power index at once; the status follows when the block ends.     *)
(***************************************************************************)
ChangePower(v, n) ==
    /\ power' = [power EXCEPT ![v] = n]
    /\ UNCHANGED <<prophecy, whitelist, bonded>>

StakingEndBlock ==
    /\ bonded' = {v \in Validators : power[v] > 0}
    /\ UNCHANGED <<prophecy, whitelist, power>>

Claim == \E v \in Validators, id \in Prophecies, c \in Claims : ProcessClaim(v, id, c)
Staking == StakingEndBlock \/ \E v \in Validators, n \in 0 .. MaxPower : ChangePower(v, n)

\* Genesis: any whitelist, and validators bonded in the genesis block.
Init ==
    /\ prophecy = [id \in Prophecies |-> NewProphecy]
    /\ whitelist \in SUBSET Validators
    /\ power \in [Validators -> 0 .. MaxPower]
    /\ bonded = {v \in Validators : power[v] > 0}

\* Every operation.
Next ==
    \/ Claim
    \/ Staking
    \/ \E v \in Validators : AddOracleWhiteList(v) \/ RemoveOracleWhiteList(v)

\* The admin only ever adds validators.
GrowNext ==
    \/ Claim
    \/ Staking
    \/ \E v \in Validators : AddOracleWhiteList(v)

Spec == Init /\ [][Next]_oracleVars
GrowSpec == Init /\ [][GrowNext]_oracleVars

-----------------------------------------------------------------------------
(***************************************************************************)
(* Properties.                                                             *)
(***************************************************************************)

\* The store holds well-formed prophecies, and staking well-formed powers.
TypeOK ==
    /\ prophecy \in [Prophecies -> ProphecyType]
    /\ whitelist \in SUBSET Validators
    /\ power \in [Validators -> 0 .. MaxPower]
    /\ bonded \in SUBSET Validators

Consistent(p) ==
    \A c \in Claims :
        /\ \A v \in Validators :
               p.validatorClaims[v] = c
                   <=> \E i \in DOMAIN p.claimValidators[c] : p.claimValidators[c][i] = v
        /\ \A i, j \in DOMAIN p.claimValidators[c] :
               p.claimValidators[c][i] = p.claimValidators[c][j] => i = j

\* The two maps of a prophecy agree entry by entry, and no list names a
\* validator twice: AddClaim keeps them inverse to each other, so a vote that
\* FindHighestClaim counts was cast once, for one content.
VotesConsistent == \A id \in Prophecies : Consistent(prophecy[id])

\* A prophecy that has been decided keeps its status, its final claim and its
\* votes for ever, whatever later claims, whitelist updates and staking do.
DecidedIsFinal ==
    [][\A id \in Prophecies :
          prophecy[id].status.text # "PENDING" => prophecy'[id] = prophecy[id]]_oracleVars

\* The prophecies that an admissible claim would produce.
Completions ==
    {<<AddClaim(prophecy[x[1]], x[2], x[3]), processCompletion(AddClaim(prophecy[x[1]], x[2], x[3]))>> :
        x \in {y \in Prophecies \X Validators \X Claims : MayClaim(y[2], y[1])}}

\* Whatever claim comes next, every node computes the same status for it:
\* the order in which FindHighestClaim ranges over the Go map never matters.
CompletionDeterministic ==
    \A r \in Completions : \A s, t \in r[2] : s = t

Supporters(p, c) == {v \in Validators : p.validatorClaims[v] = c}
QuorumOf(vals) == RatioReached(Cardinality(ValidatorUnits(vals \cap whitelist)), TotalPower)

\* A claim that decides a prophecy has the consensus ratio of the whitelisted
\* bonded power behind the final content, counting whitelisted voters only.
SuccessHasWhitelistedQuorum ==
    \A r \in Completions : \A c \in Claims : Success(c) \in r[2] => QuorumOf(Supporters(r[1], c))

\* A claim that fails a prophecy does so only when no content could reach the
\* consensus ratio even if every whitelisted validator yet to vote voted for it.
FailureIsHopeless ==
    \A r \in Completions :
        Failed \in r[2]
            => \A c \in Claims : ~QuorumOf(Supporters(r[1], c) \cup Supporters(r[1], NoClaim))

\* As long as nobody is taken off the whitelist, every vote of every prophecy,
\* decided or not, is the vote of a validator that is on it now.
VotersWhitelisted ==
    \A id \in Prophecies, v \in Validators :
        prophecy[id].validatorClaims[v] # NoClaim => v \in whitelist

=============================================================================
