SPECIFICATION GrowSpec
CONSTANTS
    Validators = {v1, v2, v3, v4}
    Prophecies = {id1}
    Claims = {x, y}
    NoClaim = NoClaim
    MaxPower = 2
    ConsensusNum = 7
    ConsensusDen = 10
SYMMETRY ValidatorSymmetry
INVARIANTS
    VotesConsistent
    CompletionDeterministic
    SuccessHasWhitelistedQuorum
    FailureIsHopeless
PROPERTY DecidedIsFinal
