SPECIFICATION Spec
CONSTANTS
    Validators = {v1, v2, v3}
    Prophecies = {id1}
    Claims = {x, y}
    NoClaim = NoClaim
    MaxPower = 1
    ConsensusNum = 7
    ConsensusDen = 10
SYMMETRY ValidatorSymmetry
INVARIANT CompletionDeterministic
