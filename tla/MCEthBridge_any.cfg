SPECIFICATION BridgeSpec
CONSTANTS
    Validators = {v1, v2}
    id1 = id1
    Prophecies = {id1}
    Claims <- MCFewClaims
    NoClaim = NoClaim
    MaxPower = 1
    ConsensusNum = 7
    ConsensusDen = 10
    Accounts = {"alice", "bob", "module"}
    Module = "module"
    Blocked = {"module"}
    NoAccount = NoAccount
    Denoms <- MCDenoms
    Ceth = "ceth"
    Pegged <- MCPegged
    EthReceivers = {e1}
    Fees = {1}
    GenesisBalance <- MCGenesisBalance
    GenesisSupply <- MCGenesisSupply
    GenesisPeggy = {}
INVARIANTS
    SuccessIsPayable
    ModuleHoldsOnlyFees
PROPERTIES
    ImplementsLedger
SYMMETRY ValidatorSymmetry
