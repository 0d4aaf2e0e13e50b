SPECIFICATION RelayerSpec
CONSTANTS
    v1 = v1
    v2 = v2
    u1 = u1
    Validators = {v1, v2}
    Prophecies = {1, 2}
    Claims <- MCClaims
    NoClaim = NoClaim
    MaxPower = 2
    ConsensusNum = 7
    ConsensusDen = 10
    Accounts = {"alice", "bob", "module"}
    Module = "module"
    Blocked = {"module"}
    NoAccount = NoAccount
    Denoms <- MCDenoms
    Ceth = "ceth"
    Pegged <- MCPegged
    EthReceivers = {u1}
    Fees = {1}
    GenesisBalance <- MCGenesisBalance
    GenesisSupply <- MCGenesisSupply
    GenesisPeggy = {"ceth"}
    LogEvents <- MCLogEvents
    Lower <- MCLower
    ToLower <- MCLower
    SymbolTable <- MCSymbolTable
    Trailing = 1
    FirstCursor <- MCFirstCursor
    Setups <- MCSetups
    FaultKinds = {"reorg", "crash", "request", "lost", "pause"}
    Zero = Zero
    Tokens = {}
    Existing = {}
    Symbols <- MCSymbols
    SymbolOf <- MCSymbolOf
    Unset = Unset
    Users = {u1}
    Recipients = {}
    GenesisHeld <- MCGenesisHeld
    MaxHeld = 1
    MaxNonce = 0
    MaxCount = 2
    EthProphecies <- MCEthProphecies
    Threshold = 60
    InitialPowers <- MCPowers
    FuryMessages <- MCMessages
    Unprefixed <- MCUnprefixed
INVARIANTS
    ClaimsAreFinal
    BehindCursorHandled
    FuryBehindCursorHandled
    EnoughMeansPaid
    Backed
PROPERTIES
    EventuallyRelayed
    EventuallyPaidOnEthereum
CHECK_DEADLOCK FALSE
