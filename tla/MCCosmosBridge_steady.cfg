SPECIFICATION SteadySpec
CONSTANTS
    v1 = v1
    v2 = v2
    v3 = v3
    u1 = u1
    T1 = T1
    T2 = T2
    E1 = E1
    Zero = Zero
    Unset = Unset
    Tokens <- TwoTokens
    Existing = {E1}
    Symbols <- SymbolSet
    Lower <- LowerMap
    SymbolOf <- CaseSymbols
    Users = {u1}
    Recipients <- AnyAddress
    GenesisHeld <- NothingHeld
    MaxHeld = 1
    MaxNonce = 1
    Validators = {v1, v2}
    EthProphecies <- BurnUsdtLockFury
    Threshold = 60
    InitialPowers <- UnitPowers
    MaxPower = 1
    MaxCount = 2
INVARIANTS
    PaidOnce
    PaidInOwnAsset
    LockedIsRetrievable
PROPERTIES
    TotalsMatch
SYMMETRY ValidatorSymmetry
