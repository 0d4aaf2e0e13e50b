CONSTANTS
    Native = "fury"
    AssetOrder <- MCAssetOrder
    Providers = {"p", "q"}
    PoolThreshold = 5
    FeeDen = 10
    DecUnit = 20
    Setups <- MCSetups
    TraderOrder <- MCTraderOrder
    RateDen = 4
    PolicyMsgs <- MCPolicies
    RateInputs = {0, 1}
SPECIFICATION MarginSpec
INVARIANTS
    MarginTypeOK
    OpenCountAgrees
    LiabilitiesAgree
    BooksBalance
    UnlocksCovered
    MintedWithinGrants
    AsymmetricAddsBalance
    PmtpStoresAgree
PROPERTIES
    RemovalsWereUnlocked
    RemovalsPayShare
    LossesAreRecorded
    HaltsHaveCauses
    UnitsAgree
CHECK_DEADLOCK FALSE
