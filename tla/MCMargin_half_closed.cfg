CONSTANTS
    Native = "fury"
    AssetOrder <- MCAssetOrder
    Providers = {"p", "q"}
    PoolThreshold = 5
    FeeDen = 10
    DecUnit = 20
    Setups <- HalfClosed
    TraderOrder <- MCTraderOrder
    RateDen = 4
    PolicyMsgs <- MCPolicies
    RateInputs = {0, 1}
SPECIFICATION MarginSpec
INVARIANTS
    BalanceModuleAccountCheck
CHECK_DEADLOCK FALSE
