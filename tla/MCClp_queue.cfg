CONSTANTS
    Native = "fury"
    AssetOrder <- MCAssetOrder
    Providers = {"p", "q"}
    PoolThreshold = 5
    FeeDen = 10
    DecUnit = 20
    Setups <- MarginSetups
    PolicyMsgs <- MCPolicies
    RateInputs = {0, 1}
SPECIFICATION ClpSpec
INVARIANT QueuedRemovalsAreStored
CHECK_DEADLOCK FALSE
