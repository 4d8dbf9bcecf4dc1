CONSTANTS
    Orders = {o1, o2}
    Assets = {"a", "b"}
    Weight <- EqualWeights
    Collateral = 4
    Slots = {1, 2}
    MaxBatchSize = 2
    MaxOrderVolley = 4
    MaxVolley = 100
    MinAssetVolley = 1
    VolleyStep = 3
    MaxTotalVolley = 100
    MinTotalVolley = 1
    Liquidity = {100}
    ZeroThreshold = 1
    MintPct = 50
    FillPct = 90
    CancelBy = {}
    Unpriced = FALSE
    Unsent <- AllSent
    MaxShort = 0
SPECIFICATION FairSpec
PROPERTIES OrdersAnswered
CHECK_DEADLOCK FALSE
