CONSTANTS
    Orders = {o1, o2}
    Assets = {"a", "b"}
    Weight <- EqualWeights
    Collateral = 4
    Slots = {1, 2}
    MaxBatchSize = 2
    MaxOrderVolley = 4
    MaxVolley = 100
    MinAssetVolley = 1
    VolleyStep = 3
    MaxTotalVolley = 9
    MinTotalVolley = 4
    Liquidity = {100, 0}
    ZeroThreshold = 1
    MintPct = 50
    FillPct = 90
    CancelBy = {o2}
    Unpriced = FALSE
    Unsent <- SomeUnsent
    MaxShort = 1
SPECIFICATION Spec
INVARIANTS MintInvoiced
CHECK_DEADLOCK FALSE
