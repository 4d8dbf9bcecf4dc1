CONSTANTS
    Orders = {o1, o2}
    Assets = {"a", "b"}
    Weight <- EqualWeights
    Collateral = 4
    Slots = {1, 2}
    MaxBatchSize = 2
    MaxOrderVolley = 3
    MaxVolley = 100
    MinAssetVolley = 1
    VolleyStep = 3
    MaxTotalVolley = 100
    MinTotalVolley = 1
    Liquidity = {100}
    ZeroThreshold = 1
    MintPct = 50
    FillPct = 90
    CancelBy = {}
    Unpriced = TRUE
    Unsent <- AllSent
    MaxShort = 1
SPECIFICATION Spec
INVARIANTS TypeOK LotsConserved OrdersHeld FillsShared CollateralConserved
CHECK_DEADLOCK FALSE
