SPECIFICATION Spec
CONSTANTS
    Orders = {o1, o2}
    Assets = {"a", "b"}
    Baskets <- OneAndTwo
    Amounts = {10, 60}
    Carried = {0, 5}
    Books <- AskBooks
    Live = {0, 70, 95}
    PriceThreshold <- Half
    MaxLevels = 2
    FeeFactor <- Fee
    MaxOrderVolley <- Forty
    MaxVolley <- Fifty
    MinAssetVolley <- Four
    VolleyStep <- Three
    MaxTotalVolley <- Hundred
    MinTotalVolley <- Ten
INVARIANTS BatchCapped
CHECK_DEADLOCK FALSE
