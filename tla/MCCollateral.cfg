CONSTANTS
    Deposits = {1, 2, 3}
    DepositAmount <- DepositAmounts
    OrderIds <- TwoOrders
    OrderAmount <- OrderAmounts
    Hops = 2
    Fees = {0, 1}
    MaxNotices = 2
    MaxConfirms = 1
    Cancels = {"o1", "o2"}
    BridgeErrors = TRUE
    FeeErrors = TRUE
SPECIFICATION Spec
INVARIANTS TypeOK AccountsAgree
PROPERTIES SpendsOwn
CHECK_DEADLOCK FALSE
