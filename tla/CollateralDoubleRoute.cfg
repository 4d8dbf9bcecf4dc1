CONSTANTS
    Deposits = {1, 2, 3}
    DepositAmount <- DepositAmounts
    OrderIds <- ThreeOrders
    OrderAmount <- OrderAmounts
    Hops = 2
    Fees = {0, 1}
    MaxNotices = 2
    MaxConfirms = 1
    Cancels = {"o1"}
    BridgeErrors = FALSE
    FeeErrors = FALSE
SPECIFICATION Spec
INVARIANTS RoutedCovered
CHECK_DEADLOCK FALSE
