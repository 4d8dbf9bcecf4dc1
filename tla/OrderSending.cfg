SPECIFICATION FairSpec
CONSTANTS
    Orders = {o1, o2}
    Sessions = {s1}
    Null = Null
    OrderQuantity = 2
    Treated = {1, 2}
    Tolerance = 1
    TradingModes = {TRUE, FALSE}
    MaxFailures = 1
    MaxPlaceFailures = 1
CHECK_DEADLOCK FALSE
INVARIANTS
    TypeOK
    OneFinalReport
    ExecutionsBooked
    AnnouncedBeforeFilled
PROPERTY SentOrdersEnd
