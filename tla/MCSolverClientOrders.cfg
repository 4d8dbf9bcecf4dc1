SPECIFICATION Spec
CONSTANTS
    Clients = {c1, c2}
    OrderIds = {o1, o2}
    Arcs = {a1, a2}
    Null = Null
    WaitPeriod = 1
    MaxBatchSize = 2
    ReuseIds = FALSE
    AllowUpdates = TRUE
    MaxNotify = 3
    MaxInflight = 1
SYMMETRY Symmetry
CHECK_DEADLOCK FALSE
INVARIANTS
    TypeOK
    QueueHoldsOrders
    NoLostNotification
    OneOrderAtATime
