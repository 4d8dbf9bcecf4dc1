SPECIFICATION Spec
CONSTANTS
  Null = Null
  OrderIds = {o1}
  Arcs = {r1, r2}
  MaxBatchSize = 2
  ReuseIds = FALSE
  AllowUpdates = FALSE
  MaxNotify = 3
  MaxInflight = 1
  Clients = {c1, c2}
  QuoteIds = {q1, q2}
  Symbols = {s1, s2}
  Known = {s1, s2}
  WaitPeriod = 1
  MaxRequests = 3
  MaxCancels = 1
  Accounts = {a1}
  FirstBlock = 2
  MaxBlocks = 2
  Window = 1
  WordSize = 64
  WebSocket = TRUE
  Attempts = 2
  MaxSends = 1
  MaxPolls = 1
  MaxRpcFaults = 2
  Modes = {"orders", "quotes"}
  MaxEvents = 3
  MaxRejects = 1
  Listed = {s1}
  Capacity = 2
  SlowSnapshots = FALSE
  MaxUpdates = 4
  MaxFaults = 1
INVARIANTS  ChainAccounted StopsInOrder
PROPERTIES StarvesOnlyBehindStale  CommandsAnswered 
  StopsStay
  IsBookView CatchesUp
CHECK_DEADLOCK FALSE
