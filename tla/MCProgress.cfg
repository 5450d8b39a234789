SPECIFICATION ProgressSpec
CONSTANTS
  u1 = u1
  u2 = u2
  yes = yes
  no = no
  w1 = w1
  w2 = w2
  None = None
  Users = {u1, u2}
  Outcomes = {yes, no}
  Workers = {w1, w2}
  Disputes = {}
  Shares <- SharesDef
  Collateral0 = 4
  Fees0 = 1
  MaxRetries = 1
  MaxTasks = 1
  MaxFaults = 0
  c1 = c1
  Writers = {w1, w2}
  Clients = {c1}
  Market = Market
  CriticalMax = 1
  EphemeralMax = 1
  RedisMayFail = TRUE
  MaxFrames = 3
  Markets = {"m1", "m2"}
  Consumers = {"c1", "c2"}
  MarketOf <- MarketOfDef
  FrameCount <- FramesDef
  MaxSocketFaults = 1
  MaxOld = 1
  MaxMoves = 2
  GridRows <- RowsDef
  Windows <- WindowsDef
  Ticks <- TicksDef
  MaxScrolls = 1
  MaxLost = 1
  OtherFrames = FALSE
  Subscribers = {"s1", "s2"}
  MaxUserFaults = 1
  MaxUserMoves = 3
  MaxTape = 2
  Executed = 3
  MaxTapeFaults = 1
  MaxTapeMoves = 2
  Names = {"yes", "no"}
  FirstName = "yes"
  Amounts = {0, 1}
  Funds = 1
  MaxEdits = 1
  MaxQuotes = 2
  MaxBook = 1
  MaxPresses = 1
  MaxOrderRetries = 1
  MaxFailures = 1
  MaxMoneyPresses = 1
  MaxMoneyRetries = 1
  MaxSlow = 1
  PageLen = 2
  MaxRows = 4
  MaxRefetch = 1
  CellValues <- CellsDef
PROPERTIES
  ResolutionSettles
  
  UserIsAnswered
CHECK_DEADLOCK FALSE
