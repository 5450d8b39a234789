SPECIFICATION FeedsSpec
CONSTANTS
  Markets = {"m1", "m2"}
  Consumers = {"c1", "c2"}
  MarketOf <- MarketOfDef
  FrameCount <- FramesDef
  MaxSocketFaults = 1
  MaxOld = 1
  MaxMoves = 3
  GridRows <- RowsDef
  Windows <- WindowsDef
  Ticks <- TicksDef
  MaxScrolls = 1
  MaxLost = 1
  OtherFrames = TRUE
  Subscribers = {"s1", "s2"}
  MaxUserFaults = 2
  MaxUserMoves = 3
  MaxTape = 2
  Executed = 3
  MaxTapeFaults = 1
  MaxTapeMoves = 2
  Names = {"yes", "no"}
  FirstName = "yes"
  Amounts = {0, 1, 2}
  Funds = 1
  MaxEdits = 2
  MaxQuotes = 1
  MaxBook = 1
  MaxPresses = 1
  MaxOrderRetries = 1
  MaxFailures = 1
  MaxMoneyPresses = 2
  MaxMoneyRetries = 1
  MaxSlow = 1
  PageLen = 2
  MaxRows = 6
  MaxRefetch = 2
  CellValues <- CellsDef
  MaxFills = 3
  TradeCap = 2
  PointCap = 3
  MaxLosses = 1
  MaxPrice = 2
  PerPercent = 2
  AbsoluteMin = 1
  MaxPriceFrames = 3
  MaxSettings = 1
  MaxRenders = 1
  Shapes <- ShapesDef
  Alphabet <- AlphabetDef
  PriceLevels = {1, 2}
  MaxLiveQuotes = 2
  MaxPoints = 1
  MaxTicker = 2
  MaxTrades = 4
  MaxComments = 3
  MaxEditions = 2
  MaxThreadLoads = 2
  MaxNoes = 1
  MaxCalls = 2
INVARIANTS
  
  FollowersServed
  
  
  PricesAgree

  
CHECK_DEADLOCK FALSE
