SPECIFICATION ServicesSpec
CONSTANTS
  Callers = {c1, c2, c3}
  Threshold = 2
  MaxFailures = 5
  None = None
  u1 = u1
  u2 = u2
  Users = {u1, u2}
  Nobody = Nobody
  One = 5
  PoolFeeNum = 0
  ProtoFeeNum = 1
  FeeDen = 2
  Balance0 = 16
  Shares0 = 1
  Reserve0 = 1
  Prices = {3}
  Budgets = {8}
  Lots = {1}
  Kinds = {"market", "limit"}
  PostOnly = {FALSE}
  Traded = {"yes"}
  Referrer <- NoReferrals
  Reward = 1
  SplitFeeNum = 0
  SkipLocked = TRUE
  MaxOrders = 2
  MaxRequests = 3
  MaxSweeps = 1
  w1 = w1
  w2 = w2
  c1 = c1
  Writers = {w1, w2}
  Clients = {c1}
  Market = Market
  CriticalMax = 1
  EphemeralMax = 1
  RedisMayFail = TRUE
  MaxFrames = 3
  lpA = lpA
  lpB = lpB
  lpC = lpC
  LPs = {lpA, lpB, lpC}
  Digits = 4
  Unit = 10000
  MaxResidual = 20
  MaxTokens = 2
  Providers = {"creator", "other"}
  Seed = 4
  Creator = "creator"
  Purse = 4
  Deposits = {2, 4}
  Exits = {2, 4}
  Lot = 2
  LotFee = 1
  ExitsAlone = TRUE
  MaxLPMoves = 4
  Calls = {"first", "second"}
  Intents = {"i1", "i2"}
  Keys = {"k1"}
  NoKey = "nokey"
  MaxOut = 2
  MaxDeskFaults = 1
  Admins = {"root", "ops"}
  VaultStart = 5
  Draws = {1, 2, 3}
  Alerts = {"low", "high"}
  AlertWorkers = {"p1", "p2"}
  DueSets = {{"low"}, {"low", "high"}}
  MaxAlertFaults = 1
INVARIANTS
  
  
  BalanceIsLedger
  AckMeansCredited
  ReservedIsHeld
  NoDrawUnlogged
  
  
  NotClosedAfterFailures
  PermitNeverLeaks
  
  
  OnlyDustIsOff
  ServicesTypeOK
PROPERTIES
  OthersKeepTheirClaim
CHECK_DEADLOCK FALSE
