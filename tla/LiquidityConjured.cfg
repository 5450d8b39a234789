SPECIFICATION LiquiditySpec
CONSTANTS
  Providers = {lpA, lpB}
  Creator = lpA
  Seed = 4
  Purse = 4
  Deposits = {2, 4}
  Exits = {2, 4}
  Lot = 2
  LotFee = 1
  ExitsAlone = FALSE
  MaxLPMoves = 4
INVARIANTS
  NoDollarsConjured
CHECK_DEADLOCK FALSE
